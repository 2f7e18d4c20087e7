# Termcall in TLA+

This directory is a TLA+ development for Termcall, a terminal messenger with
calls (chat, audio and ASCII video) in Go. It models the signaling server, the
client side of a call and the incoming-call daemon, model-checks them with TLC
on small instances, and proves with TLAPS, for all instances, the safety
properties that the passing runs check and the refinement of the call table's
contract. `PROJECT.json` maps every definition to the lines it models and lists
the runs, mutants, hazards, findings and theorems.

## 1. Inventory

### The system

    terminal user          terminal user
        |                       |
     termcall chat        call window <-- unix socket --> daemon
     (app.RunChat)        (app.RunListen)                   |
        |    \                 /  |                         |
        |     == WebRTC (Pion) == |                         |
        |   control, video, audio |                         |
     signaling.Client          signaling.Client      signaling.Client
              \                   |                   /
               ------- websocket: termcall-signald --
                  presence.Registry, calls.Manager,
                  ReplayGuard, suffixes, limiters

A caller sends `call.invite` with a signed proof; the server books the call
and rings the callee's connection (often the daemon, which opens a call window
and hands the call to it over a local socket). After `call.accept` the two
clients exchange an offer, an answer and ICE candidates through the server;
the server only tracks the state of the call. Once the control data channel is
open, hang-up, chat, video state and keyframe requests travel peer to peer.

| Component | State | Operations | What makes it correct |
|---|---|---|---|
| Call table, `server/calls/manager.go` | `calls`, `active` (busy index), deadlines, candidate counters | Invite, Accept, Decline, Cancel, Offer, Answer, ICECandidate, ICEComplete, End, Disconnect, Expire | the index mirrors the table; a user is in one live call; a finished call stays finished; nothing stays in setup; only due calls time out |
| Presence, `server/presence/registry.go` | username -> connection | Register, Get, Unregister, CloseAll | an entry belongs to the goroutine that will remove it |
| Signaling server, `server/websocket/server.go` | goroutines: serve, writer, heartbeat, sweeper; bounded queues; wait group | handshake, dispatch, Deliver, disconnect, sweep, Shutdown | no live call escapes a disconnect; shutdown drains; `session.ready` comes first |
| Admission, `identity/identity.go`, `identity/trust.go`, `server.go` | replay guard, suffix claims | Verify, Accept, claim | a proof is used once; an address belongs to one key |
| Trust store, `identity/trust.go` | a file and one copy per process | Open, Observe, SetTrusted, SetBlockedFingerprint | commands survive; blocked keys do not ring |
| Limits, `websocket/ratelimit.go`, `daemon.go` | windows, counters | Allow, allowInvite | a bound for every stretch of time (not modelled) |
| Daemon, `client/daemon/daemon.go`, and its call windows, `client/daemon/client.go`, `app.go` | current signaling client, pending invitations, window sessions, backoff; the sockets between them; what each window waits for | Run, handleSignal, handleInvite, handleLocal, release, setSignal, clearSignal; Connect, readLoop, Send and Close of a window | claims are released; one window speaks for a call, over the right connection; a window learns that its call is gone; reconnects back off |
| Signaling client, `client/signaling/client.go` | queue, results, error channel, context | Connect, Send, Close, readLoop, writeLoop, report | Send returns, loops stop, a failed handshake leaves nothing open, a loss is reported |
| Session, `client/app/app.go` | timers, `controlOpen`, `signalingAvailable`, restart flag | RunChat, RunListen, answerInvitation, runSession | no media before consent; both sides end; negotiation ends; signaling and peer connection are independent |
| Peer connection, `client/peer/peer.go` | remote description, held-back candidates, queues of 32, duplicate filter | Start, ApplySignal, RestartICE, Send, Flush, Close, sendLoop, videoSendLoop, callbacks | circular waits are known and end; candidates are applied once, after descriptions; a flush covers the hangup; Close releases everyone |
| ASCII video, `client/asciivideo/codec.go`, `peer.go`, `app.go` | encoder, decoder, one-frame queues | Encode, Decode, SendVideo, keyframe requests | the picture shown is one that was sent; a freeze ends |
| Protocol messages, TURN, access gate, terminal, media, launcher, profile, logging | none, or I/O only | | not modelled, see section 8 |

### What is hard here

* The server's goroutines share the registry and the call table, each under its
  own lock, and no lock is held across two of them: a lookup is stale when it
  is used, a disconnect is several steps, a reconnecting user overlaps the
  teardown of the old connection.
* `Deliver` is a `select` between a closed connection and a bounded queue; with
  both ready Go picks either, and a full queue closes the receiver in the
  middle of the sender's work.
* Times are read before a lock is taken, so a method may run with an old one.
* The trust file is read once per process and rewritten whole.
* The daemon's windows and its signaling connection fail independently, and a
  window's answer crosses what the server says of the call.
* In a session one goroutine is the only consumer of two bounded queues and a
  producer of two, one of them its own: full queues can close a circle.
* A session has four sources that end it (user, peer, signaling, timers) and
  ICE restarts race the timers of both ends and of the server.
* Video frames are dropped, replaced, lost and reordered by design.

`PROJECT.json` lists these as hazards, each at its line, with the property that
would catch it, or why none does yet.

## 2. Modules

| Module | Models | Composes |
|---|---|---|
| `CallManager` | the call table | |
| `CallContract` | abstract: what the table promises its users | |
| `SignalServer` | server and registry | `CallManager` |
| `Admission` | proofs, replay guard, suffix claims | |
| `TrustStore` | trust file and its processes | |
| `Daemon` | incoming-call daemon, its call windows and the sockets between them | |
| `SignalingClient` | websocket client: handshake, loops, owner | |
| `Peer` | one end of a peer connection and the session loop that owns it: queues, goroutines, closing | |
| `Session` | one call end to end | `CallManager` |
| `AsciiCodec` | delta coding, as pure operators, and their reference property | |
| `AsciiVideo` | the video path of one direction | `AsciiCodec` |
| `MC*` | instances for TLC: symmetry sets, state and action constraints | |
| `CallManagerProofs` | theorems on the call table, and that it implements its contract | `CallManager` |
| `SignalServerProofs` | theorems on server and registry | `SignalServer`, `CallManagerProofs` |
| `SessionProofs` | theorems on a call end to end | `Session`, `CallManagerProofs` |
| `AdmissionProofs`, `DaemonProofs`, `SignalingClientProofs`, `PeerProofs`, `AsciiVideoProofs` | theorems on the module of that name | that module |

Definitions keep the names of the code where they can (`Invite`, `Expire`,
`finish`, `Deliver`, `handleLocal` as `Handler`, ...). An action is what the
code does between two points at which another goroutine or process can act: a
method that holds one lock throughout is one action; one `select`, one read and
one send are one each. An error return that changes nothing is a stuttering
step.

Operators commented *Mutant:* are deliberately wrong variants of the definition
that follows (a dropped guard, an off-by-one, a missing reset). No
specification uses them; they record for each property a plausible bug that
the property detects.

### Abstractions, and why they are sound

* **Time** (`CallManager`). The code only compares instants with the present, so
  an instant is kept as the time left until it. No clock grows, behaviours are
  infinite. `MaxLag` bounds the age of a time that was read before the lock. `Admission` has expiry times shared by
  several clocks and uses an absolute, bounded clock instead.
* **Message contents.** The server never looks at a queued message again, so
  `SignalServer` keeps how full a queue is (`backlog`). What admission, the
  validators and the limiters decide is a free choice there; admission is a
  module of its own. The filter of repeated message identifiers only drops
  messages and is left out.
* **Connections** in `SignalServer` are objects whose identity is reused only
  when no goroutine refers to it.
* **Trust records** are two flags; an alias or a prefix only selects a record.
* **Pion** is external. In `Session` it connects, loses its route, recovers and
  fails when it likes; when one end is gone the other may notice it as a lost
  route or a closed channel. `MaxOutages` bounds route losses while both ends
  are there. Chat and devices are left out of `Session`; single candidates are
  represented by the end-of-candidates signal.
* **Queues in `Peer`.** What a signal or a message says does not matter to who
  waits for whom, so `signals` is a number and `outbound` tells messages from
  flush markers. Events that the loop handles without touching a queue are one
  (`OTHER`). Candidates of the other end are numbered by arrival. Pion's
  callbacks may be blocked side by side; a data channel takes a message or
  refuses it and never blocks.
* **The end of a connection** in `SignalServer`: `helpers` counts the writer and
  heartbeat goroutines of a connection, its wait group. They stop on a closed
  connection or by closing it, and `serve` returns when both have (`WaitDone`).
* **Losing the websocket** in `Session` is reported (`SetupLost`,
  `SignalingLost`) or silent, as after a failed pong (`LossReported` of
  `SignalingClient`): then the client goes on with what it has received.
* **Messages in `SignalingClient`** are the goroutines that wait for their
  results. A Send that gives up, because its own context ends (`SendExpires`) or
  the client is closed, leaves a message that belongs to `Nobody`: it keeps its
  place and is written, and its result goes into a channel that no one reads.
* **Sockets in `Daemon`** are queues each way. What a window wrote before it
  closed its end is read first; a read from a socket that the daemon itself has
  closed may fail at once. What Run sends after it has released the lock
  (`handleSignal`, `clearSignal`) is `owed` until it is sent. A window's WebRTC signals change nothing in
  the daemon, and its messages are `ACCEPT` and `END` (for decline and end,
  which the daemon treats alike). `HandleFault` is bounded to windows that have
  read what they were sent.
* **Failures of `runSession`** that come from a local error (a device, the
  terminal) end the session as `Quit` without hang-up or `Crash` do.
* **Sequence numbers** of frames are only compared with each other, so they are
  kept as the distance to the encoder's. `MaxLate` bounds how far a frame that
  is still under way may be behind. That the numbers wrap after 2^32 frames,
  which takes years, is left out.
* **Frames** carry the picture they were made from as history, which the
  decoder never reads. The bytes of a frame only carry the record's fields.

## 3. Runs

States are distinct states. With two workers `Session` takes a little over three
minutes, the two large runs of the server about two and a half, every other run
less.

| Run | States | Shows |
|---|---|---|
| `CallManager` | 89,161 | `ManagerTypeOK`, `BusyConsistent`, `SweepCanFinish`, `TerminalIsFinal`, `TimeoutOnlyWhenDue`, `BudgetOnlyByRestart`; that the table implements `CallContract`; and, with a sweeper that runs, `SetupResolves` and `TerminalIsCleaned` |
| `SignalServer` | 2,154,094 | `RegistryOwned`, `EveryCallWatched` with all signals and three connections, so that one user reconnects during its teardown |
| `SignalServerLive` | 320,093 | `AbandonedCallEnds`: a call ends when one user is gone for good; `ShutdownDrains`: after a shutdown, whatever was going on, writers and heartbeats end, every `serve` gets past its `wg.Wait` and the sweeper stops |
| `SignalServerReady` | violated | `ReadyFirst`, finding 1 |
| `Admission` | 64,983 | `SingleUse`, `OneKeyPerSuffix` |
| `TrustStore` | violated | `BlockHonoured`, finding 2 |
| `Daemon` | 129,257 | `NoStuckClaim`, `OneSpeaker`, `DiscardedOnLoss`, `BackoffDoubles`, `OwnConnection`, `CutWindowEnds`, `WindowLearns` |
| `SignalingClient` | 53,525 | `NoSilentClose`, `EverySendReturns`, `LoopsStop`, `LossReported` |
| `Peer` | 171,182 | `CandidatesKept`, `FlushCovers`, `LoopReturns`, `CloseEnds` |
| `Session` | 234,873 | `MediaAfterConsent`, `OfferFits`, `BothEnd`, `NegotiationEnds`, `WaitingEnds` |
| `SessionSignaling` | violated | `SignalingIndependent`, finding 3 |
| `AsciiVideo` | 38,446 | `RoundTrip` for every pair of pictures of up to five cells, `PictureFaithful`, `FreezeEnds` |

### Bounds

* `CallManager`: three users and two calls, so that a third party can be busy,
  calls can exclude each other and an identifier can be asked for again;
  different timeouts for ringing and negotiating; one candidate per side, so
  that the limit is hit; lag 1, so that sweeps are late. No symmetry, because
  the run also checks liveness.
* `SignalServer`: one call, two users, three connections that are
  interchangeable, and all eight signals; queues of one, so that every message
  can find one full. `Steady` keeps the state space in reach: no shutdown, no
  slow connection being closed in the background, messages waiting for one
  connection at a time. `SignalServerLive` has what it leaves out. `EndsAtOnce`
  lets the last steps of a connection (its writer and heartbeat stop, `serve`
  returns) follow each other directly, which hides nothing: no other goroutine
  reads what they change. `GetsReady` leaves a `session.ready` that cannot be
  queued to `SignalServerLive`.
* `SignalServerLive`: each of two connections serves its own user (`OwnUser`),
  with the signals that lead to a connected call and back. Where a registration
  is cut by the constraint, `Refuse` satisfies the same fairness condition, so
  no behaviour becomes unfair. A shutdown may begin in any state. `OneCaller`
  lets one of the two clients invite, and `StopsAtWait` lets helpers stop only
  while `serve` waits for them: clients need not invite, and helpers owe no more,
  so neither takes a fair step away.
* `Admission`: two keys with the same suffix, a guard for one proof, a lifetime
  and a skew of one tick each on a clock of four instants: a proof can be
  presented before, at and after expiry and after another has been pruned.
* `TrustStore`: two processes and two keys; failed saves and exits anywhere.
* `Daemon`: two windows that compete for one call and come back as new ones,
  two connections; delays 1, 2, 3 (capped). Calls meet only in the daemon's
  maps, entry by entry, and a window asks for one call in its life.
* `SignalingClient`: a queue of one, two senders and the reader's own pongs, so
  that a Send that gave up can be in the way of another.
* `Peer`: queues of one, so that each can be full and every circle closes; a
  gathering finds one candidate and two inputs come from outside (events,
  offers, candidates), which is enough to fill any two of the queues.
* `Session`: one call, one route loss while both are in session, an events queue
  of one; the caller, who restarts ICE, trickles candidates, in the first
  negotiation (`TrickledAtFirst`); one of the two websockets may be lost silently
  (`OneSilent`), the other only with an error. Both constraints cut steps that are
  not fair.
* `AsciiVideo`: two cells, deltas smaller than keyframes, frames that overtake
  each other in the network, keyframes every three pictures. `RoundTrip` has
  pictures of its own, longer than the longest run.

`CHECK_DEADLOCK FALSE` is used where the system may stop: a server that has
shut down, a session that is over, a clock at its bound.

### Fairness

* `CallManager`: time passes and the sweeper's ticker fires (`sweepLoop`). The
  fair sweep is one with a current time: a sweep that lags for ever would be a
  stopped goroutine.
* `SignalServer`: a goroutine that can run does (`Progress`); the hello is read
  with a timeout, so a handshake ends; a read fails on a closed connection or
  cancelled context; a slow connection's asynchronous close happens. The helpers
  of a connection owe their end only while `serve` waits for them, when the
  connection is closed. Clients owe nothing.
* `Daemon`: handlers and windows run, `clearSignal` follows a loss that is
  noticed, Run sends what it has to tell, and a read from a closed socket fails.
  The users, the server and the network owe nothing; a loss need not be noticed.
* `SignalingClient`: the handshake, which has a timeout, the loops and the owner
  run. Waiters for room in a Go channel
  are served in turn, hence strong fairness of `Queue`. A context given to Send
  need never end: `EverySendReturns` does not rest on `SendExpires`.
* `Peer`: each goroutine that can go on does, callbacks included. The user, the
  other end, signaling and the events Pion may raise owe nothing.
* `Session`: both loops and the server run, and Pion settles: it reports a
  connection that is established, impossible, or gone. Users owe nothing.
* `AsciiVideo`: the camera and the loops run, and a keyframe that is offered
  again and again is not dropped every time by congestion, a queue or the
  network. The code only gives this with a network that is not dead; a dead one
  ends the session instead.

## 4. Findings

1. **`session.ready` may not be first** (`SignalServerReady`). The server
   registers the connection (`server.go:233`) and queues `session.ready` after
   that (`server.go:239`). A concurrent invitation finds the user in between
   and is queued first; the client accepts only `session.ready` as its first
   message (`signaling/client.go:133`) and gives up.
2. **A block command does not reach a running daemon** (`TrustStore`).
   The daemon's copy of the trust file is read once; its next `Observe` writes
   the old flags back over the command's. The documents say that blocked keys
   are declined before a terminal opens.
3. **The loss of one websocket ends a healthy peer session**
   (`SessionSignaling`). The server's disconnect sends `call.end` to the other
   side, whose `runSession` ends; the documents say that the session continues.

Behaviours that no document forbids are stated in the properties as exceptions
rather than hidden. TLC finds each exception when it is taken out.

* `WaitingEnds` excepts a `call.end` that `RunChat` ignores while it waits (the
  callee's disconnection while ringing), and a caller whose websocket was closed
  by a failed pong: no error, answer or `call.timeout` will come.
* `BothEnd` and `NegotiationEnds` except a session that is `Stranded`: its
  websocket was lost in the same silent way, everything received has been handled
  and no description of the other side was among it. Pion, which has not been
  told of another end, reports nothing, and no timer of `runSession` runs.
* `EveryCallWatched` allows a ringing call without its callee, because the
  lookup before `Invite` is stale.
* `SingleUse` speaks of the time before a proof expires. `Verify` still accepts
  one at the instant `ExpiresAt` itself (`identity.go`), when the guard has
  already pruned it; the comment it follows (`protocol/signaling.go:87`) says
  "until".
* `PictureFaithful` allows a keyframe that was overtaken to take the picture
  back in time (`codec.go:112`): it is a picture that was sent.
* `LossReported` excepts a loss that nobody reports: when the write that fails
  is the reader's own pong, `writeLoop` hands over the result
  (`signaling/client.go:274`) before it reports, `readLoop` closes the client
  (`client.go:251`), and `writeLoop` then finds the context done and reports
  nothing. The daemon, which waits on the error channel, does not reconnect, and
  a caller or session may wait for ever (the two items above).
* `WindowLearns` excepts an acceptance that crosses the caller's `call.cancel`.
  `handleSignal` deletes the session with the cancel (`daemon.go:243`), so the
  server's `session.error` for the acceptance reaches no window; the cancel
  itself arrives in `runSession`, which ignores it (`app.go:534-550`). The
  window negotiates with nobody until its user leaves.
* `LoopReturns` excepts three circular waits of the session loop
  (`WaitsForItself`): it emits a description into a full `signals`, which only it
  empties (more candidates than places were gathered before the loop came
  round); it sends into a full `outbound` before the channel has opened, while
  `sendLoop` waits for the opening (`/mute` pressed again and again); or it sends
  into a full `outbound` while `sendLoop` reports a failure on a full `events`.
  The queues have 32 places, so this needs a burst; only Ctrl-C ends it.

## 5. Refinement

`ImplementsContract` says that `CallManager`, seen through `OpenCalls` and
`ClosedCalls`, implements `CallContract`: calls are asked for between two free
users, agreed to once, closed once, and their identifiers are forgotten later.
Signals, deadlines, the busy index and lagging clocks are all detail below it.
An ICE restart, which takes a connected call back to negotiating, is a
stuttering step of the contract.

## 6. Proofs

All theorems hold for every value of the constants: any users, calls,
connections, windows, keys, queue sizes, timeouts, lags and bounds. They rest on
the named assumptions of the models (positive timeouts and limits, ordered
delays, markers such as `NoTime`, `NoUser` and `NoFrame` that are not values of
their kind), which TLC evaluates in every run. One theorem, `DelaysDouble`, has a
hypothesis of its own, named below. TLC finds no violation of any of the inductive
invariants on the instance of a run of the module it belongs to
(`SignalServerLive` for the server).

**Call table** (`CallManagerProofs`). `ManagerInv`, the conjunction of
`ManagerTypeOK`, `BusyConsistent` and `SweepCanFinish`, is inductive
(`ManagerInvariant`); the three theorems `TypeCorrect`, `BusyIndexCorrect` and
`SweepInstants` follow. The last two are not inductive alone: `BusyConsistent`
needs the types of both maps (the index has to point to a call record),
`SweepCanFinish` needs them because `Tick` moves only instants, and the proof
that `Disconnect` and `Expire` keep the index right uses the index itself to know
that the entries they delete belong to the call they finish. The proof has one
lemma per operation, built on `ReplaceInv` (a live call replaced by a live call
with the same participants keeps the index) and on `FinishedCall` and `FinishInv`.
The action properties `TerminalIsFinal`, `TimeoutOnlyWhenDue` and
`BudgetOnlyByRestart` (`TerminalForGood`, `TimeoutsAreDue`, `BudgetRenewal`) come
from one description of what a step can do to one call, `Evolves`. It needs
`SweepCanFinish`: a sweep compares instants, and only there does it say which
calls have one.

**Contract** (also `CallManagerProofs`). `TableImplementsContract` proves
`ImplementsContract` step by step under the mapping of section 5. Only `Ask` needs
more than the types: the contract asks whether a user is in an open call, the code
looks into the busy index, and `BusyConsistent` makes the answers agree.

**Server** (`SignalServerProofs`). `ServerInv` has five parts: `ManagerInv`, the
bounds of the queues, `Helping` (which goroutines a connection has at which
point), `Wiring` and `EveryCallWatched`. `Wiring` is the control
state of the goroutines: which locals are set at which point, and `RegistryOwned`.
From it follows that each step of the server is a step of the call table or leaves
the table alone, so `ServerUsesTable` proves `Spec => ManagerSpec` and the server
inherits all theorems on the table, `ServerImplementsContract` among them.
`EveryCallWatched` (`CallsAreWatched`) is inductive on top of that: a goroutine
stops watching its user with `calls.Disconnect`, and by `BusyConsistent` that ends
the only live call the user can be in.

**Admission** (`AdmissionProofs`). `SingleUse` is not inductive. It needs
`Remembered` (the guard still holds every accepted proof that has not expired,
with an expiry at least as late), and that needs `TimesPast`: no goroutine carries
a time from the future, so pruning with an old time forgets nothing too early.
`OneKeyPerSuffix` needs `SuffixOwned`: an admitted key is the one that holds its
suffix.

**Daemon** (`DaemonProofs`). `NoStuckClaim` and `OneSpeaker` are two readings of
`Handoff`: an invitation is claimed exactly while it has a session (`Claims`), a
session belongs to a running handler of that call (`Owners`), and the running
handler of a pending call is the one in its session (`Holders`); a call that is
announced is new to the daemon (`Known`). `OwnConnection` (`SignalsStayHome`) needs
`Taken`: a handler about to send holds the connection its call arrived on.
`DelaysDouble` proves `BackoffDoubles` from the hypothesis `Doubling`, the defining
laws of powers of two, since the provers do not interpret exponentiation.

**Peer connection** (`PeerProofs`). `CandidatesKept` (`CandidatesInOrder`) needs
only the types beside it. `FlushCovers` (`FlushIsComplete`) needs that a marker is
the last item of `outbound`, which holds because the session loop, once it has
queued one, never returns to a place from which it queues anything (`MarkerLast`,
`FlushLast`).

**Session** (`SessionProofs`). `MediaAfterConsent` (`ConsentBeforeMedia`) follows
`call.accept` back to its source: while the user has not said yes there is none in
any queue (`Consent`). `OfferFits` (`OffersFit`) is far from inductive. The argument
is that the caller has one turn to negotiate, which is at most at one of six
places: an offer the session has not forwarded, an offer on its way, the table
waiting for the answer, an answer on its way back, the caller's peer connection
once it has the answer, and the event that says this connection failed, which is
what brings the next offer (`Turn`, with `Asking` and `OneWay` for what can be in
which queue). Most steps only make queues lighter or the call older, and
`QuietInv` deals with all of them at once. `SessionKeepsTable` says that a session
uses the table as `CallManager` specifies it: each step is a step of the manager,
leaves the table alone or is the stop of the server, which empties it.
`SessionTimeoutsAreDue` carries `TimeoutOnlyWhenDue` over from the table. (`Spec =>
ManagerSpec`, which holds for the server model, does not hold here, because
`ServerStops` forgets calls that are not over.)

**Signaling client** (`SignalingClientProofs`). `ClientInv` has a part for each
question. `PhaseInv`: loops and sends exist only once Connect has succeeded, and a
running client is cancelled exactly when its connection is closed. `CloseInv`:
`NoSilentClose` is not inductive, since a loop closes one step after it has
decided to; a loop on its way to `Close` has already reported, or has found the
context done, which is then accounted for, or is `readLoop` after its pong.
`StopInv`: a loop that has stopped leaves the client closed. `OneResult`: a Send
waits for a result exactly while its message is in the queue or being written,
once and in one of the two places; messages of Sends that gave up may stand before
and behind it. `LoopInv` ties `writing` and the reader's pong to the loops.
From these follow `ClosesAreAccounted` (`NoSilentClose`), `ClientLeaksNothing` (the
safety half of `LoopsStop`) and `SendGetsItsOwnResult`. The model has one result per
caller where the code makes a channel per message. That is the same as long as a
caller that sends again has no earlier message under its name, and this part of
`OneResult` is what `ResultLeaves` and `ResultQueue` prove for the steps of Send.

**ASCII video** (`AsciiVideoProofs`). The codec comes first. `CodecIsCorrect` proves
`Restores` for any two pictures of the same size, and `CodecRoundTrip` is the
invariant `RoundTrip` of the run. `encodeDelta` and the loop of `applyDelta` are
recursive functions, and the library's induction theorems take an operator, which
the provers cannot instantiate. `Induction` therefore says it of sets: a set that
holds 0 and with n also n + 1 holds every number. It is derived from the least
element that `WFMin` and `NatLessThanWellFounded` give. With it each function is
first shown to satisfy its own equation (`LoopDefined`, `EncoderDefined`;
`RunEndExists` for the end of a run), then what it computes: `Describes` says that a
sequence of runs is a correct delta of the cells from one index on, and is
established from the last cell down; `Upto` says what the first n runs have done to
the picture, from the first run up. For the path, `PictureIsFaithful` is then that
the decoder only ever applies a delta to the picture it was computed from.
`PictureFaithful` is not inductive without `Numbered`: a sequence
number stands for one picture, so whatever has the number before a delta's own,
another frame or the decoder, is the picture the delta was computed from.

## 7. Only model-checked

* All liveness: `SetupResolves`, `TerminalIsCleaned`, `AbandonedCallEnds`,
  `ShutdownDrains`, `CutWindowEnds`, `WindowLearns`, `LoopReturns`, `CloseEnds`,
  `BothEnd`, `NegotiationEnds`, `WaitingEnds`, `FreezeEnds`, `EverySendReturns`,
  `LossReported` and the first half of `LoopsStop`. Liveness under fairness and `ENABLED` are outside the
  prover's reach.
* The hypothesis `Doubling` of `DelaysDouble`: the provers have no theory of
  exponentiation. TLC computes the powers.
* The three properties that the code violates (section 4): TLC shows the
  counterexample.

## 8. Not modelled

* Gray to ASCII conversion, message validation, TURN credentials, the access
  gate, the safety code: computations without state.
* The invitation limits of the server and the daemon: counters per time window,
  judged one invitation at a time. In the models any invitation may be refused.
* Terminal, GStreamer processes, launcher, profile and key files, logging: I/O.
  Their effects appear as free choices (the user's lines, the camera).
* Of `peer.go`: RTP packets, whose queue drops what it cannot hold, the filter of
  repeated control messages, and the name of the route.
* Whether Pion accepts a candidate of an ICE restart that overtakes the
  restart's description: it is added to the old one (`peer.go:717`); what that
  does is inside Pion.

## 9. Plan

Order: what decides whether calls work comes first. Done: call table and
contract, server, admission, trust store, daemon with its windows, signaling
client with its handshake, peer connection, session, video; theorems for every
safety property that the passing runs check. Left:

1. The trust store, whose run only shows a violation: a proof that its file
   always holds some process's last complete save.
2. The invitation limits, as windows over a relative clock.
3. `Session` as an implementation of a contract that lets a server forget
   calls when it stops.

## 10. Running

    tlc -workers 2 -config CallManager.cfg CallManager
    tlapm SessionProofs.tla

The module of each configuration is in `PROJECT.json` under `runs`. `tlapm` checks
one module at a time; a proof module relies on the theorems of those it extends,
which are checked by running it on them.
