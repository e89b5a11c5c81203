# A TLA+ model of openziti/channel

`channel` gives an application a message channel over one or more connections
("underlays"). This directory holds TLA+ specifications of its concurrent parts
and of its wire format, translated from the Go source, the TLC configurations that check
them on small instances, and TLAPS proofs of most of the safety properties for instances of any size.
`PROJECT.json` is the index: components, runs, the source lines behind every
definition, mutants that each property catches, hazards, findings and theorems.

## The system and the modules

    application ── Send / SendForReply ──> out queue ──> txer ──> underlay ──> peer
         ^                                                                      |
         └────────── handlers, waiters <── rxer <──────────────────────────────-┘

| part of the system | source | module |
|---|---|---|
| Listener that routes incoming underlays to the channel of their group, or creates it | `multi_listener.go` | `MultiListener`, abstract `ChannelGroups`, proofs in `MultiListenerProofs` |
| Life of a channel: creation, underlays coming and going, constraints, dialing, closing | `impl.go`, `underlays.go` | `ChannelLifecycle`, proofs in `ChannelLifecycleProofs` |
| Way of a message: send calls, queue, `tx`, requeueing, replies | `envelope.go`, `senders.go`, `message_source.go`, `impl.go` | `Messaging`, proofs in `MessagingProofs` |
| Waiters by sequence number, and their count | `waiterMap` in `impl.go` | `WaiterMap` |
| Binding of handlers, start, dispatch of what is received, close handlers | `bind.go`, `handler.go`, `NewChannel`, `rx` and `Close` in `impl.go` | `Dispatch`, on top of `WaiterMap`; proofs about both in `DispatchProofs` |
| Frames, headers, typed header values, version responses | `message.go`, `messages.go` | `MessageFormat` |
| The two ends of an underlay: hello over an existing connection, then messages over a stream, datagrams or websocket messages | `existing_conn_*.go`, `ws_impl.go`, `ws_listener.go`, `datagram_underlay.go`, `websockets/ws_underlay.go` | `WireConn`, on top of `MessageFormat`; abstract `MessagePipe` |
| Backoff, stability accounting and group ids of a redialing channel | `dial_policy.go` | `BackoffDialPolicy`, proofs in `BackoffDialPolicyProofs` |
| Hello exchange: dialer, listener and its pool, acceptors, refusals, dispatcher | `classic_dialer.go`, `classic_listener.go`, `hello_acceptor.go`, `hello_reject.go`, `accept_dispatcher.go`, parts of `message.go` and `messages.go` | `Handshake`, proofs in `HandshakeProofs` |
| Heartbeats | `heartbeater.go` | `Heartbeater`, proofs in `HeartbeaterProofs` |
| Latency probes and their answers | `latency/latency.go` | `Latency`, proofs in `LatencyProofs` |

How they meet: a dial policy (`BackoffDialPolicy`) asks a dialer for an underlay
(`Handshake`), whose peer's listener gives it to a `MultiListener`, which attaches it to a
channel (`ChannelLifecycle`) over whose underlays messages travel (`Messaging`, `Heartbeater`,
`Latency` on the way out, `Dispatch` and `WaiterMap` on the way in, `WireConn` in between). Each module
models its neighbours by what they may do at that boundary: a factory returns a channel or an
error, `Dial` an underlay or an error, a channel may close at any time.

Correspondence. A goroutine is a process with a program counter; one action is what it does
between two points at which others can see or change shared state: a critical section, an
atomic operation, a channel operation, a call that blocks. Local variables are kept only while
a later step uses them. Messages, headers and ids are model values. Some choices:

- `MultiListener`: the handler of an underlay also names the channel, registration and create
  notifier it makes. A channel's `Close` is four steps (flag, mark, unregister, close the
  underlays), so that lookups fall between them. The channel's lock is held throughout.
- `ChannelLifecycle`: `closeUnderlay` up to the removal of the entry is one step; the
  replacement of the fallback and a nested `Close` need the lock and are separate. A dial is
  two steps, since anything may happen while it waits. `ConstraintStartupDelay` is covered by
  the scheduling of the first `applyConstraints`.
- `Messaging`: the caller names its message, envelope and sequence number. A failed write may
  have reached the peer all the same.
- `WaiterMap`: every `sync.Map` and atomic operation is a step; `Range` visits keys one by one.
  It has no next-state relation: `Dispatch` takes its steps, as `rx`, `tx` and `Close` do.
  The local `deleteCount` of a `reapExpired` is the number of keys in `counted` for it: a `Range`
  visits a key once.
- `Dispatch`: bind handlers run one by one, and any of them may fail. A reply is counted, may
  reap, removes its waiter and is delivered in separate steps, so that two rxers, a failing `tx`,
  the caller's timeout and `Close` fall between them. A write that reports an error may have reached
  the peer all the same; the request is then requeued or the caller told, and a reply carries the
  number of the requeueing it answers. An "ask" is a message whose handler makes a
  request of its own, on the receive loop or in a goroutine of `AsyncFunctionReceiveAdapter`. The
  loss of a connection is only what it means to the rxer; redialing is `ChannelLifecycle`'s.
- `MessageFormat`: operators on sequences of bytes. `Target` is how far the running read fills its
  buffer, `Result` what it returns then; `io.ReadAtLeast` and `io.ReadFull` are in `Target`. The
  order in which Go ranges over a map is an argument, and every order is tried.
- `WireConn`: a stream hands over any number of bytes at a time; a write may fail after any part of
  it; a close with unread input, or a write to a closed end, may cost the other end what it has not
  read, as a TCP reset does. The peers of another version are external: their frames and their
  version responses are made up from what `message.go` accepts.
- `BackoffDialPolicy`: times are ages in ticks, cut off where no comparison tells them apart.
  A `Duration` is an integer modulo `IntModulus`.
- `Heartbeater`: time is reduced to whether a heartbeat is due.
- `Handshake`: deadlines are failures that may happen at any time. A header value is its origin. An
  end of a connection is open, closed, owned by the application or "left": open, with nobody to close
  it.
- `Latency`: the out queue is its length; draining it is never assumed.

## Runs

`tlc -config X.cfg M`, for the pairs in `PROJECT.json`. What they ask:

| run | instance | states | shows |
|---|---|---|---|
| `listener` | 3 underlays, 1 id | 100,718 | no split group, open channels findable, no dead registration, no leaked underlay, refusals hit no open channel, open registrations kept, every handler returns, implements `ChannelGroups` |
| `channel_dial` | 3 underlays; 2 or 1 desired | 1,103,177 | never more than desired, no forgotten shortage, each removal announced once |
| `channel_close` | 2 underlays; minimum 1, listener's side, or no constraints | 167,006 | below its minimum a channel closes, whatever dial is running; a closed channel closes all its connections and its goroutines end |
| `messages` | 2 callers, 2 underlays, queue of 1 | 655,406 | a message is in one place, `errC` never misused, what a call returns is true (`nil` from `SendAndWaitForWire` means written, refused means never sent), replies find their waiter |
| `messages_progress` | 2 callers, 1 underlay | 244,978 | callers waiting for the wire return; `Close` releases all |
| `handshake` | 2 dialers, 1 worker, queue of 1 | 72,775 | a connection is left open without an owner only when the listener closes around it, both ends agree on id and secret, every connection that comes in while the listener is open frees its worker |
| `heartbeat` | 1 txer, 2 inputs, event queue of 1 | 265,592 | no heartbeat answered twice, responses leave, the latest interval wins, pulse and txer do not block each other |
| `dispatch` | 2 underlays, 2 requests, 2 closers; four configurations | 294,639 | the waiter count is never too high, every message is taken once and by the one it is for, close handlers run once and before any `Close` returns, an asynchronous handler gets its reply |
| `wire_conn` | 2 ends, 4 kinds of underlay, 1 to 3 messages | 150,970 | the ends agree on what `Create` exchanged, messages arrive as sent (implements `MessagePipe`), an underlay fails only for a reason, an answered dialer returns |
| `backoff` | 2 underlays, 4 failures, 2 reconnects | 27,546 | documented delay, failures forgotten only for a stable underlay, one group id per channel |
| `latency` | 3 rxers, queue of 1 | 24,228 | receiving is never held up, one response at a time, regular round trips |

Configurations. `ChannelLifecycle` chooses a `Config` in its initial state, `Handshake` what the
dialers say, `Heartbeater` whether the out queue may be slower than pulse's timeouts, `Latency`
which handler answers, `Dispatch` the bind handlers, the incoming messages, who closes, whether
connections break, which writes may fail and how often a request is requeued, `WireConn` the kind of underlay, the timeout, the headers and which end is of
another version: one run covers them all.

Bounds. Two first underlays of a group and one of its next generation are what the listener's
races need; ids do not interact, and the proofs are for any sets. Three underlays let a channel
lose two while a third is dialed. Queues of one are full as soon as a second message exists.
`ReapAbove` 0 and `ReapEvery` 1 replace the threshold of 1000 waiters and the one reply in 100, so
that reaping happens with one waiter, more often than in the code. `ShiftCap` 2
and `IntModulus` 16 stand for 30 and 2^64: three failures reach the cap, and without it the product
for the fourth would be negative. `CountModulus` is the code's 256. `EventQueueSize` 1
stands for 4, so that events are dropped. `MaxFailures`, `MaxIteration`, `MaxInputs`, `MaxSent`
bound counters. In `WireConn` a byte has 8 values (`Base`) and an int32 two bytes (`IntLen`)
instead of 256 and 4, and the limits of the code (16384 and 4192 bytes of a hello, 64 versions,
128 entries, 8192 bytes of a string, 2000 of a datagram) are 20, 2, 2, 2, 2 and 20: there are
values on both sides of each but the hello's body. Two frames in a row and one in the other
direction are enough for a reader to lose its place; the typed values are tried over websockets,
where a frame is one step. Contexts of `messages` have deadlines (`Deadlines`). Symmetry is used
only in `channel_dial` and `messages`, which check no liveness.

Fairness. Weak fairness of the steps of goroutines that are ready to run. Nothing is assumed of
the environment: not that underlays arrive or fail, nor that the application closes anything, nor
that the peer reads (`Latency`). A dial may take for ever unless the channel closes.
`EveryUnderlayHandled` leaves out the timeout of the wait, `PulseNotBlocked` those of pulse. In
`Handshake` the deadlines are what ends a read, and the pool's workers take up connections only while
the listener is open, since `CloseNotify` (`classic_listener.go:88`) ends them at a time of their own
choosing; in `WireConn` no deadline has to pass, no end has
to send or close, and fairness is of the goroutine in `Create` and then in the loop around `Rx`,
written out with `CanRun` for ENABLED, which TLC is slow to evaluate for steps with so many
choices. In `Dispatch` it is of the rxers, of `tx` and of the callers; only requests made on the
receive loop have a deadline that must pass, and neither the peer nor a closer has to do anything.
`Heartbeater` needs strong fairness of the ticker in pulse's `select`, which Go chooses at random
among the ready cases, and of the wait for room in the out queue, where Go serves blocked senders
in turn.

Deadlock is checked except in `Messaging`, `Handshake`, `Heartbeater`, `Latency`, `Dispatch` and
`WireConn`, whose processes end: a caller makes one call, goroutines end with a closed channel or
connection, peers fall silent.

## Findings

`heartbeat_forgotten` is a run TLC must find violated, with the sentence it refutes quoted in
`PROJECT.json`: a heartbeat stored between `Tx`'s load and its store of 0 is not answered.

Places where the passing properties are stated around what the code does: `reapExpired` counts a
key somebody else has just removed (`impl.go:163`), so that the count may stay below the number of
waiters, and only `CountNeverAbove` is checked; a waiter whose context has no deadline is reaped
after 30 s (`impl.go:135`); a message `SendAndWaitForQueue` has queued is given up when a write
fails and the queue is full (`impl.go:615`); `BaseDelay * 2^30` overflows from 8.6 s on
(`dial_policy.go:158`); `MinDialInterval` is measured from before the backoff wait
(`dial_policy.go:245`); a listener that closes leaves connections open in three places: an
acknowledged underlay that the acceptor of `NewClassicListener` cannot hand over
(`classic_listener.go:145`), a connection that the pool refuses (`classic_listener.go:255-257`), both
named in `LeftOpenOnlyByClose`, and one still in the pool's queue, which `ConnectionsHandled` excuses;
a reply to a request whose write was reported to have failed, though it reached the peer, may find no
waiter and go to a handler (`impl.go:604-612`).

Met while modelling, and followed by the model: `existingConnDialer.Create` never makes its second
attempt, since `GetRetryVersion` knows only the version it starts with
(`existing_conn_dialer.go:72`); `IsReplyingTo(-1)` is also true of a hello's answer without a
reply header; a listener of an existing connection whose acknowledgement fails leaves the
connection to its owner (`existing_conn_listener.go:73`); `GetUint64Header` and `GetByteHeader`
report a value of the wrong length as found, `GetUint32Header` and `GetUint16Header` as missing
(`message.go:220-273`); a failing `SetWriteTimeout` leaves the waiter to be reaped
(`impl.go:597`).

## Proofs

`tlapm M.tla` for the eight modules `M` that end in `Proofs`. Every theorem holds for any sets of
underlays, callers, ids and so on, and for any value of the bounds, under the named assumptions of
the modules. Most of these say no more than that `None` is none of the actors, connections, underlays
or ids, and that bounds are natural numbers. The others: `LatencyAssumption` also says that there are
finitely many rxers, since the counter counts them, and `ConfigsAssumption` of `Dispatch` what a
configuration is: a plan of names, incoming messages whose type is not one of the names the model
keeps for replies and for the takers "any" and "dropped", a key in every ask, and any natural number
of requeueings. TLC evaluates all
of them in the runs.

The plan is the same in all of them: the conjuncts of `TypeOK` and of the inductive invariant, one
lemma for each kind of step (or each process) and each group of conjuncts it can disturb, an
invariant theorem that puts the steps together, and the properties as consequences. The inductive
invariants were checked with TLC on the instances of the runs before they were proved.

**`MultiListenerProofs`**

- `TypeCorrect`: `TypeOK`, which no run lists.
- `GroupInvariant`: `GroupInv`. None of the safety properties is inductive. That two channels of
  a group are never open follows only from who may hold a reservation: the map's reservations are
  exactly those of the handlers between reserving and releasing; while one is held the id has no
  registration until its channel takes it; a running channel is registered or its factory has yet
  to return; and a registration is of a channel of that id whose close callback has not run.
  From it: `FoundTheorem`, `OneChannelTheorem`, `NoDeadRegistrationTheorem`, `RefusalTheorem` and
  the action property `OpenRegistrationKeptTheorem`.
- `OwnerInvariant`: `OwnerInv`, on top of `GroupInv`: an underlay has a channel only after the
  factory or `AcceptUnderlay`, its handler answers for it until then. From it `NoLeakTheorem`.
- `GroupsTheorem`: `MultiListener` implements `ChannelGroups` under the mapping that takes the open
  channels of an id; the only steps that do not stutter are `FactoryCreates`, `AttachToChannel` and
  `CloseChannel`.

**`ChannelLifecycleProofs`**

- `LifecycleInvariant`: `LifecycleInv`, with the life of each underlay (who may still announce it,
  from its own goroutines to the flag in its entry), the owner of the lock at each place of the
  program, and `applyInProgress` being set exactly while one goroutine is in the loop. From it
  `RemovalsAnnouncedOnce` and `OneAppliesAtATime`.
- `ShortageNeverLost`: `NoLostShortage`. A shortage can arise in any place of a running
  `applyConstraints`, whose view of the counts is then stale. What holds throughout is that some
  applier is about to look, or is in a place from which it will look again before it ends, the check
  after the release of the flag (`impl.go:784-789`) included.
- `DesiredNeverExceeded`: `DesiredNotExceeded`, from `DesiredInv`: a count read in the loop can only
  have gone down since, for only the one in the loop adds underlays, and it dials one underlay for
  each type that it found short.

**`MessagingProofs`**

- `MessagesInOnePlace`, `ErrCNotMisused`, `ReturnsAreTrue`, from one invariant that says for each
  place of a call which of queue, txers and `errC` may hold its message.
- `RepliesFindWaiters`: `ReplyFindsWaiter`, assuming `Deadlines` as the run does. Without it the
  property is false: `reapExpired` drops a waiter without a deadline after 30 s.

**`HandshakeProofs`**

- `HandshakeInvariant`: `HandshakeInv`, what each end of a connection may hold at each place of the
  dialer, the worker and the acceptor. From it `GroupEndsAgree` (`EndsAgree`) and
  `ConnectionsLeftOnlyByClose` (`LeftOpenOnlyByClose`): an end is "left" only by a closed listener, at
  one of its two places, which the view and the acknowledgements of the connection tell apart.

**`HeartbeaterProofs`**

- `LatestIntervalAlwaysWins`, from an invariant of `reconfigC`: what it holds is the last valid
  request, unless the update that replaces it is under way.
- `HeartbeaterInvariant` and `TypeCorrect`: the counters of the module stay in their bounds because
  every event and every timer comes from an input.
- `HeartbeatsAnsweredOnce`: `AnsweredOnce` for a channel with one txer, which is what the comment in
  `heartbeater.go` claims and the run checks: a heartbeat that was answered is neither pending nor
  in the txer, nor in the queue a second time.

**`DispatchProofs`**

- `ChannelClosedOnce`: `ClosedOnce`, from who holds the lock and how far it is in `Close`.
- `DispatchInvariant`: `DispatchInv`, in layers. `NewInv` and `PlaceInv`: a message is in one inbox, or
  in one rxer's hands, or taken, and a reply exists only for a requeueing that was written. `OwnInv`:
  who is in which operation of the waiter map. `KeptInv`: the waiter of a request that was sent is in
  the map until the time of the call is up, the channel closes, or a reply is being delivered.
  `TakerInv`: what was taken went to the right one, and a reply on its way to a handler has no call
  that could still want it; this needs `KeptInv` at the moment the waiter is not found, and that none
  of its excuses ever goes away, the requeueing included. From them `MessagesTakenByTheRightOne`.
- `WaitersNotOvercounted`: `CountNeverAbove`, from `CountInv`: each key that a `reapExpired` has
  counted was deleted from the map once. The count is an inequality between cardinalities, and every
  step moves one element.

**`LatencyProofs`, `BackoffDialPolicyProofs`**

- `OneResponseHolds`: the counter is the number of goroutines past the increment.
  `RoundTripsAreRegular`: for every frequency of a `uint8` but 0.
- `ResetOnlyWhenStable`, an action property: a success after the last failure belongs to an underlay
  that is still in the channel. `OneGroupHolds`: an underlay in the channel was dialed under the
  current group id.
- `DelaysAsDocumented`: `DelayAsDocumented`, from two hypotheses on the constants that the run's
  configuration and the defaults (2 s, 1 min) satisfy. `NoOverflow`: the product for the largest
  exponent is a `time.Duration`. With a `BaseDelay` of 8.6 s or more, 31 failures overflow it, the
  delay may become negative, and the documented delay is not what `Dial` waits. `CapUnseen`: where
  the exponent stays at 30, `MaxDelay` has been reached. Powers of two are compared as numbers of
  subsets, which needs no induction.

Only model-checked. All liveness (beyond this prover), including the deadlock checks.
`CreateAgrees`, `DownForAReason` and the refinement of `MessagePipe` in `WireConn`: they rest on what
the framing computes with folds over bytes, and what a fold computes for every input needs an
induction over data.

## Not modelled

- Options (`options.go`, `constants.go`): parsing and validation, sequential, no state.
- Tracing, logging and trace decoders (`trace*`, `decoder.go`, `logging.go`,
  `type_logging_underlay.go`): observers that change no state of a channel, and generated code.
- Protobuf helpers: marshalling around the send calls of `Messaging`.
- In the wire format: message strategies other than the default (`MarshalV2WithRaw`,
  `DatagramMessageStrategy` of the application), and how a string is made of bytes.
- In the underlays: the HTTP upgrade of a websocket, identities and certificates.
- In the channel: a bind handler that itself accepts underlays (it would write the handlers an rxer
  reads), peek, transform and error handlers other than the heartbeater's, the injected underlay type,
  sendables without a message, error envelopes, and `reapExpired`'s branch for values of another type
  (none is ever stored).

## Plan

1. Prove: what of `WireConn` does not depend on the contents of a frame, such as `MessagePipe` over
   an abstract frame.
2. Extend: two queues with priorities in `Messaging`; a composition of a redialing channel, its
   dial policy and the peer's `MultiListener` through loss and reconnect, where `isFirst` may be
   stale; constraints by raw against validated types.
