# bundle-broadcaster in TLA+

A model of the Go service in `src/`: bots send signed bundles over a WebSocket,
the broadcaster queues them, and a pool of workers sends each one to every
configured relay. The modules below state what the service must not do in any
interleaving of its goroutines. TLC checks them on small instances, and TLAPS
proves every safety property the runs check for every instance; liveness is
model-checked only.

## 1. Inventory

| Part | Source | State | Operations | Hard parts |
|---|---|---|---|---|
| WebSocket server | `ws_server.go` | `closed`, `queue`, `ctx`, the handlers' and workers' local bundles | `HandleWS`, `worker`, `Start`, `Shutdown` | check of `closed` and send on `queue` are two steps; workers share a channel that is cancelled and closed under them; full queue |
| Process | `main.go` | listener, main goroutine | start, signal, three shutdowns, exit | order of the shutdowns, 30 second limit |
| Relay manager | `relay_manager.go` | relay clients, `RefundConfig` | `Broadcast`, `applyRefundDefaults`, `Shutdown` | one goroutine per relay, all awaited; 0 percent and no percent |
| Relay client | `relay_client.go` | `rateLimitedUntil` (atomic), counters, `jsonEncoderPool` | `Broadcast`, `WarmConnections` | check of the cooldown, request and update without a lock; retries after an ambiguous error; timeouts, cancellation; a buffer shared by way of a pool |
| Transaction details | end of `relay_client.go`, `buildTenderlyURL` | none | `computeLastTxHash`, `decodeTxDetails`, `parseBundleHash` | three readings of the same raw transactions that must agree |
| Request builders | `strategies/`, `strategies/relays/` | the registry | `BuildRequest` of 24 builders | each copies another set of fields |
| Tracker | `tracker.go` | `hashCh`, `simCh`, `doneCh`, maps `pending`, `simCache`, files | `RecordHash`, `RecordSim`, `run`, `Stop` | hash and result in either order, eviction, overflow, the exit of the process |
| Simulator | `simulator.go` | none | `SimulateAsync` | a goroutine nobody waits for, under a context nobody cancels; conversion of wei; the state block in uint64 |
| Client library | `client/client.go` | `conn`, `closed` under `mu` | `New`, `Send`, `Close` | concurrent reconnects, writes outside the lock |
| Configuration | `config.go` | none after start | `LoadConfig` | defaults |
| Metrics and their page | `metrics.go`, `metrics_handler.go`, `auth.go` | counters, sessions | counters, rendering, login | the counters must agree with what happened |
| Signer | `signer.go` | key | `Sign` | none: a pure function |

How they interact: a bot's `Client` connects to `HandleWS`, which puts parsed
bundles into `queue`. A worker takes one and calls `RelayManager.Broadcast`,
which fills in refund defaults, starts a simulation that nobody waits for, runs
one `RelayClient.Broadcast` per relay and waits for all. A relay client reports
hashes, the simulator results, to the tracker through channels. On SIGINT or
SIGTERM `main` stops the server, the HTTP listener and the tracker, and returns.

What makes each part correct:

- server: a bundle is in one place or has one outcome; after `closed` is set
  nothing new gets in; the shutdown ends;
- relay client: each call is counted once, duplicates are bounded, an answered
  bundle is not sent again, cooldowns neither add up nor spread to other relays;
- manager: a worker is released only when all calls are over, and it is released;
- builders: the bot's refund terms prevail, and reach the relays that are said to
  support them and no others;
- tracker: a hash is written once, with the result if there is one, or has
  another outcome; nothing waits for ever; memory does not grow with the traffic;
- simulator: profit is recorded only of a bundle all of whose transactions
  succeeded, in the right amount; each simulation ends;
- the service: the counters of both ends add up, and no call to a relay is under
  way when the tracker is stopped (a simulation may be);
- client: one connection at most, none after `Close`, a bounded number of writes.

`PROJECT.json` lists the hazards line by line with the property that covers each.

## 2. Modules

**BundleLife** is the abstract specification: a bundle is offered, turned away
or accepted; an accepted one is served once, and is served while the service is
open. Nothing is accepted once the service is closed.

**WSServer** models `ws_server.go` and the lifecycle of `main.go`. `handler` and
`held` are the program counter and the local `bundle` of `HandleWS`, `worker` and
`job` those of a worker, `main` the place of the main goroutine. The check of
`s.closed` (`Admit`, `RefuseClosed`) and the `select` (`Enqueue`, `DropFull`,
`PanicOnSend`) are different steps, as they are in the code. `Shutdown` is five
steps: `StoreClosed`, `Cancel`, `CloseQueue`, `ShutdownReturns` and what follows
in `main`. `Broadcast` is one long step, whose inside is RelayClient.
`fate`, `late` are history variables. `KeepsPromise` maps this state to
BundleLife: the stage of a bundle is read off its `fate` and place, the phase
off `cancelled` and `queueClosed`.

**RelayClient** models `RelayManager.Broadcast`'s fan-out and
`RelayClient.Broadcast` for several bundles and relays. `call[b, r]` is the
program counter of the goroutine of bundle `b` and relay `r`. A buffer of `pool`
holds the request from `Build` on; `End` gives it back to the pool, whoever still
reads it: the transport reads the first attempt from the buffer itself, the retries
from a copy, and may do so after the call. `client.Do` is entered
(`Do`), the request reaches the relay or not (`Reach`), the relay answers
(`Answer`) or the attempt fails (`ConnFails`, retried; `TimesOut`, `Interrupted`,
`OtherError`, not retried). A relay may answer 429 or an error before it has the
whole request. A request nobody waits for any more, whose attempt was given up or
answered early, is `loose` and may still arrive (`LateReach`). A 429 is two steps,
as `time.Now` and `Store` are
(`ReadClock`, `StoreCooldown`). `reached`, `settled` and `verdict` are history
variables. The relay and the network are external.

**Broadcaster** composes the two. The variables of WSServer and RelayClient are
its own, `cancelled` belongs to both, and each step is a step of one of them or a
step of both at once: `Takes` (a worker takes a bundle and `StartBroadcast`),
`Returns` (`AllReturned` and `FinishBroadcast`) and `Cancels`. The refinement needs
no mapping beyond the names: with the calls hidden, the composition is WSServer.

**TxDetails** holds the functions that read raw transactions and a relay's answer,
as operators: a raw transaction is a prefix and a rest that decodes or not. The loop of
`decodeTxDetails` is a recursive function of the times it has run.

**Simulator** models `SimulateAsync` and, beside it, the hash event of the same
bundle. An answer's amounts are texts, a prefix and digits; `weiHexToEth` is the
conversion they go through, with its base, its two roundings (`Quotient` to a
big.Float, `Printed` to nine decimals) and its way of leaving what it cannot read.
The endpoint is external, and so is the number of results it lists.

**RelayPayload** models the optional fields of a bundle: what `json.Unmarshal`
leaves of them (`Parsed`), `applyRefundDefaults` with its fast path, and the
fields each of the 24 registered builders copies, one definition per builder.
Values are abstract: unset, zero, the bot's, the configuration's. The properties
compare the requests with a table of their own, `Supporters`, the refund support
that DOCS.md:95-110 gives for each relay (for quasar's `refund_tx_hashes` the field
list in `quasar.go`). Where the code departs from what is written, an exception is
named: `NotCopied` (jetbldr and tbuilder never get `refund_tx_hashes`) and
`LooksUnset` (an explicit empty value, also `delayed_refund: false`, counts as left
out). Both are findings; without them `BotTermsPrevail` is false.

**Tracker** models `tracker.go`. `RecordHash` and `RecordSim` put an event into
a channel or drop it; `TakeHash`, `TakeSim`, `PeriodicFlush`, `FinalFlush` are
the cases of `run`'s `select`. A case is atomic, since only `run` touches its
maps. `fate` is the outcome of each hash, `lines` the files. Time is in periods
of the ticker; ages stop at `MaxAge`, a bound of the model, the first value `flush`
no longer distinguishes.

**WSClient** models `client/client.go`: each `Send` is a program counter with one
step per critical section of `c.mu` and a begin and an end of `WriteMessage`,
which runs outside it. Links break at any time, writes fail or succeed.

**WSServerProofs**, **RelayClientProofs**, **BroadcasterProofs**, **TrackerProofs**,
**SimulatorProofs**, **RelayPayloadProofs** and **WSClientProofs** hold the proofs
about the module each is named after, **ChannelProofs** the lemmas about Go channels
that two of them share. The modules `MC*` give TLC its constants.

Each definition written "(mutant of D: ...)" is a plausible bug of the code, not
used by the specification; replacing D by it must break the property it is
listed with in `PROJECT.json`.

## 3. Runs

| Run | Instance | Shows |
|---|---|---|
| `ws` | 2 connections, 2 workers, 3 bundles, queue of 1 | TypeOK, InOnePlace, ReceivedIsAccounted, LateIsRefused, AcceptedIsServed, QuitEnds, KeepsPromise |
| `ws_panic` | the same, fewer bundles | a handler that passed the check of `closed` sends on the closed queue and panics |
| `relay` | 2 bundles, 2 relays, one misconfigured, 3 attempts, cooldown 2, 4 ticks, 2 buffers | EachCallCountedOnce, DuplicatesAreBounded, NoAttemptAfterSettled, CooldownsDoNotAddUp, CooldownIsPerRelay, BufferIsExclusive |
| `broadcaster` | 1 connection, 1 worker, 2 bundles, 2 relays, 2 attempts, 1 tick | NoCallAfterShutdown, MetricsReconcile, ServedAtEveryRelay, ServerIsImplemented |
| `payload` | all 24 relays, all refund configurations, messages that differ in at most two fields from "nothing given" or "all given" | BotTermsPrevail, DefaultsFillGaps, RefundsOnlyWhereSupported |
| `tracker` | one bundle_id, answered twice by one relay and once by another, one result, channels of 1 | EventInOnePlace, WrittenOnce, PendingMatchesCache, JoinIsKept, HashGetsOutcome, CacheIsEmptied |
| `tracker_overwrite` | the same | a second hash of the same key replaces the first before it is written |
| `tracker_exit` | one hash | the process exits before the tracker has flushed |
| `simulator` | one bundle of at most 2 transactions, answers with at most 2 results, 8 amounts, with and without a target block | RecordedOnlyIfAllSucceed, HexAmountsAreExact, PaysZeroMeansZero, LinksMatchDetails, SimulationEnds |
| `simulator_amounts` | the same | an amount written in decimal is read as hexadecimal |
| `wsclient` | 2 senders, 4 links, 3 attempts | OneLink, NoLinkAfterClose, SendAfterCloseIsRefused, WritesAreBounded |
| `wsclient_panic` | the same | two writes on one connection at a time |

Why the bounds are enough: a queue of one is full with one bundle and two
workers then leave one bundle waiting, so every handoff, the overflow and the
shutdown with a backlog occur with three bundles. Two calls at a relay are what
it takes for one to start a cooldown while the other is before its check, in
flight or between clock and store; three attempts are the code's own number.
Four ticks let a cooldown of two begin twice and expire. The composition is
larger, and its parts are checked in larger instances of their own: one worker, two
bundles and a queue of one still give a backlog, an overflow and a shutdown in the
middle of a call, two relays make the broadcast wait for the slower one, two attempts
are the fewest with a retry, and one tick ends the cooldown of one. Two
simulations share nothing, so one bundle is enough; a unit of 4 wei puts amounts
on, below and above the middle between two units, where rounding can go wrong, two
steps in a wei (`Fine`) let the quotient lie on either side of the amount, and
a width of 16 stands for 2^64. An answer lists none, one or two results, which is
fewer than the bundle has, as many or more (`NumbersOfResults`). Two transactions
(`NumberOfTxs`) let one of two fail or not decode, either the first or the last; the
proofs are about any number. `gasFees` is treated exactly as `coinbaseDiff` and is left
out. In the tracker, one
`bundle_id` with two keys, one of them used twice, covers overwriting and the
sharing of one cached result; the flush age and the time to live are one and two
periods instead of two and fifteen, which keeps their order. In the client, four
links allow three reconnects, so that a fourth write of a Send would show.
`MaxTime`, `MaxAge`, `Links`, `Buffers` and the finite sets of bundles and events are
bounds of the model; the code has none.

The five runs that expect a violation are disagreements of the code with its own
comments or documents; `findings` in `PROJECT.json` quotes them. Three more findings
belong to passing runs, whose properties state what the code does: `DOCS.md:451` has a
timeout "after 3 attempts" (`NoAttemptAfterSettled`), the bot's `delayed_refund: false`
does not prevail, and two builders leave out `refundTxHashes` (`BotTermsPrevail`).

Deadlock is checked in every run. Where all work may be done (`Idle`, `Ended`),
the specification says so by an explicit stuttering step.

## 4. Fairness

- Server: weak fairness of the steps of `main` after the signal and of each
  worker's steps. The Go scheduler runs runnable goroutines and the
  fairness of `FinishBroadcast` is not an assumption about relays: the run `broadcaster`
  derives it (`ServerIsImplemented`). Bots need not send, the operator need not stop
  the service, and the 30 second limit need not expire: `QuitEnds` does not use it.
- Broadcaster: weak fairness of "some call goes on", where going on is a call's
  own step or `TimesOut`, which stands for `httpTimeout`, and of each worker's
  return. Nothing obliges a relay to answer. Since each call has finitely many
  steps (theorem `CallsAreFinite`), fairness for all of them together is enough.
- Simulator: weak fairness of the goroutine's own steps and of `CallExpires`, the
  timeout of the HTTP client it shares with the relay clients.
- Tracker: strong fairness of the cases of `select`, since the Go runtime chooses
  at random among the ready ones; weak fairness of the ticker.
- RelayClient by itself, RelayPayload and WSClient are checked for safety only.

## 5. Proofs

No theorem uses fairness. Each is about any values of the constants that satisfy the
assumptions named with its module: any sets of bundles, connections, workers, relays,
senders and events, finite or not.

**ChannelProofs** says of a buffer, a sequence, that a send adds one element behind the
others, that a receive removes the head and nothing else, and that distinct elements
stay distinct. The server's queue and the tracker's channel rest on it.

**WSServerProofs** assumes that the queue has a positive capacity
(`QueueCapacityAssumption`) and that `None` is no bundle (`NoneAssumption`).

- `TypeCorrect`: `TypeOK`, which says more than types: a handler holds a bundle
  exactly between its read and the end of the select, a worker exactly while it
  broadcasts, the queue respects its capacity. It is inductive by itself, and the
  other theorems rest on it.
- `PlacesCorrect`: `InOnePlace`. A bundle in flight is at exactly one of handler,
  queue and worker. Inductive together with `TypeOK`: a step moves one bundle, and
  the clauses on distinct handlers, queue slots and workers keep the move from
  leaving a copy behind.
- `LateCorrect`: `LateIsRefused`, strengthened by "bundles are late only once
  `closed` is set". A late bundle sits at the handler that read it; only
  `RefuseClosed` is enabled there. It needs `InOnePlace`, without which another
  handler might hold the same bundle past the check.
- `AccountedFor`: `ReceivedIsAccounted`, from `Accounted`, which adds that the sets
  counted are finite. Each step moves one bundle from one summand to another, and
  `InOnePlace` is why it was not in the second already.
- `PromiseIsSafe`: the safety part of `KeepsPromise`, `Spec => Life!SafeSpec`. Each
  step maps to one `Move` of BundleLife, to a change of phase or to none
  (`StepKeepsPromise`). Beside `TypeOK` and `InOnePlace` it needs that the queue is
  closed only after the context is cancelled (`CancelledFirst`): the phases of
  BundleLife come in that order.

**RelayClientProofs** assumes at least one attempt, integer cooldowns with a positive
default, and that `None` is no buffer.

- `TypeCorrect`, with two companions it needs: the calls of a bundle whose broadcast
  has not begun are off, and a call that can still enter `client.Do` has an attempt
  left. In particular no call makes more than `maxRetries`.
- `DuplicatesBounded`: requests that arrived, that are loose and that are in flight
  are together at most the attempts (`RequestsAreAttempts`). Without the loose ones
  the bound is not inductive: `LateReach` adds to `reached` after the call is over.
- `NoAttemptAfterAnswer`, an action property: a settled call is past its last
  `client.Do` (`SettledIsLast`), and only a call before it makes an attempt.
- `BuffersExclusive`: inductive with the types, the pool being part of the invariant. It
  is about calls under way (`Holds`) and says nothing of a buffer whose call has returned.
- `CooldownsBounded`: an end that was computed but not stored yet is bounded as well
  (`EndsAreNear`). The two steps of a 429 are why the stored ones do not suffice.
- `CooldownPerRelay`: only an answer sets a status, a deadline is stored by a call
  with status 429 only (`StatusFits`), and statuses are not unset (`CooledByItsOwn`).
- `CountedOnce`: each step is `Quiet` or `Counts(p)`, one verdict with one counter
  (`ReturnsAreCounted`); a verdict there is just when a call has returned. The
  counters are cardinalities of sets that grow one element at a time (`CountersFit`).
- `VerdictsTrue`: the verdicts, which the counters count, are true of the relay's side:
  sent means received, limited means answered 429 to a request that has arrived or may
  yet, skipped means that nothing was sent. `TracesFit` says
  what each place and verdict implies of attempts, status and requests; that skipped
  calls have nothing loose comes from `RequestsAreAttempts`.
- `CallsAreFinite`: each step of a call lowers a number that starts at
  `4 * maxRetries + 6` (`StepsLeft`, of place and attempts). A retry goes back in the
  loop, at the price of an attempt.
- `CallsFitAlways`, a lemma for the composition: calls are off before their
  broadcast starts, and have returned when it ends.

**BroadcasterProofs** assumes what its parts assume.

- `ServerImplemented` and `RelayImplemented`: each step of the composition is, with the
  other half hidden, a step of WSServer and one of RelayClient, or a stutter. For the
  second the server must not start the calls of a bundle twice, which is a fact about
  its types. The instances named in Broadcaster and those in the proof modules of the
  parts are shown to be the same (`SameServer`, `SameRelay`), so that what is proved of
  the parts holds of the composition: the invariants its own proofs need (`ServerAlways`,
  `RelayAlways`), the parts' other promises (`PartsBehave`: duplicates, cooldowns,
  buffers, late bundles), and that of BundleLife (`WholeKeepsPromise`).
- `Linked`, the invariant of the composition: a broadcast is running just while a
  worker has its bundle, and over just when the bundle's outcome is one of a broadcast.
- `NoCallsLeft`: with all workers gone no broadcast is running, and by `CallsFit`
  no call is under way.
- `EveryRelayServed`: a broadcast that is over has all its calls over, and a
  call that is over has a verdict.
- `NothingElseSent`: a bundle that is neither with a worker nor served has its broadcast
  off (`Linked`), so its calls are off (`CallsFit`), so no attempt was made (`TracesFit`),
  so no request of it is anywhere (`RequestsAreAttempts`).
- `NothingAfterShutdown`, an action property: with no call under way (`NoCallsLeft`) a step
  is `Quiet` and makes no attempt, so counters, verdicts and hash events are final before
  `main` stops the tracker.
- `MetricsAgree`: `MetricsReconcile` adds up the two invariants of counting of the
  parts. `Linked` makes "calls started at a relay" the bundles on workers and
  those served; `InOnePlace` makes the first as many as the workers with a job.

**TrackerProofs** assumes that events are hashes for keys, that `None` is neither a hash
nor a result, that the channels have room and that the flush age is below the time to live.

- `TypeCorrect`, with the capacities of the channels.
- `OnePlace`: `EventInOnePlace`, inductive in the words of ChannelProofs (`Placed`):
  receives, overwriting, flushes and drops each take an event from its one place.
- `WrittenAtMostOnce`: only what is in the map is written, by `Placed` it has no line yet.
- `MatchesCache`: inductive with the types. `TakeHash` looks into the cache, `TakeSim`
  into the map; a result leaves the cache only by being replaced, for which `TakeSim`
  updates the waiting records, or by age.
- `JoinKept`, an action property: what a step may do to a joined record is `KeepsJoin`;
  a flush must write the result, not the cache's if that was evicted.

**SimulatorProofs** assumes `AmountsAssumption`, which is about the endpoint: an amount's
text is garbled, or its digits are those of its notation, hexadecimal with prefix 0x and
decimal without, and have its value. Else "exact" has no meaning. The other assumptions
say that bundles consist of raw transactions, that they and the answers have a whole
number of entries, that `Garbled` is not the empty text and `None` not a link, that unit,
width and `Fine` are positive and the unit, 10^9 wei in the code, is even, and that block
numbers fit in the width.

- The invariant `AllSimulated` says for each bundle how far its simulation has come: a
  recorded profit is that of an answer in which nothing failed (`Succeeded`), each amount
  is a conversion of that answer's (`Faithful`), the log says "pays 0" only of a zero text
  and then links are made of the bundle's transactions, and a recorded hash comes with
  their details.
- `TypeCorrect`, `RecordedCorrect`, `HexAmountsExact` and `PaysZeroCorrect` follow. The
  last needs what the shortest texts read as (`NoDigits`, `OneDigit`).
- `HexAmountsExact` needs that rounding twice does no harm (`TwoRoundings`). The quotient
  is a big.Float of as many bits as the amount has and at least 64, so it is less than a
  wei off; the middle between two units of 10^9 wei is a whole number of wei; so an amount
  below a middle has a quotient below it, and nine decimals print a nearest unit. With a
  coarser quotient (the mutant `Float32Quotient`) they do not.
- Two results need induction over data, the digits of an amount and the transactions of a
  bundle. The library's induction theorems cannot be instantiated by these provers, but a
  nonempty set of natural numbers has a least element (`Least`, from the library's
  `WFMin` and `NatLessThanWellFounded`), and from it `Induction` follows for sets. That a
  recursive function exists is shown by it as well (`ReadingExists`, `CollectingExists`).
- `NotUnderstated`: what an amount is recorded as is never more than half a printed unit
  too small, in either notation. The run `simulator_amounts` shows that a decimal amount
  is recorded wrongly; this is the direction of the error. By induction over the digits,
  their hexadecimal value is at least their decimal one (`HexIsMore`).
- `LinksMatch`: `LinksMatchDetails`. By induction over its loop, `decodeTxDetails` copies
  just the transactions that have details, in order (`CopiedFrom`, `DetailsAreCopies`), and
  just these have a link (`LinkOf`).

**RelayPayloadProofs** is about every message of the optional fields, every refund
configuration and every list of relay names; its assumptions say that the
abstract values differ (`ValuesAssumption`), that messages are made of them
(`MessagesAssumption`) and that no relay has the name of the unset value
(`NamesAssumption`).

- `BotTermsAlwaysPrevail`, `DefaultsAlwaysFillGaps`, `RefundsWhereSupported` and
  `TypeCorrect` rest on the invariant `Converted`: the bundle is the message after the
  conversions made so far, and a request is what its builder makes of that bundle.
  `FieldByField` then shows that the fast path and the field-by-field copy of
  `applyRefundDefaults` come to the same, `TermsAreCopied` that each builder copies what
  its relay should get, and `RefundsCopied` that it copies no refund field besides.

**WSClientProofs** assumes at least one attempt and that `None` is no connection.

- `LinkOwned` and `ClosedForGood`: `OneLink` and `NoLinkAfterClose` are inductive
  together (`Owned`). `Close` closes what `c.conn` names, which leaves nothing behind
  only because no other connection is live; `Connect` dials only while there is none and
  the client is open, both under the mutex.
- `SendRefused`: a Send that began after `Close` is before its first look at `closed`
  or has returned `ErrClientClosed` (`RefusedAtOnce`).
- `WritesBounded`: `writes` is at most `attempt`, and less where an attempt may still
  write (`OneWritePerAttempt`).

Only model-checked:

- liveness: `AcceptedIsServed`, `QuitEnds`, `HashGetsOutcome`, `CacheIsEmptied`,
  `SimulationEnds`, and the fairness in `KeepsPromise` and `ServerIsImplemented`. TLAPS
  does not reason about ENABLED, on which fairness rests.

## 6. Not modelled

- Connection warmup (`main.go`, `WarmConnections`): no state, and over before the
  server starts. A request is sent per connection and its result ignored.
- The signer, a pure function on bytes.
- The reading of the configuration and the construction of clients, except for
  the defaults that other modules use.
- The rendering of metrics and the login to their page, which share nothing with
  the path of a bundle but the counters.
- The transport inside `net/http`: whether it still reads a first attempt from the
  buffer that `Broadcast` has given back meanwhile (`relay_client.go:104`, `:121`), so
  that what a late request says may be another call's, and which of its timeouts it
  reports as a connection error. The model allows both kinds of
  error for a timeout (`TimesOut`, `ConnFails`).

Some limits of what the code promises are visible in the models, or were met while
reading, without being claimed against it:

- a request that passed the check of the cooldown is sent, and retried, during a
  cooldown another call has started; and an end of cooldown that is stored out of
  order ends the cooldown a moment early;
- the log gives `maxRetries` as the number of attempts of a failed call whatever it was
  (`relay_client.go:164`), as `DOCS.md:451` does for a timeout, which ends a call at once;
- a simulation that is under way when the tracker is stopped gives its result to a
  channel nobody reads any more;
- an answer of `eth_callBundle` that lists fewer results than the bundle has
  transactions, or none, is taken for a success: `simulator.go:128` does not count them;
- a hash still in the tracker's channel when its goroutine returns is never written, and
  has no other outcome either (`HashGetsOutcome` excepts it);
- a Send of the client library whose write fails closes whatever connection the client
  has, which may be one that another Send has just made (`client/client.go:101`);
- `simulateTimeout`, 2 s, is never reached: the shared client's `httpTimeout` ends the
  request after 900 ms;
- a payment written `0x` or `0x00` is not recognised as none, and a bundle without
  `target_block` whose answer has no block gets the state block 2^64 - 1;
- `computeLastTxHash` does not trim the prefix `0X`, which `decodeTxDetails` does;
- a warmup of 0 connections means the default, 100, where `config.go:14` has "skip";
- `recordFailedAttempt` (`auth.go`) sets the count back at every attempt, as
  `lockedUntil` is the zero time until the count has reached its limit.

## 7. State and plan

All modules of the inventory's core are written, and all safety properties of the
runs are theorems. What is left:

1. The fairness half of `KeepsPromise` and `ServerIsImplemented` stays with TLC: it needs
   ENABLED. `CallsAreFinite`, `NoCallsLeft` and `Linked` are the safety facts it is argued
   from in section 4.
2. The login to the metrics page and the loading of the configuration are not modelled.
3. Shorter proofs: leaves that cite more than they need.
