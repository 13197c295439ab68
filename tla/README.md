# A TLA+ development of the REST exchange gateway

The gateway takes orders over REST, sends them to Binance (WebSocket API) or OKX
(REST), follows them on the venues' execution-report feeds and survives restarts
by replaying an append-only log. This directory models the parts in which
several threads, the network and the disk meet, checks them with TLC and proves
what matters most with TLAPS.

All paths below are relative to the repository; `oms.cpp` is
`src/src/core/oms.cpp`, and so on.

## Inventory of the system

| Part | State | Operations | Hard because |
|---|---|---|---|
| Order state machine (`core/order_state.hpp`) | a table | `can_transition`, `apply_transition`, `is_terminal` | every observation, in any order, goes through it |
| Order management system (`core/oms.cpp`) | `orders_`, `raced_reports_`, `mutex_` | `place`, `cancel`, `amend`, `on_execution_report`, `reconcile`, `load_from_log`, `audit` | venue calls are made without the lock; reports, listings and lookups race them; an append may fail; the process may die between any two steps |
| Event log (`core/event_log.cpp`) | a JSONL file | `append`, `replay` | torn tail, failing appends |
| Retry driver (`core/retry.hpp`) | attempt counter, deadline | `with_retries` | nested in itself |
| Resilient adapters (`binance_resilient.hpp`, `okx_resilient.hpp`) | locals of a call | place, cancel, amend with resolve-then-retry | the outcome of a failed request is unknown; requests may execute late |
| Binance WebSocket client (`binance_ws_client.cpp`) | `client_`, `pending_`, `event_queue_`, `next_id_` | `call`, `start`, `stop`; supervisor and notifier threads | five mutexes, three kinds of threads, sessions that die under open calls |
| OKX orders feed (`okx_ws_client.cpp`) | session, heartbeat | login, subscribe, read, `stop` | as above, without requests |
| Typed venue clients (`okx_rest_client.cpp`, `binance_api.cpp`, the tail of `BinanceWsClient::call`) | none | classification of a reply, one re-signing | the same refusal comes in several shapes; a reply may not be understood |
| Risk and decimals (`core/risk.cpp`, `core/decimal.cpp`) | limits | `check_risk`, arithmetic | worst-case projection over orders that change, in machine integers |
| REST routes (`rest/order_routes.cpp`) | none | `POST` and `DELETE /orders` | clients retry; a definitive answer must not change |
| Gateway process (`apps/gateway_main.cpp`) | wiring, threads | startup order, audit thread | startup reconcile races the one of a connecting feed |
| Wire formats, signing, configuration, latency metrics, UI | none that decides anything | | |

**Interaction.** A REST thread calls the registry; the registry writes
`place_submitted`, releases `mutex_`, calls the connector, which runs the
resilient adapter over the venue client, and comes back under the lock with the
outcome. Meanwhile the feed thread delivers execution reports, which are buffered
in `raced_reports_` as long as a place or amend of that id is open and are
arbitrated otherwise. At startup and on every reconnect a thread reconciles:
it lists the open orders (phase A) and looks the rest up one by one (phase B).

An audit thread looks every open order up from time to time, compares and reports.

**What makes each part correct.** The registry: an order is sent once and never
forgotten, agrees with the venue when everything has been delivered, agrees with
the log at every step, and never regresses. The routes: what a client has been told
stays true. The audit: it reports every drift, and its alarms mean something. Risk: it
decides as exact arithmetic would. The adapters: what a call reports is
so on the venue. The WebSocket client: each request has one outcome, none is
stranded by a dead session, and `stop()` ends. The log: a start after any crash reads
every acknowledged event and nothing it does not understand. The OKX feed: nobody uses
the client of a session that has returned, a venue that has gone silent is given up, and
`stop()` ends.

## Modules

| Module | Models |
|---|---|
| `OrderState` | `OrderState` and the transition table |
| `OrderRecord` | one record: legs, observations, leg arbitration, replay of a log event (pure operators) |
| `Oms` | registry, callers, feed, reconciling threads, log, crash and restart, and the venue they talk to |
| `Audit` | the consistency audit beside `Oms` |
| `Routes` | what `POST` and `DELETE /orders` tell clients that retry, beside `Oms` |
| `Decimal` | fixed-point arithmetic on machine integers (pure operators) |
| `Risk` | the projected position and the three limits, in `Decimal` |
| `VenueWire` | what the typed clients make of a reply (pure operators), and the replies there are |
| `Resilient` | both adapters, the retry driver and the re-signing, over `VenueWire`, with the venue |
| `BinanceWs` | the WebSocket client: callers, supervisor, notifier, `stop()` |
| `DurableLog` | the log the registry counts on (abstract) |
| `EventLog` | the log file: appends that are cut off by a crash or fail, torn tails, replay |
| `OkxFeed` | the OKX orders feed: sessions, keepalive, `stop()` |
| `MCOms`, `MCAudit`, `MCRoutes`, `MCRisk`, `MCResilient`, `MCBinanceWs`, `MCEventLog`, `MCOkxFeed` | instances for TLC |
| `OmsProofs`, `RoutesProofs`, `InPlaceProofs`, `AuditProofs`, `ResilientProofs`, `BinanceWsProofs`, `OkxFeedProofs`, `EventLogProofs` | lemmas and theorems (`InPlaceProofs` extends `RoutesProofs`, which like `AuditProofs` extends `OmsProofs`) |

`Oms` extends `OrderRecord`, which extends `OrderState`; `Audit` and `Routes` extend
`Oms` with a component of their own and let both run side by side. `Risk` extends
`Decimal`, `Resilient` extends `VenueWire`. `Oms` sees a connector
call as one request with one outcome (executed or not, answered or ended in a
transport error, possibly executed later); `Resilient` opens that box for one id.
`Oms` checks the position in whole numbers among threads and venue calls; `Risk` opens
that check. `EventLog` likewise opens the box of one
append; `Oms` takes an append to be atomic, which is what `EventLog` implementing
`DurableLog` justifies.

Operators marked "Faulty variant" are plausible mistakes in the definition that follows
them. No specification uses them; `PROJECT.json` (`mutants`) says which property notices
which one.

### Oms and the code

`orders` is `orders_`; `flying` and `raced` are the keys and values of
`raced_reports_`; `lock` is `mutex_`. `disk` is the registry that replaying the
log would rebuild: replay is a left fold over the entries, so appending an event
is applying `replay` to `disk`, and a restart is `orders' = disk`. `unlogged`
remembers ids whose append has failed since the start: their log is known to be
behind. `venue`, `feed` and `late` are the venue's order, the reports on their way
and the requests whose call has given up.

A critical section that does not loop is one action: `PlaceStaged` is
`place` up to the release of the lock (validation, risk, insertion of the Pending
record, `place_submitted`, opening the buffer), `PlaceAccepted`, `PlaceRefused` and
`PlaceUnresolved` are its three ends, and likewise for `cancel` and `amend`. A
section that loops is one action per iteration with the lock held: `Drain` for
buffered reports, `ListedSkipped`/`ListedAdopted`/`ListedRefreshed` for phase A.
The two appends of a conclusive absence are two actions (`ReconAbsent`,
`ReconAbsentLogged`), because a crash may fall between them. `CrashRestart` may
happen in every state.

A cancel is answered ok when the venue has canceled the order, by this request or before it:
the adapters look an order up whose cancel failed and take CANCELED for a success
(`binance_resilient.hpp:241`, `okx_resilient.hpp:155`). What the venue of `Oms` leaves out: an
id is accepted once, since the registry sends it once (`AtMostOnePlace`), and what a resend inside
an adapter does to an id whose order has ended is a matter of `Resilient`; a place that was
executed is never refused, which leaves out the reply that is not understood (see
`oms.cpp:350` below); and cancelReplace is one step.

### Audit and the code

A pass takes `mutex_`, checks every record by itself (`audit_record_local`: versions 1..N,
the current leg last, fills against the state), takes over the notes about adopted legs
and makes its worklist (`AuditStarts`); looks the orders up without the lock; and compares
each answer under the lock with the record as it is *then* (`AuditCompare`). It changes no
order. `notes` is `discovered_leg_notes_`, a bounded queue filled wherever Oms adopts a
leg. `calm` and `lossy` are history: nothing was under way from the start of the pass to
its end, and the ids for which the venue executed a request whose answer was lost.

### Routes and the code

The handlers keep no state, so `Routes` adds only history: `told` (the last definitive
answer to `POST`), `canceled` (ids for which `DELETE` was answered 200) and `frail` (ids
that are no longer followed). `PostAnswered` and `DeleteAnswered` are the steps of `Oms`
that end a place or cancel, with the status that `map_error` gives; `PostRetried` and
`DeleteRetried` are requests for an id the registry knows, which it answers from the
record. A request that fails validation is answered 400 before the registry is called;
that is a guard on the inputs. The read-only routes show what the registry holds.

### Decimal, Risk and the code

A machine integer has `kLlMax + 1` non-negative values, 2^63 in the build and 2^7 in the
run, with one fractional digit instead of 8 (`kMaxDecimalScale`); `__int128` intermediates are
TLA+ integers. Texts are their digits, sign and fractional places; the routes let decimals through
that `parse_decimal` refuses, and so do the inputs of the run. A risk check is a loop over a hash
table under `mutex_`: `Accumulate` adds one record, in any order, `AddCandidate` the order
asked for, and `Accepted` or `Rejected` is `check_risk`, which gets the projection as a
text. An addition that overflows is left out, as `add_in` does; `sub_clamped_zero` casts
without a check, as the code does. A symbol without limits is `Unlimited` and nothing is
computed for it. `beyond` is history: the symbols with an order that was accepted when the sum of
what the orders could execute did not fit the integer.

### VenueWire and the code

A reply is its HTTP or WebSocket status, the code of its envelope, whether it carries
data, and the code of the item in it. `signed_request`, `parse_envelope`,
`classify_http_error`, `binance_response` and the rest are the chain of conversions from
there to the error code that an adapter sees; `Replies` is what may come back: the venue's
own answer in each of its shapes, none, a server error, a rate limit, something that
is not understood, and for Binance a -1021, which `call_signed` answers by synchronizing
the clock and signing once more. OKX's item code is looked at by the connector, after the
adapter has returned.

### Resilient and the code

A call moves through send, wait, lookup and decide; what reaches it in wait and lookup is
a reply of `VenueWire`. `PlaceVerdict`,
`binance_resilient_cancel`, `resilient_amend` and the others are the decision
tables of the six adapter functions: what they make of an error code and of the
lookup that followed it. `Retry` and `Decide` are `with_retries`: another attempt
if the decision allows it and attempts are left, else the last outcome; the
wall-clock budget is the choice to stop early. Binance compares an amended value
as a number, OKX as a string; `verbatim` says whether the client spelled it as the
venue does. The venue accepts an id again once the newest order under it has
ended, as the venues document. cancelReplace is one step of the venue: that no lookup falls between
its cancel and its new order is an assumption on the venue. `Spec` loses requests and answers; `LateSpec` also
lets requests outlive their call.

### BinanceWs and the code

One action per critical section. `client` is `client_`, and is `"new"` between its
publication and a successful `connect()`. The supervisor goes through connect, the
inline time sync, subscription, the read loop (`"loop"` at its head, where the stop
token is looked at, and `"read"` in the blocking read), close, `fail_all_pending`
(taking the waiters, then failing them) and the backoff sleep. The notifier's
handler may itself call, as the reconcile on reconnect does. `Time` and `Subscribe`
stand for the ids of the session thread's own requests.

Two observations, neither of which violates a property. `inline_time_sync` reads
whatever frame comes first; when that is the response to a concurrent caller's
request, it is dropped and the caller runs into its timeout. And `client_->connect()`
runs without `client_mutex_` while `send_frame` and `stop()` use the same object
under it; the model takes the benign outcome, that of a client that is not
connected yet.

### EventLog and the code

`file` holds the complete lines and `torn` says whether bytes without a newline follow
them. `append` is the write and its flush; `AppendCrashes` is the death of the process
after any part of it. `replay` is the start: it cuts the tail off, or refuses a file with
a complete line that does not parse (`Garbage`). An event whose line is written but not
acknowledged may survive a crash, and one whose bytes are all there but for the newline is
dropped, as in the code. Only death of the process is considered: `flush` hands the line
to the operating system, and the code does not `fsync`, so nothing is claimed of a loss of
power. Appending goes on only after a replay, as in `main`. `FaultySpec` adds writes that
fail without the process dying, and then `buffer` is what the stream may still hold.

### OkxFeed and the code

The client is a local of `run_session`; `closer` is `close_active_session_`, which `stop()`
calls under `session_mutex_`, and the pinger has a reference. Time passes in ping intervals
(`IntervalPasses`): `quiet` counts those since the last frame was read, and the watchdog fires when
it exceeds `Patience`; `waited` counts those that the current read has been blocked. What a thread
can do at once, it does before the next interval has passed; within an interval the order is free.

`close()` of the library (`httplib.h`) marks the client, sends a close frame and reads for itself;
it does not wake a read of another thread. That read ends when a frame comes, when the venue
answers the close frame, when the connection ends, or after the library's own timeout,
`ReadTimeout` (300 s, which is 15 intervals of 20 s; `run_session` sets none). So a link is
`"good"`, or `"mute"` (the venue sends nothing any more but its end of the connection answers a
close), or `"dead"` (half-open: nothing comes in), or `"lost"`; on a dead link the pinger's
`close()` ends no read (`ReadFails`). A client that is not connected yet is not affected by
`close()`, so a `stop()` during the connect is noticed at the head of the read loop. The content
of pushed reports is not modelled: `Oms` has them on its `feed`.

## Runs

| Run | Module | Shows | Distinct states |
|---|---|---|---|
| `inplace` | Oms | a venue that amends in place; two callers, two reconcilers, two amends, lost acks, late requests, a failing append | 0.9 M |
| `replace` | Audit | a cancelReplace venue, two legs report under one id, with the audit beside the registry | 2.0 M |
| `recovery` | Routes | every fault, a failing append, a crash, clients that retry | 1.3 M |
| `liveness` | Oms | calls end, the server comes up, Pending orders are resolved, also when an order is live before the gateway knows it | 7 k |
| `risk` | Risk | three orders of two symbols, amended, filled and ended, up to the limits of the integer and beyond | 2.6 M |
| `resolve` | Resilient | place, amend and cancel of one id on either venue, with every kind of reply | 0.2 M |
| `session` | BinanceWs | two sessions, two calls, `stop()` at any moment | 0.7 M |
| `log` | EventLog | four events, crashes in every append: readable, and implements `DurableLog` | 2.5 k |
| `feed` | OkxFeed | failing handshakes, silent venues, lost and half-open connections, `stop()` at any moment | 13 k |
| `lost_fills`, `open_amend` | Oms | disagreements, see below | |
| `torn_append` | EventLog | a disagreement, see below | |

**Properties of Oms.** `PlaceOwnsRecord`: nobody touches the record of an open
place. `OneOpenCall`: an id's buffer exists exactly while one place or amend of it
is open. `AtMostOnePlace`, `NotForgotten`: sent once, and in registry and log from
before the send. `DiskAgrees`: the log replays to the registry's state and fills at
every step. `NeverRegresses` (an action property): only legal transitions, fills
never shrink, across restarts too. `Converged`, `FillsCounted`: when nothing is under way,
state and fills are the venue's, for orders whose appends did not fail. `CallsEnd`, `Serves`,
`PendingResolved`: liveness.

**Properties of Audit.** `DriftReported`: a pass during which nothing is under way reports
every open order whose record is not what the venue has. `AlarmsMeanLoss`: what such a pass
reports of state, fills, leg chain or existence is no leftover of a race; something was
lost. `NoZombieUnlessLost`: as long as no answer was lost, no live order is behind a terminal
record.

**Properties of Routes.** `AnswersStable`: after a 201 or a rejection every retry of the
`POST` gets the same answer, across reconciles, cancels and restarts. `CanceledIsFinal`:
after a `DELETE` answered 200 the venue executes nothing more. `AnswersStable` leaves out orders
with a failed append or a request that outlived its call, `CanceledIsFinal` is checked on a venue
that amends in place; the disagreements below say what happens otherwise.

**Properties of Risk.** `ArithmeticExact` (`DecimalsExact` of `Decimal`): for all operands, sums,
differences, products and comparisons are exact or an error, quotients are rounded as said, and texts survive the round
trip. `RiskExact`: as long as the sum fits the integer the check decides as exact arithmetic would,
except that a price, quantity or notional beyond the integer is always refused.
`OneSidedPosition`: orders of one side cannot together execute more than `maxPosition`, for
symbols whose orders were all accepted when the sum fitted the integer (not in `beyond`).

**Properties of Resilient.** `PlacedOnce`: an id is placed at most once however
often it is sent. `RefusedIsAbsent`: after a refusal there is no order.
`CanceledIsDead`: after a successful cancel nothing is live, although an amend may be
replacing the order. `AmendInEffect`: an amend reported as successful has the value
asked for. `CallsReturn`: every call returns, whatever comes back.

**Properties of BinanceWs.** `NobodyStranded`: when a session is over, everyone who
sent on it has an outcome. `OneOutcome`: a response or a failure, never both.
`NoLeak`: `pending_` holds the open requests only. `HandlerUpToDate`: once events are
delivered the handler knows whether the stream is subscribed. `StopIsClean`,
`StopEnds`: `stop()` returns, with both threads ended, all events delivered and
nobody waiting.

**Properties of EventLog.** `Readable`: replay never meets a line it would refuse.
`Implements`: the complete lines are a log that only grows, one event at a time, and
holds what was acknowledged (`log <- file`).

**Properties of OkxFeed.** `ClientOutlivesUsers`: neither the callback nor a running pinger
outlives the client. `SilenceNoticed`: on a connection whose other end answers a close, no read is
blocked for more than `Patience + 1` intervals; the half-open one is among the disagreements.
`StopEnds`: `stop()` returns and from then on nothing runs (`StopIsClean`).

**Bounds.** One client order id suffices for everything but risk, since no operation
of the registry touches two records. Two callers are needed for
the races of one id, two reconciling threads for the startup reconcile against the
reconnecting feed; in `recovery` one caller, whose retries take the place of the second.
Quantities 1 and 2 allow a partial fill and an amend either way, and 3 is beyond the
limit; `inplace` has 2 and 3 only.
One crash and one failing append reach every place where they can fall; two amends
reach the one that is asked for while another is open. `replace` has one amend, so two legs,
and room for one note. `risk` has three orders, two on one symbol beside one on another, quantities that
add up to and beyond the limits (0.5 and 1.0), one that takes sums beyond the integer (12 of
12.7) and one that does not parse (13.0), a price whose product with a quantity is beyond the
integer and one that does not parse, and `ArithmeticExact` ranges over all operands of one byte. In `resolve` one place, one amend
and one cancel with two attempts each reach every pair of nested retries. In `session` two
sessions and two calls reach a call that straddles sessions and the handler's call against
another's. `Event` in `log` has four events, enough for
two crashes with an event between and after them. `Patience` is 3, as many intervals as
the default of two missed pongs gives, `ReadTimeout` 6 is more than the watchdog needs, as in the
build, and `MaxInbox` 3 lets frames pile up behind it. Caller threads are symmetric in
`inplace` and `replace`, ids in `risk`; runs with temporal properties use no symmetry.
`CHECK_DEADLOCK FALSE`: clients need not call again and bounds are exhausted, so the
system may stop.

**Fairness.** `Oms!Fairness`: a venue call returns (every transport has a timeout, and
the retry driver a budget), a thread waiting for `mutex_` gets it in the end (strong
fairness), loops under the lock go on, the feed is read. Nothing is assumed of the
venue and no client has to call. `PendingResolved` additionally has the premise
`Reconnecting`: feeds reconnect again and again and not every lookup fails, which is an
assumption on the network. `Resilient!FairSpec`: calls take their next step.
`BinanceWs!FairSpec`: the threads run and waits of `call()` have deadlines; a blocked
read is *not* assumed to return, since pongs keep resetting its deadline, except that
the venue answers the public time request that `inline_time_sync` waits for.
`OkxFeed!FairSpec`: the threads run and time passes, so that every read ends, in the handshake
and in the loop, at the latest with the library's timeout; nothing is assumed of the venue.
`stop()`, once called, goes on.

## Proofs

Everything is proved for every value of the constants: any number of ids, threads,
quantities, calls, attempts, faults.

**OmsProofs.** The inductive invariant `Inv` is the conjunction of

- `TypeOK`;
- `LockOwned`: `mutex_` is held across steps only by a caller that drains raced
  reports, whose id is no longer in flight, and by a thread between two appends;
- `CallsKnown`: a caller works on an order the registry holds;
- `PlaceAlone`: while a place is open no other caller is at its id;
- `WorkKnown`: what a reconciling thread still has to resolve is in the registry and
  not owned by an open place;
- `BlankUnknown`: an order that registry or log does not hold has no fills there;
- `PlaceOwnsRecord`, `OneOpenCall`, `DiskAgrees`.

`DiskAgrees` alone is not inductive: `place_accepted` replays to Live whatever it
finds, which agrees with the registry only because the record of an open place is
still Pending, which is `PlaceOwnsRecord`, which in turn needs that nobody else has an
open call on the id and that a reconciling thread skips ids that are flying. Each
action is first shown to *move* the registry in one of a few ways (`Moved`), with the
facts about a single record at the head of the module; invariants are then proved over
moves. Theorems: `TypeCorrect`, `PlaceOwnsItsRecord`, `OneMutatingCall`, `LogFaithful`,
`NoRegression`, and with the further invariant `SentKnown` (what has been sent is in
registry and log) `SentOnce` and `SentNotForgotten`. The module ends with the lemmas on reports
that travel: `Due(id)` is what is in the feed, in the raced buffer or being drained for an order,
and every step appends to it, takes from it what it applies, or loses it. `InPlaceProofs` and
`AuditProofs` share them.

**RoutesProofs.** `AnswersStand`: what a `POST` has been answered stands, on both kinds of
venue, under every fault and across restarts, for the orders that are not `frail` (no append
failed, no request outlived its call). `RoutesInv` adds to `Inv`

- `Observed`: whatever the gateway has heard of an order (a report in the feed, in a raced
  buffer or being drained, an ack, an entry of a listing, the answer of a lookup) is about an
  order that exists on the venue;
- `WorkingExists`: a record that counts as working has an order on the venue;
- `AbsenceTrue`: a lookup that found nothing is still right when it is applied;
- `Reasons`: only a Rejected record carries a recorded rejection, and the log has it too,
  except between the two appends of an absence;
- `ToldTrue`: the answer a client has is the one a retry gets, from the registry and from the
  log;
- `Followed`, bookkeeping of the two sets.

`AbsenceTrue` is the point: phase B of a reconciliation decides on an answer it got without
the lock. It stays right because a resolved order has no open place (`WorkKnown`), so nothing
sends the order again, and a request that arrives late makes the order frail. Each step of the
OMS leaves what a retry is answered alone, starts an order, opens an absence (first append) or
closes it (second), and the answers are followed over these four kinds.

**InPlaceProofs.** Three properties that hold on a venue that amends in place (OKX) and that
cancelReplace breaks (disagreement 1). `Truth`: reports on their way, listings, lookups,
acks and records never say more than the venue has, neither fills nor an end. It is
inductive under every fault, restarts included, and gives `CancelStands`. The other two
need that nothing gets lost for good: `Reliable` is `InPlace`, no foreign orders, no `feed_loss`
and no restart. Lost acks, late requests, failed appends and cancels by the venue remain. A
report that is lost with its connection is made up for by a later lookup only, so without
`Reliable` a record may be behind with nothing on its way. `FillsDue`, `EndDue` and `LiveDue` say that what
a record lacks is in `Due`: the feed, the raced buffer or a drain. At rest `Due` is empty, hence
`AllFillsCounted` and `RegistryConverges`. `EndDue` is inductive only with `Sequenced`:
the table has no transition from Pending to Canceled, so the acknowledgement of an order must
come before its cancel in every queue, also when a buffer is drained behind the feed's
back. An order resolved as absent is excluded by `ResolvedExists` and `Asked` (a record
precedes what is sent).

**AuditProofs.** `DriftAlwaysReported`, on both kinds of venue and under every fault.
`CalmPass`: in a pass during which nothing was under way every open order is still to be looked
up, or has been fetched and is unchanged since, or has been alerted on, or agrees with the venue.

The other three theorems are about orders with no lost answer, on both kinds of venue, for
any number of orders, threads and amends, with lost acks (of other orders) and cancels by the venue:

| theorem | hypothesis | what is excluded |
| --- | --- | --- |
| `ZombieMeansLoss` (`NoZombieUnlessLost`) | `Punctual` | late requests, restarts, foreign orders |
| `ConvergesUnlessLost` (`ConvergedUnlessLost`) | `Delivered` | also reports lost with a connection |
| `AlarmsAreEarned` (`AlarmsMeanLoss`) | `Faithful` | also failing appends |

The run `replace` satisfies `Faithful`. A late request or a restart executes an order or a replacement
that nobody waits for, so that the record never learns of a leg without any answer being
counted as lost; a report lost with its connection leaves a record behind until the next lookup.
The invariants:

- `Truth`: every report, listing, lookup and ack is backed by the venue (`LegBacked`). One that
  names the venue's current leg says no more than the venue has; one that names an older leg is
  about an order that has been replaced. Here a replaced leg may be reported as canceled
  while the order lives on, which is why the `Truth` of `InPlaceProofs` is of no use.
- `Followed`: for an order with no lost answer the record is blank and so is the venue's order, or
  it is Pending and the answer of its place is held by a caller, or its leg table is
  `Complete` up to the venue's leg, except that an amend that has been answered and not
  applied may be one leg ahead (`AtLeg`). It decides what `leg_index_of` returns, hence that the cancel
  of a replaced leg never ends the order, and gives `ZombieMeansLoss`.
- `NewsDue`: what such a record lacks, the state of the current leg (`StateDue`) or fills
  (`FillsDue`, as long as no leg with fills was replaced), is in `Due`.
- `CalmAlarms`: the serious alarms of a calm pass are about orders that something explains. With
  `NewsDue` and nothing in `Due`, a record that a calm pass compares is the venue's.

**ResilientProofs.** `Inv` is `TypeOK`, `OnePlace` (one call places), `NothingUnasked` (no
order without a call), `KnowledgeTrue` (a place that is about to send, that waits
without having been accepted, that has been refused, or that has seen the absence of
the order, has no order on the venue), `WaitsForVenue` (what a waiting call has been answered
is nothing, an acceptance or a code of the venue) and `PlacedOnce`. `KnowledgeTrue` is what
makes re-sending safe: without requests that
outlive their call, absence stays true until the call itself sends again. Lemmas about
`VenueWire` connect the two: a venue code reaches a call only when the venue has said it or
the request was not executed, and a lookup concludes absence only of an order that is not
there. Theorems:
`TypeCorrect`, `NoDoublePlace`, `RefusalIsTrue`, all of `Spec`, not of `LateSpec`. The
invariant `Later` is about the calls that follow the place: `DeathTrue` (a cancel that was
answered ok, that has found the order canceled or that has succeeded leaves no live
order) and `AmendTrue` (what an amend was answered, or has found, is an order of the
venue with that value), which hold because the place is over (`PlaceOver`) and one amend runs at
a time (`OneAmend`): `CancelIsFinal` and `AmendIsTrue`.

**BinanceWsProofs.** `Inv` is `TypeOK`, `Requests`, `Announced` and `Ending`. `Requests` is the
account of a request: ids of open calls are distinct and never drawn again, a request is
registered, or in the hands of the supervisor, or has its one outcome, and a caller that
waits without an outcome waits for the running session. `Announced` ties the last event, queued
or delivered, to the supervisor's place; `Ending` is the order in which `stop()` joins. It
gives `TypeCorrect`, `Awaited`, `SettledOnce`, `PendingIsOpen`, `ToldTheTruth` and `CleanStop`,
for any number of callers, calls and sessions.

**OkxFeedProofs.** `References` says for each place of the supervisor whether the client,
the callback that `stop()` uses and the pinger exist: the client is made before both and goes
after both. With `Ending` it gives `NoDanglingClient` and `StopLeavesNothing`, the safety half of
`StopEnds`. `Watched` is about time: while the loop runs there is a pinger, a pinger that has not
ended has seen at least the silence that the read has (`waited <= quiet`) and sleeps only while
that is within its patience, and one that has ended leaves a connection that is closed or lost.
Without it neither `TypeOK` (the limits of `quiet` and `waited`) nor `SilenceNoticed` is inductive;
with it follow `TypeCorrect` and `SilenceBounded`.

**EventLogProofs.** `Inv` is `TypeOK`, `Readable` and `Clean` (while the process is up there
is no torn tail and nothing is left in the stream). `Readable` is not inductive without
`Clean`: an append behind a torn tail would complete it to a garbled line. Theorems:
`AlwaysReadable` and `Refinement` (`Spec => Implements`: each append, whole or cut off, is
one event of the abstract log or a stutter).

**Only model-checked.** All liveness (`CallsEnd`, `Serves`, `PendingResolved`, `CallsReturn`,
`StopEnds`), which is out of this prover's reach. `Converged`,
`FillsCounted`, `CanceledIsFinal`, `NoZombieUnlessLost` and `AlarmsMeanLoss` beyond the
hypotheses above. `Risk` and `Decimal`: their definitions use powers, sums and maxima
over sets, about which nothing can be proved without induction over data.

**Assumptions.** `OmsAssumption` (threads distinct, quantities positive),
`AttemptsAssumption` (`retry_policy_from_json` refuses zero attempts), `ValuesAssumption`,
`VenuesAssumption`, `HandlerAssumption`, `BoundsAssumption`, `GarbageAssumption` (an event
is not an unparsable line), `FeedAssumption`, `DecimalAssumption`, `RiskAssumption` (texts that
the configuration and the routes let through), `AuditAssumption`.

## Disagreements the runs show

1. `lost_fills` (`oms.cpp:643`): after a cancelReplace the replacement's cumulative fill
   starts at zero and is compared with the old leg's high-water mark; less is counted
   than was executed.
2. `open_amend` (`oms.cpp:224`): an amend whose ack is not in yet is not part of the projected
   position; an order placed meanwhile takes the total beyond `maxPosition`, while
   `README.md:155` promises the "worst-case |position| if every working order fully fills".
3. `torn_append` (`event_log.cpp:29`): a write that fails half way leaves part of its line
   in the file, the gateway goes on and the next append completes it to a line that replay
   refuses; the gateway does not start again.

### Further disagreements

Met while modelling; no run lists them. Those with a named property can be had by checking that
property under the constants given.

*Registry*

- `NoZombie` with `InPlace = FALSE`, `Faults = {"lost_ack"}`: the ack of a cancelReplace is lost
  while only the old leg's CANCELED is buffered; the record ends although the replacement is
  live (`oms.cpp:559` against `oms.hpp:172`). A later `DELETE` is then answered 200 from the
  record, and the audit looks up open records only, so nothing reports it.
- `QuantityCurrent` with `InPlace = TRUE`, two clients, `MaxAmends = 1`: phase B applies price
  and quantity of a snapshot that is older than an amend (`oms.cpp:945`), although
  `oms.hpp:45` calls them "Current (post-amend) values", and no later report corrects them.
- `PendingResolved` with `Faults` that include `"venue_cancel"`: the table has no transition
  from Pending to Canceled (`order_state.hpp:36`), so an order whose ack was lost and which
  the venue has canceled stays Pending whatever a lookup finds; `README.md:125` says that
  reconciliation resolves Pending entries.
- `Converged` leaves orders with a failed append out (`Ids \ unlogged`); without that it
  fails: when the append of `place_accepted` or `amended` fails, the function returns before the buffered reports are applied (`oms.cpp:380`),
  although `oms.hpp:170` has them "applied, in arrival order, right after the outcome lands".
- `RejectionRecorded` with `MaxCrashes = 1`: a crash between the two appends of a
  conclusive absence (`oms.cpp:972`) replays to Rejected without a rejection (`oms.hpp:65`).
  A retry then gets 201 with state "rejected", and 201 means "acknowledged" in `doc/api.md`.
- `AbsentNeverFills` with `Faults = {"late_request"}`: "it can never fill" (`oms.cpp:967`)
  does not hold for a request that is still under way. A reconcile may also find an order
  absent, see it become Live by a report, and then apply the stale absence: Live goes to
  Rejected, and the client that got 201 gets 409 on its next retry, against "replays its
  recorded outcome verbatim" (`README.md:120`). This is why `AnswersStable` leaves late
  requests out.
- `FillsCounted` with `Foreign = {o1}`: a fill that is reported after phase A has fetched its
  listing and before it adopts the order is dropped (`oms.cpp:803`, the id is unknown), and
  the order is adopted with the fills of the older listing (`oms.cpp:873`). A later report or
  reconcile corrects it.
- A leg adopted from a report is not persisted (`oms.cpp:779`): after a crash the next amended
  event leaves a gap in the versions. A reconcile whose worklist is older than an open amend
  adopts the amend's new leg and leaves a "lost amend ack?" note although nothing is lost.
- A cancel's answer makes the record terminal before the reports of its last fills arrive, so
  until then the projected position is too small.

*Risk and arithmetic*

- `sub_clamped_zero` casts the difference without `fits_ll` (`decimal.cpp:186`), while
  `decimal.hpp:13` says "anything beyond that is an explicit error, never a silent rounding":
  with `kLlMax = 127`, 13 - 0.1 is 129 tenths and wraps. `ArithmeticExact` has a premise there.
- `PositionBounded` under the constants of `risk`: `add_in` leaves a summand out whose addition
  overflows (`oms.cpp:195`), so with 0.5 and 1.0 working and `maxPosition` 2.5 an order for 12 of
  12.7 is left out of its own projection and passes, while `README.md:155` calls the limit a
  "worst-case |position| if every working order fully fills".
- `projected_position` uses a
  parsed fill without `is_ok` (`oms.cpp:226`), and an order within the limits is refused when
  its notional overflows.
- Working buys and sells are netted, so for orders on both sides `maxPosition` is no bound of
  what can execute (`README.md:155`).
- After a cancelReplace the projection counts the amended quantity minus the fills of the old
  leg, while the replacement starts afresh.

*Adapters, clients and routes*

- `PlacedOnce` with `LateSpec`, one call, Binance: a lookup shows that the venue has not seen
  the request *yet*; the delayed first request may execute after the second order has ended
  (`binance_resilient.hpp:197`), while `README.md:137` says "There is no code path that can
  double-place an order".
- `DuplicateResolved` of `Resilient` under `LateSpec`: a duplicate answer followed by an
  inconclusive lookup is returned as a refusal while the order is live. The comment at
  `binance_resilient.hpp:193` says "Definitively absent duplicate", but the branch is also
  taken when the lookup is inconclusive. For OKX, `doc/exchanges_func.md:140` reports that
  the live venue answers 51016 for a duplicate, which `resilient_place` does not resolve and
  which `map_error` answers with 404.
- `okx_rest_client.hpp:65` and `gateway/result.hpp:11` say errors are "venue:<sCode>", but
  `parse_envelope` reports the envelope's code, so a refused item is "venue:1"; under envelope
  code "0" it passes the adapter as a success and becomes an error only in `ack_to_placement`,
  and a duplicate (51000) told that way is not looked up.
- A 200 reply that is not understood is "protocol" (`okx_rest_client.cpp:61`,
  `binance_ws_client.cpp:215`), which the adapters pass on and the registry records as
  "definitive venue rejection" (`oms.cpp:350`), although the venue may have the order.
  `RefusedIsAbsent` is therefore about the codes of the venue only.
- `DeadLinkNoticed` under the constants of `feed`: on a half-open connection the watchdog closes
  the client (`okx_ws_client.cpp:52`), which does not wake the supervisor's read, and
  `run_session` sets no read timeout (`okx_ws_client.cpp:187`); the session ends with the
  library's 300 s instead of the 60 to 80 s that the defaults promise. The comment at
  `okx_ws_client.cpp:35` says that closing "unblocks the reader and triggers a reconnect",
  `okx_ws_client.hpp:49` that such a connection "is closed and reconnected", and `okx_ws_client_test.cpp:280`
  expects the reconnect from a server that still answers a close. `binance_ws_client.cpp:471` sets
  a read deadline for this very reason.
- `order_busy` is not in `map_error` and is answered 500, as is a risk rejection whose append
  failed; `doc/api.md:141` lists 409s only.
- `SymbolTranslator` (`binance_wire.cpp`) maps "BTC-USDT" and "BTCUSDT" to the same wire symbol,
  and reports come back under whichever was used last.

## Not modelled

Backoff lengths and jitter (real-valued timing; the model allows every length); building and
parsing of JSON, signatures, clock offsets and symbol mapping (stateless conversions, of which
`VenueWire` keeps what decides); log entries older than leg versions (they replay like the
others); validation of requests and configuration; the read-only routes; signals and process
shutdown; latency metrics; the UI; vendored code. `PROJECT.json` gives the reason for each.

## What is left

1. `VenueCall`, an abstract specification of one connector operation, with `Resilient` shown
   to implement it, so that the outcomes `Oms` allows a call are exactly those the adapters
   produce.
2. The order of shutdown in `main`: feeds, server, audit and log.
3. Proofs: `NoZombie` on a venue that amends in place, which `Truth` and `AbsenceTrue` almost
   give; `AlarmsMeanLoss` with late requests and restarts, once `lossy` also counts what these
   execute unheard.
