# TLA+ models of extension-rabbitmq

The extension offers actions and discoveries for RabbitMQ to the Steadybit
platform: it publishes messages under load, limits the length of a queue by a
policy, checks nodes and backlogs, and lists vhosts, nodes, queues and
exchanges as targets. These modules model its handlers, goroutines and external
calls; TLC checks them on small instances, and TLAPS proves the main safety
properties for every value of the constants.

- [The system](#the-system): inventory, interactions, what is hard
- [Modules](#modules): which module models which part
- [Runs](#runs): what is checked, the bounds, the fairness
- [Proofs](#proofs)
- [Where code and docs disagree](#where-code-and-docs-disagree)
- [Not modelled](#not-modelled)
- [Plan](#plan)

To repeat: `tlc -config <cfg> <module>` for the runs in `PROJECT.json`, and
`tlapm <module>Proofs.tla` for the proofs.

## The system

The platform calls the handlers of an action over HTTP, in the order Prepare,
Start, Status (repeatedly), Stop. The state of an action travels with the calls
as JSON, so that the process keeps none between them. There are two exceptions,
both package-level maps in `extrabbitmq/publish.go`: the run data of publish
executions and the entries of the exchange guard. Stop may be called while
another Stop is under way, since the platform and the heartbeat of the SDK both
make it.

| Component | State | Operations | Talks to |
|---|---|---|---|
| Publish execution, `publish.go`, `publishFixedAmount.go`, `publishPeriodically.go`, `publishBehavior.go` | `ExecutionRunData` in `ExecutionRunDataMap`: `jobs`, `stopTicker`, `tickerDone`, two counters, two `sync.Once`, a `WaitGroup` | Prepare, Start, Status, Stop; a ticker goroutine and `MaxConcurrent` workers | AMQP broker; shared memory between all of them |
| Confirm tracking, `armChannel`, `awaitPublishOutcome` | the `confirms` and `returns` channels of a worker's connection | publish, await, drop | broker, reader of `amqp091-go` |
| Exchange guard, `guardExchangeTargetCount` | a map from a step to its targets, behind a mutex | one call in each Prepare | the Prepares of all targets of a step |
| Pacing, `getDelayBetweenRequests...`, `prepareCommon` | `DelayBetweenRequestsInMS` | Prepare | `time.NewTicker` in `start` |
| Alter queue max length | `PolicyName` in the action's state; policies at the broker | Start (list, put), Stop (delete) | management API, other attacks, operators |
| Check nodes | baseline, flags and end time in the action's state | Prepare, Start, Status | management API |
| Check queue backlog | flag and end time in the action's state | Prepare, Start, Status | management API |
| Paged listings, `clients.go`, `queue_discovery.go` | page and collected items of one call | the page loop over a retrying transport | management API |
| Discovery, `FetchTargetPerClient` | the targets of one call | visit each configured endpoint | paged listings |
| Endpoint configuration and resolution, `config.go`, `resolveAMQPURLForClient`, `CreateMgmtClientFromURL` | `Config.ManagementEndpoints`: normalised once at start, and written again by every client that completes a login | parse; look up by management URL, by AMQP URL, by host | all handlers, which get nothing but the URLs in their target |
| Wiring, descriptions, packaging | none | | |

What is hard to test here, and what makes each part correct:

- **Publish execution.** Stop closes the channel that two other goroutines send
  on; it must wait for the ticker goroutine, which may itself be blocked on the
  full channel. Two Stops may run at once. The count is checked before and
  incremented after a publish, by all workers. Stop gives up on its workers after
  eight seconds and judges counters that still move. Correct is: no panic, no
  goroutine and no entry left, Stop returns, the count is exceeded by less than
  the number of workers, and a verdict after a join is final.
- **Confirms.** A confirm that comes late is read as the answer to the next
  message, unless the connection is dropped after each unknown outcome.
- **Exchange guard.** Prepares and their retries come in any order and while
  entries become stale; once one target is rejected the step is to fail.
- **Alter.** A put may be carried out although its reply is lost; several attacks
  on one queue come and go in any order; the list and the put are two calls.
- **Checks.** The verdict is about all polls, while each poll sees itself and the
  flags that travelled; Start polls too but cannot complete.
- **Registry.** Prepare stores run data under the execution ID and loads it again;
  a repeated Prepare replaces what is stored, and a late one may do so after Start
  or Stop. Correct is: Stop ends whatever publishes, and the guard bounds what
  publishes at a time.
- **Success rate.** Two rounded float64 operations stand between the counters and
  the comparison with an integer.
- **Endpoints.** A target carries URLs as text. A lookup finds the first endpoint
  whose text, or whose host, is the same; the configuration that it finds has been
  normalised, and clients have written to it since. Correct is: an action reaches
  the broker where its target was found, with the configured login and TLS.
- **Listings and discovery.** The broker changes between pages; a page is
  requested again after a failure; one endpoint of several fails.

`hazards` in `PROJECT.json` lists each of these at its line, with the properties
that would catch it.

## Modules

An action is named for the handler, or for the part of it between two accesses
to shared state. Operators that carry the comment *(Mutated form: ...)* stand
before the definition they vary: they are plausible errors, one for each
property, with which the property fails; no specification uses them.

### Publishing

**Publishing** is abstract: what an execution promises, without goroutines.
Messages are attempted and then settled, each with one success at most; Status may
say that an amount is completed; a Stop waits, reads the total and judges, and after
a Stop that has seen the end of the pool nothing is attempted any more.

**PublishRun** is one execution. `Prepare` makes the run data and spawns the
pool. `Start` is seven steps in program order: load, set the ticker, replace
`stopTicker`, make `tickerDone`, the select of the first message, spawn the
ticker goroutine, store. They are separate because nothing orders them with a
concurrent Stop; `overlapped` records that a Stop was called before Start had
returned.
`Ticker` is the goroutine with its two nested selects. A send on a closed channel
is an enabled select case that panics, and so does a second `close` of `jobs`
(`CloseJobs`), which `jobsCloseOnce` keeps away. `Worker(w)` is `requestPublisherWorker`
from the first dial to the end of `range jobs`, with the reconnect, the retry on
a fresh connection and the wait for the outcome. `Stop(s)` is one of several
calls of `stop`: load, `stopTickers`, wait for `tickerDone`, close `jobs`, join or
give up, read the one counter, read the other and conclude; one that finds no entry
returns at once. The calls are numbered in the order in which they load. The join is a
choice between what the timeout and the `WaitGroup` would give: `joined` is
recorded as whether all workers had exited at that moment, which covers both
branches. What the broker answers is a choice as well.
`stopTicker` holds the name of the channel that it refers to ("prepare" or
"start"), because `start` replaces the channel and `stopOnce` closes only the one
that is there. The verdict compares fractions; SuccessRate has the arithmetic of
the code. `ImplementsPublishing` is the refinement: an attempt is open while its
worker retries, is about to count it, or awaits its outcome (`InFlight`), and
`StageOf` says what a Stop has done. Start, the ticker, and a worker's way to its
next message are stutters.

**PublishRegistry** is `ExecutionRunDataMap` with the executions of several
targets, and extends ExchangeGuard, which their Prepares call first. Run data is
named by the Prepare that made it; it is fed by a ticker or not, and its `jobs`
channel is closed or not. A Prepare is four steps: it passes the guard
(`PrepareGuarded`), may fail on its configuration (`PrepareFails`), stores new run
data (`PrepareStores`), and spawns its pool on what it then loads
(`PrepareSpawns`). Start and Stop load what is stored at that moment; Stop deletes
whatever is stored when it ends. The inside of one run data is PublishRun's.
`late` and `lapsed` are history: targets with a Prepare that was still under way
when Start or Stop was called, and steps whose entry in the guard was dropped.

**ConfirmStream** is what is behind the last choice: a worker, the frames on
their way to the broker and back, and the two channels that the library's reader
fills. `fate` remembers what the broker did with a message, `outcome` what the
worker made of it. Connections drop, acks are late, and five seconds pass, at
any moment. The broker and the reader are external and modelled from what the
code relies on: a return comes before the ack of the same message.
`WorkerImplementsPublishing` is a second refinement of Publishing, with one worker:
`Requests` and `Successes` are what it adds to the counters, `Unsettled` is its open
attempt. PublishRun, where many workers share the counters, chooses the outcome of an
attempt; ConfirmStream says where it comes from.

**ExchangeGuard** is the guard: `Guard(k, t, at)` is one call, atomic by the mutex,
which drops stale entries, records the target, sets `lastSeen` and then checks
the limit. The clock is read before the mutex is taken: `at` is up to `MaxWait` ago, so
that `lastSeen` may also go back. `admitted` and `reply` are history that the properties need.

**PublishPacing** is the arithmetic of Prepare: the integer divisions, the
rejections before them and the fallback to 100 ms (`PacingSpec`). **SuccessRate** extends it with
the arithmetic of Stop: `Conclude` judges counters with `RateBelow`, which is
`float64(successes) / float64(total) * 100 < required` in integers. A float64 is written
as a multiple of 1 / (p * `Unit`), where p is the power of two that brings the quotient to
between one and two (`Scale`); `Nearest` rounds to the nearest integer, and to the even one
of two. So `Quotient` is the rounded division and `Product` the rounded multiplication: a
product of the significand has six or seven bits too many, and loses them. `Unit` is 2^52.
TLC, whose integers have 32 bits, takes 2^12, a float of 13 bits that rounds at equality as
one of 53 bits does: `UnitAssumption` names the two remainders of `Unit` that decide it. The
rounding is Go's and IEEE 754's, and marked external.

### Endpoints

**Endpoints** follows a URL from the configuration to a connection.
`ParseEndpoint` normalises one endpoint or ends the process; `Discover` and
`DiscoverExchange` put the client's URL and the resolved AMQP URL into a target;
`Manage` (the beginning of the handlers of both checks and of the attack) and
`Publish` (Prepare and the dial of a worker) look an endpoint up by them and
record in `call` what they would connect to. URLs are records of the parts that
are told apart; `plain` says that a URL is written as it is printed after parsing.
The scheme of an AMQP URL is `amqp`, `amqps` or another one, which is an error.
`Filled` is the login that `CreateMgmtClientFromURL` writes into the endpoint
it is given: into the copy of the loop in most discoveries, into the shared
configuration in the listing of exchanges and in `Manage`.

### Attack and checks

**AlterQueueMaxLength** has any number of attacks on one queue. `StartList` reads
the policies and takes the highest priority, `StartPut` puts a policy, which may
be refused, or carried out with its reply lost; `StopDelete` and `StopUnnamed`
are Stop with and without `state.PolicyName`. `Edit` is an operator who adds and
removes policies at any moment, also between a list and a put. `Matching` are the foreign
policies whose patterns match the queue for the broker, `Readable` those for which Go's
`regexp` says so. `known` is history: what existed when an attack listed the policies.
`InForce` is what the broker would choose from; it has two members when there is a tie.

**CheckNodes** and **CheckBacklog** are the two checks. The configuration is
chosen by `Prepare`, which refuses a target without its attributes, each poll chooses
what it observes, `Elapse` is the passing of `state.End`. `history` records what the
polls saw and is never read by the handlers: the properties relate the verdict, which the code computes from two
flags, to the whole history.

### Discovery

**PagedListing** is one listing: the page loop of `ListAllExchanges` over
`retryTransport`, with a broker that creates and deletes between two requests. `attempt`
is the loop of the transport, and `failures` is history: the failed requests of this page.
**Discovery** is abstract: each endpoint fails or names some of its targets, and
the discovery reports what was named. **DiscoveryRun** composes: it extends
PagedListing with the loop of `FetchTargetPerClient` and one of the four handlers,
`kind`. Exchanges and queues are listed in pages; nodes and vhosts are one request
over the same retrying transport (`WholeStep`). Only exchanges are filtered. That
the name of a cluster cannot be had is ignored by every handler and left out.
`ImplementsDiscovery` is the
refinement; `answers`, `targets` and `result` have the same names in both, and
pages, retries and changes at the broker are stutters.

## Runs

| Run | Question | Instance |
|---|---|---|
| `publish_fixed` | Is a fixed-amount execution safe, does it implement Publishing, does it complete, and does it end after Stop? | 2 workers, 2 messages, 2 Stops: the first at any moment from Prepare on, the second when Start has returned and at most one worker runs |
| `confirm_stream` | Can a confirm be attributed to the wrong message, or a message hold the worker, and does the worker implement Publishing? | 3 messages |
| `exchange_guard` | Does the limit hold under retries, for what was admitted and for what publishes, does a rejection stick, and does Stop end everything? | PublishRegistry: 2 targets of one step and another step, 2 Prepares each, limit 1, 2 clock ticks, retention 1, a wait of 1 for the mutex |
| `publish_pacing` | Is every interval positive, and right, and does the verdict agree with the fraction? | 0 to 3 s; numbers around 0 to 20, 1000, 2000; rates around 1, 1000, 2000; all successes of 0 to 64 requests, all percentages |
| `alter_policies` | Does nothing that an attack has found take the place of its limit while attacks and edits come and go, and are the policies of attacks removed? | 3 attacks, foreign policies with priorities 5, 5 (a pattern that Go cannot express), and 7 (not matching) |
| `alter_tie` | *violated*: does a policy that is put outrank all that matches the queue? | 2 attacks, 1 foreign policy |
| `alter_leak` | *violated*: does Stop always remove the policy? | 2 attacks, 1 foreign policy |
| `check_nodes` | Is the verdict right for the whole history, in time, and reached? | 2 nodes, 4 polls, every configuration |
| `check_nodes_every_poll` | *violated*: must every poll detect the change? | 1 node |
| `check_backlog` | The same for the backlog check | thresholds 0 and 1, backlogs 0 to 2, 4 polls |
| `discovery` | Is anything missed or found twice, are failures retried, and do errors lose targets? | 4 handlers, 2 endpoints, 5 names, pages of 2, 2 changes for each listing, any failures |
| `endpoints` | Does an action reach the broker of its target, with the login and TLS settings configured for it? | 2 endpoints, 2 hosts, 4 vhosts, logins in URLs, beside them or missing, flawed endpoints |

**Bounds.** Two workers are enough for one to be between check and count while
the other reaches the count, and for one to be dead while the other lives. With
two messages the first may be lost to a broken connection and the second be
skipped by a failed reconnect. `jobs` has room for two, so that the ticker blocks
on it. The first Stop may overlap Prepare's workers, Start, the ticker and Status; the
second one overlaps the first at each of its steps, before and after the close, the join
and the deletion of the entry. `FurtherStopsAt` and `MaxRunning` only bound when that second
one begins: without them the liveness check does not fit. What is safe is proved for
every value of the two, so for any number of Stops that begin at any moment; that Stop
returns and leaves nothing is checked within them. In ConfirmStream three messages are one that
is unresolved, one that may inherit its confirm, and one more to inherit its
return. Three pages of a listing are a first, an inner and a last one, and two
changes can move an item across a boundary and back; the failures of a page
are bounded by the code's own `MaxRetries` of 2 alone, so that each page of a listing may
have its share of them. In the checks `MaxPolls`
polls are followed by one after the duration, so that a deviation can come first,
in the middle, last, or never. The guard's clock runs long enough for an entry to
be made, become stale and be made anew. The inputs of PublishPacing stand on both
sides of each division whose quotient becomes zero. The totals of the verdicts end at 64,
the last one for which a float of 13 bits is as far below the distance of two fractions as
one of 53 bits is for the totals of `TotalsAssumption`. Two Prepares of a
target are one that is replaced and one that replaces it, and two targets with
a limit of one are the least that exceed it. Two endpoints are a first match and
another one; the values of each carry its number, so that a wrong one is seen.

**Fairness.** Safety runs assume none. In PublishRun `FairSpec` has weak fairness
for each goroutine and each call that is under way: the Go scheduler runs them,
dialing and publishing carry timeouts, the wait for confirms ends after five
seconds and that for workers after eight. Status is fair because the platform
polls it. That Start or Stop is called is not assumed (a Stop may come after a
Prepare alone), nor that a dial or a publish ever
succeeds: `ConnectedFixedCompletes` holds although every message may fail. In
ConfirmStream only the worker is fair; the broker and the network owe nothing. In
the checks the platform polls and time passes.

**Deadlock** is checked, except in `publish_pacing`, where an execution is prepared
once and judged once. In PublishRun `Terminated` allows rest when every call has
returned and every goroutine has ended, or when a Stop overlapped Start: nothing
is promised then. That Stop does not overlap Start is what the platform does, and
not what the code enforces; `NoPanic` (but for the second close, which never
happens), `NoEntryAfterStop` and `StopEndsEverything` say so by `~overlapped`.

## Proofs

Each `...Proofs` module extends the module it is about. Every theorem is an invariance argument with
one step for each action. No theorem assumes more than the
named assumptions of the constants and what is said here.

- **PublishRunProofs**, for any finite set of workers, any number of Stop calls,
  any count and both kinds, so also for two Stops at once and for periodic actions,
  which have no run of their own. `TypeCorrect` includes that `jobs` never holds
  more ticks than there are workers. `OvershootBounded` is not inductive:
  between check and count a worker is not visible in the counter. The
  strengthening `CommittedBounded` counts the workers that have passed the check,
  `Committed`: a worker joins it only while the counter is below the number, and
  then at most all others are in it; `CountInv` joins it with
  `SuccessesAreRequests`, and the lemmas about cardinalities say how the sets
  `Committed` and `InFlight` change when one worker moves. For `NoPanicCorrect` and `NoEntryCorrect`,
  which promise something for executions
  whose Stop does not overlap Start, `OrderInv` orders the calls: no Stop has
  passed `awaitTicker` while the ticker goroutine can still send, none is called
  while Start runs. That `jobs` is not closed twice is `CloseOnce`, and needs no such
  assumption. `VerdictCorrect` needs no such assumption: `JoinedInv` says
  that a joined Stop implies that all workers have exited, which is stable, and that
  what it has read equals the counters. `PublishingImplemented` is the
  refinement of Publishing. It takes these invariants together with `QuietInv`, by which
  no worker exists before Prepare; `WorkerIsPromised` and `StopIsPromised` map
  the steps: one that moves a worker into or out of `InFlight` changes the number of
  open attempts by one, and a Stop that joins has none left. The end of the
  module is about PublishPacing and SuccessRate: `DelayPositiveCorrect`, `SpreadCorrect` and
  `RateCorrect` rest on `DivisionBounds`, the two inequalities that define integer division.
  `FractionCorrect` is for all counters below 2^30 and float64, where TLC cannot go:
  a division errs by half a unit at most (`NearestIsNear`) and a multiplication by 32 or 64
  (`ProductIsNear`), while a share that is not the required one differs from it by
  at least one part of the total, that is by `Unit / total`, which is 64 or more
  (`RoundingsKeepSide`, `ProductKeepsSide`). `EqualityRounds` is about the rates that are
  left out there: with any number of requests, a rate that is exactly the required
  percentage fails if that is 29, 57 or 58, and passes for every other one.
- **ConfirmStreamProofs**, for any number of messages. The wire, the frames and the two
  channels of a connection with confirms hold nothing but one message and the answer
  to it: `StreamInv` says that they are empty unless the worker awaits a message, and
  lists where that one can then be (`Stage`, `UnderWay`). An unknown outcome drops
  the connection, which empties them, so that a late ack has nowhere to go.
  In each stage what the worker reads agrees with the `fate` of its message; `OutcomeInv`
  says that no other message is concluded. `DeliveredCorrect`, `FailedCorrect` and
  `InSyncCorrect` follow. `PublishingImplemented` is the refinement of Publishing: by
  `OutcomeInv` a message that the worker is busy with has no outcome, so that a
  conclusion adds one success or none (`ConcludeCounts`), and each step is an attempt,
  a settlement or a stutter (`WorkerIsPromised`).
- **PublishRegistryProofs** begins with the guard: `LimitCorrect` by `admitted[k] \subseteq targets[k]`,
  and that the last admitted set was within the limit; `RejectionCorrect` because
  the targets of a rejected entry only grow until it is stale; it is stale for a later
  reading of the clock if it is for an earlier one (`StaleLater`). The rest is for any
  number of steps, targets and Prepares. `RegistryHasGuard` says that the registry
  implements ExchangeGuard, so that what is proved of the guard holds here. `LoadCorrect` needs that whatever
  publishes was admitted by an entry that has not lapsed (`LoadInv`).
  `StopEndsCorrect` and `PoolsCorrect` rest on `StopInv`: without a late Prepare
  what is fed is the entry (`FedIsEntry`), and an entry of started run data has
  workers (`EntryIsManned`).
- **EndpointsProofs**, for any set of configurations with any number of endpoints
  and every order of discoveries and actions. `AimInv` is inductive: each endpoint
  is what normalisation made of its configuration, its login completed or not
  (`Parsed`, `Follows`; completing it twice changes nothing), and a target holds
  the URLs of the endpoint where it was found (`Aimed`). The three properties
  follow with `FirstMember`: the first match is the only one if the compared values
  are distinct.
- **AlterQueueMaxLengthProofs**, for any number of attacks and foreign policies, with every
  overlap, edit, unreadable pattern, failed call and lost reply. `LimitCorrect`: the
  priority that an attack has read is at least that of everything that it has found
  (`ReadBounds`). What it has found has been put before, so that its priority
  does not change any more, and it can come back with no other (`PutBefore`). So the
  policy of the attack outranks it as long as it exists (`Outranks`). `RemovalCorrect`:
  only an execution whose Start succeeded has a policy name (`NamedStarted`).
- **CheckNodesProofs**, **CheckBacklogProofs**: `VerdictCorrect`, that the flags
  remember enough of the history for the verdict, and `EndsInTimeCorrect`. For nodes also
  `MetricsCorrect`: the widget shows the states of all polls (`Shown`). The
  invariants `Remembers` and `Concludes` say what each flag stands for in terms of
  `history`.
- **DiscoveryRunProofs**, for any finite set of names, any page size and any number of
  endpoints. A listing is sorted, so an item has a `Position`, the number of items up to
  it. A page holds the items between two positions (`PageItems`); a deletion moves the
  items behind it to earlier positions, a creation to later ones. So, while nothing was
  created, everything found stands before the page to come (`NoneTwice`), and while
  nothing was deleted, everything that was there from the beginning is found or stands
  on the pages to come (`NoneMissed`); that the last page is the end is `EndIsReached`.
  `VisitsInv` adds the loop over the endpoints; each of its steps is one of
  Discovery, and all else is a stutter (`Implementation`).

Only model-checked is liveness, all of it: fairness and ENABLED are out of the
prover's reach. The type invariants of PublishRun, ExchangeGuard, PublishRegistry, PagedListing and
Endpoints are proved and not checked by a run. Those of AlterQueueMaxLength and
CheckNodes are part of the invariants of their proofs.

## Where code and docs disagree

With a run in `PROJECT.json`:

- `alter_leak`: a put that is carried out without a reply leaves its policy for
  ever. Start cleans up under `state.PolicyName`, which is still empty, and Stop
  finds no name. `StopOfStartedRemovesPolicy` is what holds.
- `check_nodes_every_poll`: in the mode *all the time* a poll without a change is
  only noticed if it is the last one.
- `alter_tie`: `alter_queue_max_length.go:155` announces a priority higher than that of any
  existing policy that matches the queue. The list and the put are two calls; two attacks
  that overlap there choose the same priority, and which limit the broker applies
  is open. An edit between the calls, or a foreign policy whose pattern Go cannot
  express (a look-ahead, say), leaves the attack without effect altogether.
  `LimitInForce` is what holds.

Seen while modelling, without a run:

- `buildAMQPURL` escapes the vhost with `url.PathEscape`, puts the result into
  `u.Path`, and `String` escapes it again; the library decodes it once. The code also trims a
  leading slash that belongs to the name. A vhost with a space, or one named `/orders`, is
  not the one that is connected to. Vhosts of plain characters, and `/`, are right.
  `publish_test.go:57` to 67 asserts the path that is escaped twice, so that the test holds
  the defect in place. The model has it: `OnTheWire` in Endpoints.
- The success rate is computed in float64, and `29.0 / 50.0 * 100` is below 58, so an
  action that attains its rate fails; `extrabbitmq/common.go:96` says that it fails if the rate drops
  below. It is so for exactly 29, 57 and 58 percent, with any number of requests, and for
  no other rate: this is the theorem `EqualityRounds`. `VerdictMatchesFraction` is what
  holds of all rates, and says nothing of one that is met exactly.
- A Stop whose policy is gone, because the reply of an earlier one was lost, fails on
  the 404, and so does each Stop after it. The comment of `safeDeletePolicy` says that
  some responses are ignored.
- `BaselineAlarms` is recorded and never read, so a standing alarm is reported as a
  change at the first poll.
- A fixed amount is exceeded by up to `MaxConcurrent - 1` messages, although
  `publishFixedAmount.go:33` says that a fixed total number is published.
  `OvershootBounded` is what holds.
- A repeated Prepare leaves the pool of the run data that it replaces waiting for
  ever (`OnlyReplacedPoolsStay` says that these are the only ones). If it is late,
  Stop gets the wrong run data and the other's ticker runs on: `StopEndsPublishing`
  and `OnlyReplacedPoolsStay` leave such targets out.
- A management URL that is not written as it is printed after parsing
  (`HTTP://host`) is found by no action, and the discovery of exchanges fails for it.
  Endpoints with one host, or with AMQP URLs that only differ in the login, are
  taken for the first of them. `ManageReachesDiscoverer` and
  `PublishReachesDiscoverer` name these conditions.
- If Stop overlaps Start, panics and a Stop that hangs are possible: `start` may
  leave without spawning the goroutine that closes `tickerDone`, or replace the
  channel that Stop has closed, or send on the closed `jobs`. `publish_test.go:342`
  says that stop must not hang.
- If all workers fail their first dial a fixed amount never completes: nothing is
  counted, and `state.Timeout` is never read. `ConnectedFixedCompletes` therefore
  asks for one connected worker.
- More than one message per millisecond makes both divisions of the pacing zero;
  the fallback of 100 ms turns the fastest configurations into slow ones.
  `SpreadOverDuration` is stated for at most one message per millisecond.
- One failed endpoint fails the discovery if the others have no targets, and the
  message says that all endpoints failed.

## Not modelled

- The metrics of publish actions: the extension reads their channel and never
  writes to it. The messages and logs of the handlers.
- Dialing, TLS handshakes and the HTTP and AMQP libraries, which are I/O: their
  failures are choices.
- Attributes of targets other than the URLs, and their exclusion by configuration,
  which are data; the caching of discoveries by the SDK.
- A configured URL that has a password, and an empty one: it hides the password
  that is configured beside it.
- Action descriptions, parameter groups, wiring, Helm chart, image and tests, which
  keep no state.

## Plan

Done: all modules above with their runs; the proof of every safety property that
a run checks; the refinements of Publishing by PublishRun and by ConfirmStream and of
Discovery by DiscoveryRun, all proved. What would come next:

1. An abstract check, a history and the verdict on it, that CheckNodes and
   CheckBacklog both implement.
2. The pool of PublishRun with a ConfirmStream for each worker, in place of two models that
   implement the same abstract one.
