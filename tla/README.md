# Verification of ProjectHermes

ProjectHermes receives webhooks over HTTP and publishes them to NATS JetStream. This directory holds
TLA+ models of its runtime, the TLC configurations that check them on small instances, and proofs,
checked by TLAPS, that the main safety properties hold for every size of the instance.

The code is `src/hermes/`: about 2,100 lines of Python on one asyncio event loop. There are no
threads, so the code between two `await`s is one atomic step of the models; what makes the system
hard is what may happen *at* the `await`s: callbacks, cancellations, time-outs, lost
acknowledgements, signals, and the other requests.

## 1. Inventory

| Component (source) | State | Operations | Talks to |
|---|---|---|---|
| Connection lifecycle (`publisher.py` 63-235, 289-311) | `_nc`, `_js`, `_connected`, `_stop_event`, `_reconnect_task`, failure counters, the loop's local `failed_attempts` | `connect`, `disconnect`, `_connect_internal`, `_reconnect_loop`, `_on_disconnected`, `is_connected` | nats-py clients, the lifespan, the webhook handler |
| Stream provisioning (`publisher.py` 237-287) | `_stream_names`, the streams on the server | `_ensure_streams` | JetStream management API |
| Publish path (`publisher.py` 344-450) | locals of each call | `publish`: dead-letter or retry with back-off | JetStream, webhook handler |
| Dead-letter view and LRU (`publisher.py` 325-338, 389-424, 452-463; `server.py` 643-710) | deque, `_active_subjects`, four metrics | append, evict, drain, page, track | operators, Prometheus |
| Subject resolution (`publisher.py` 469-536) | none | `_resolve_subject`, `_slug` | publish path |
| Lifespan (`server.py` 68-204) | `_shutdown_event`, `_inflight` | startup retries, signal, drain, disconnect | publisher, ASGI server |
| Webhook handler (`server.py` 74-86, 504-574, 787-800) | the request's coroutine, `_inflight`, webhook metrics | check, publish, answer | publisher, middlewares |
| Middlewares and rate limit (`server.py` 221-242, 285-335, `middleware.py`, `rate_limit.py`) | `request.state.request_id`; the limiter's windows | measure, tag, refuse, pass on, shape errors | webhook handler, senders |
| Read-only endpoints (`server.py` 343-467, 577-636, 713-739) | none | `/health`, `/ready`, `/subjects`, `/metrics`, `/version`, `/events` | read publisher, lifespan state |
| Settings (`config.py`; `server.py` 161-173) | one cached, frozen instance | validate, warn | everything |
| Models, logging, entry point | none | declare, format, start | everything |

Hard behaviours and what correctness means there:

* **Lifecycle.** A loop, an API call and late library callbacks share the fields. There must be at
  most one loop; nothing may dial after `disconnect()`; the back-off and the counters must agree;
  calls must return; `is_connected` should say whether there is a link.
* **Startup.** Attempts are bounded by `wait_for` and by count; a failed attempt leaves what it had
  assigned. The service starts anyway and should heal.
* **Shutdown.** A signal may arrive between the middleware and the handler (#440), the deadline may
  expire with requests in flight (#441), `disconnect()` then runs underneath them.
* **Publishing.** Acks are lost, publishes retried, the link dropped between check and use. A 202
  must never be false; every received event must be accounted for; requests must end.
* **Pacing.** During an outage the loop must neither storm nor sleep for ever; two resets, a cap, a
  jitter and a saturation decide that together.
* **Streams.** Instances with different settings look at, create and migrate the same streams, an
  await between looking and changing. What is recorded must exist; a migrated retention (#530) must
  not fall back, or must be migrated again.
* **Requests.** An ID follows its own request only; the quota of a sender counts what reached the
  route; Retry-After is enough.
* **Subjects.** Whatever fields are missing and whatever is in the others, a message that makes a
  subject must be taken by one stream, and two messages share a subject exactly when they are about
  the same thing.
* **Dead letters.** A bounded deque that evicts (#533), counters updated in several places, readers
  that page through it while it moves, an LRU at its cap.

Every hazard is listed with its line and the properties that cover it under `hazards` in
`PROJECT.json`.

## 2. Modules

| Module | Models | Depends on |
|---|---|---|
| `ConnectionContract` | abstract: what the publisher promises about `is_connected`, the loop and the call in progress | |
| `NatsPublisher` | the lifecycle, at the awaits | refines `ConnectionContract` |
| `Lifespan` | startup retries and final disconnect, driving `NatsPublisher` | extends `NatsPublisher` |
| `Bridge` | abstract: what a webhook sender is promised | |
| `WebhookGateway` | requests, retries, in-flight counter, signal, drain | uses `ConnectionContract`, refines `Bridge` |
| `DeadLetterQueue` | deque, metrics, LRU, paging | |
| `StreamProvisioning` | `_ensure_streams` of several instances against one JetStream | |
| `RequestPipeline` | the middleware stack, the rate limit and the exception handlers | |
| `SubjectRouting` | `_resolve_subject`, `_slug` and the filters of the streams | |
| `Settings` | what the validators accept and warn of | |
| `ReconnectBackoff` | the delays of the loop over accepted settings; the start-up notices | extends `Settings` |
| `MC*` | symmetry sets and constant values for TLC, where a run needs any | |
| `*_proofs` | theorems | |

### NatsPublisher

`pc[a]` names the `await` at which the caller or a reconnect task is suspended: `dial`
(`nats.connect`), `ensure` (`_ensure_streams`), `sleep` (the wait on the stop event), `join`/`stop`
(awaiting a cancelled loop in `connect`/`disconnect`), `drain`. `mine[a]` is the client that the
suspended frame holds. `cancel()` only marks a task (`cancelled`); the exception is delivered in
`LoopCancelled`, so a task may not take another step in between but the rest of the system may.
`_js` changes in the same steps as `_nc` and needs no variable. Clients have a status and possibly a
pending `disconnected_cb`: the library closes a client first and calls back some awaits later, or
never (the comment at `publisher.py` 309 records that too). Assumed of the library: `drain()` runs
the callbacks before it returns; a client object is used for one connection.

### Lifespan

`phase` is how far `lifespan()` is. Each attempt is one `connect()` of `NatsPublisher`; `wait_for`
expiring is `ConnectRaises`. The drain between the two is in `WebhookGateway` because it does not
touch the publisher. `Orphans` are clients that are connected and that no field refers to any more: a
retried `connect()` overwrites the client of an attempt that failed after its dial.

### WebhookGateway

A request goes through `idle` (before the middleware), `routed` (past it, body being read),
`publish`/`deadletter` (awaiting JetStream), `backoff` (sleeping), `done`. `_inflight_lock` is never
held across an `await`, so entering and leaving the context does not suspend and an early rejection is
one step with no net effect on the counter. `Send` decides whether JetStream stores the message, now or
later; the ack may be lost in either case, so `stored` may exceed one. The publisher is the four
variables of `ConnectionContract`, `js` (`_js is not None`) among them. The ASGI server may end the
lifespan with or without a signal and with requests still running. A signature header that is not
ASCII is an outcome of its own (`signature_error`): `hmac.compare_digest` raises a `TypeError`.

### DeadLetterQueue

Everything after the acknowledgement is one step. `maxSubjects` is chosen in `Init` from the values
the setting accepts, zero included: there `popitem()` on an empty dictionary raises and the rest of
the step does not happen (`TrackRaises`). `Walk` is a client that asks for the page after the entries
it has read. `AlertAt` is the least integer depth at which the alert condition holds, so no real
arithmetic is needed; the threshold is in (0, 1], so it lies in `1..Capacity`. `active` is
`_active_subjects` in its own order; `GET /subjects` sorts it by name (`publisher.py` 315).

### StreamProvisioning

`NatsPublisher` has `_ensure_streams` as the await `ensure`, which succeeds or raises; this module is
its inside. `pc[i]` is the call that instance `i` awaits (`stream_info`, `add_stream`,
`update_stream`), `at[i]` its position in `stream_configs`, `names[i]` its `_stream_names`. A stream is
its `max_age`: the other fields of a `StreamConfig` are the same in every instance. Several instances
against one JetStream are what `config.py:74` has in mind ("N instances reconnecting"). A process
reads `DEAD_LETTER_TTL_SECONDS` once (`get_settings` is cached), so a new value is rolled out by
restarts: `Restart` may change `ttl[i]`, and `past` keeps the values that were replaced. The settings of
the instances differ in between, and a call made under an old one may be outstanding when they agree
again. An answer and the effect it reports are one
step, since only the caller sees the answer; a call whose caller has given up may join `late`, and the
server may still perform any of those, in any order (equal calls
count as one: a second copy would only repeat what the first did). Assumed of JetStream: it accepts an `add_stream`
for a stream that exists as requested and refuses one that differs; nobody deletes a stream; what an
operator did before is an arbitrary initial state. An instance is in at most one call of the method,
which is `NatsPublisher`'s `OneLoop` and the awaits around it.

### RequestPipeline

`BaseHTTPMiddleware` runs every layer in a task of its own, so `pc[r]` names the layer that request `r`
is suspended in, and any number of requests may pass between two of them. An input (ID, path,
address) is chosen by the step that first looks at it; whether a body is too large is the choice of
the two steps that refuse it, by its header and by its length. `localId` is the local variable of
`RequestIDMiddleware.dispatch` and `stateId` is `request.state.request_id`: header and body of an
answer come from different ones. A request stands for its own UUID. The window of the `limits` library
(fixed window per key, started by the first hit, refused hits counted) is external. The webhook
handler is one step here that answers, raises an `HTTPException` or crashes.

### SubjectRouting

A text is a finite sequence over `Characters`; for TLC that is one character for each class that `_slug`
treats alike. The words of a subject count as one character, so an event is three: its kind, a dot and
a verb. `Without` is `str.replace(c, "")`, as a recursive function. `Null` stands for everything Python finds false other than `""`.
Three characters stand for what `strip` removes: the space, which `_slug` replaces, the tab, for all
that separates the arguments of NATS's `PUB` too, and the form feed, for the rest. `Captures` is what
a stream takes: a subject that is one argument, has no empty token and matches the filter. The reference definition
(`Canonical`) says which positions of a text survive and in what order, without a chain of
replacements, and the properties compare `_slug`'s results with it.

### Settings and ReconnectBackoff

A host or URL is the class the validators and the production heuristics put it in, a secret is its
length. `ReconnectBackoff` loads one environment, which is refused or accepted with its warnings,
and then follows one loop in units of time: `Delays(n)` is the set of delays that `random.uniform` may
give for exponent `n`, `since` the time since the first attempt of a row of failures. The exponent of
`NatsPublisher` is the same variable without the time. `AttemptsArePaced` compares that time with
`Sum[row]`, the delays that would have been asked for had the exponent never saturated. The two agree
where the doubling reaches the cap before it saturates (`CapInReach`: in the code, from a base that is
at least the cap divided by 2^32); the distance between two attempts that the base alone demands
holds under every accepted setting.

### Composition

`NatsPublisher` implements `ConnectionContract` (checked by `publisher`, proved by
`PublisherImplementsContract`), and `WebhookGateway` uses only that contract, so a behaviour of the
gateway over the real publisher is one of the gateway over the contract. `WebhookGateway` in turn
implements `Bridge`, which is proved too. `RequestPipeline` is what `WebhookGateway` abstracts as
`Limited` and `Route`.

Definitions commented "faulty" are deliberately wrong variants. They are used to confirm that each
property notices the bug it is there for (`mutants` in `PROJECT.json`); no specification refers to
them.

## 3. What is checked

| Run | Question | Bounds |
|---|---|---|
| `publisher` | one loop, stop means stop, back-off justified, no unwanted dial, contract kept; calls come back | 2 clients, 2 tasks, exponent 1, counters 2 |
| `lifespan` | the loop outlives failures; leaked clients are bounded by the startup attempts; startup ends; the loop restores the link | 3 clients, 1 task, 2 attempts |
| `gateway` | exact in-flight count, final drain, books balance, promise kept; requests end, drain bounded | 2 requests, 2 attempts, 2 polls |
| `dead_letter_safety` | gauge, conservation, durability, walks, LRU and its order | 5 publishes, capacity 2, 3 subjects, cap 0 or 2, limits from -2 to 2 |
| `streams` | recorded streams exist, in order, with a retention somebody asked for; only an old late update undoes an agreed one, and that is repaired; retries succeed | 2 instances restarted with any setting, 2 streams, ages 0 and 1 |
| `pipeline` | IDs correlated, quota exact, Retry-After honest | 3 requests, 1 address, 1 caller ID, limit 1, window 2, clock 3 |
| `subjects` | a message is retained once if a subject can be made of it; subjects identify what it is about | every pair of messages over 63 texts, 3 events, slugs of 2 characters |
| `backoff` | attempts are paced; one notice that HMAC is off | every class of host, URL, secret and key; base 0-2, cap 1-8, jitter 0, 1/2 and 1, 4 failures in a row |

Why the bounds are enough. Two clients are the one in use and the one that replaces it, or whose
callback is still due; the third in `lifespan` is one leaked by a failed attempt. Two tasks are a loop and its leftover; the lifespan connects
successfully at most once, so one suffices there. Two attempts already contain a retry and a last
one. Two requests can be on both sides of the signal, or one in a back-off while the other is published;
two polls are one that waits and one at the deadline. Five publishes
overflow a deque of two, three times, and bring an evicted subject back into an LRU of two.
Two instances are the one that looks and the one that changes in
between, and two ages are the wanted one and another; of the code's three streams two have a fixed
retention and are handled alike, so one of them and the dead-letter stream do.
With a limit of one and three requests, one request is let through, one refused, and one comes back
after its window; a clock of three sees a window of two begin at any offset. Texts of two character
classes contain every pair of adjacent characters that `_slug` could confuse, and with a cut after two
characters the longer ones are truncated in every way. Four failures in a row pass the cap and the
saturation point.
`CounterBound` caps two diagnostic counters that the code never reads; a value at the cap stands for "or
more". The safety properties listed in section 4 do not depend on any of these bounds.

Fairness. `NatsPublisher`: the event loop runs what is ready and every await is bounded by a time-out
or by the end of a task that has been cancelled, so weak fairness of the caller, of each loop and of a
due callback. `Lifespan` adds strong fairness of a loop's successful dial: against a server that can
be dialled and keeps its connections (`NatsSettles`), retrying for ever succeeds in the end. Nothing
makes the operator shut down. `WebhookGateway`: `InflightTerminates` assumes only that awaits inside
the context end (publish time-out, back-off sleep); `DrainIsBounded` assumes only that the shutdown
coroutine runs, and none of the requests, so the run states that one (`ServerSpec`) and
`InflightTerminates` has its own as a hypothesis. `StreamProvisioning`: a call is answered or raises, because
nats-py bounds each of them; `RetriesConverge` does not assume that an instance is asked again or that
its calls stop failing, but has both as hypotheses (`Settles`); `RetentionRestored` has the same ones,
with an end to the failures of all instances, since each of those may leave another old call behind.
That the server gets to the late calls is not assumed: one that is never performed does no harm.

### Where the code and its documentation disagree

These runs check what a document or comment says, and TLC finds a counterexample:

| Run | The text | What happens |
|---|---|---|
| `degraded_recovery` | "/webhook will return 503 until NATS recovers" (`server.py` 129) | The loop only starts after a successful `connect()`; a degraded start never heals. |
| `degraded_health` | "/health will return 503" (`server.py` 140) | The last attempt opens the client, `_ensure_streams` fails, `_connected` stays true: 200. |
| `health_link` | "`/health` accurately reflects ... connection state" (ADR-004) | The callback of a replaced client clears the flag of the new one; the loop looks only at `is_closed` and never repairs it. |
| `gateway_unmapped` | "connectivity failures map to ... 503" (`server.py` 478) | Only a time-out is caught; other NATS errors, and `_js` dropped under a sleeping retry, give a 500 that no failure label counts. |

Others need no run, or are about values rather than behaviour:

* `ACTIVE_SUBJECTS_MAX` of zero or less is accepted (`config.py` 53). `popitem()` of the empty
  dictionary then raises after the append and before the gauge, the eviction counter and the alert
  (`publisher.py` 458), so the gauge is not "Current number of items" (`metrics.py` 51).
  `DepthGaugeExact` and `Conservation` say what still holds then.
* `hermes_dead_letter_queue_alerts_total` is the "Number of times the dead-letter queue depth crossed the
  alert threshold" (`metrics.py` 61; `test_dead_letter_limits.py` 131 speaks of crossing too). The depth
  is compared after every append (`publisher.py` 409): above the threshold each append is counted, and at
  a full queue each eviction. `Alert` in `DeadLetterQueue` is what the code does.
* A negative `limit` passes the "hard ceiling" of `/dead-letters` (`server.py` 669-683), slices from
  the end and may return more than the maximum. A `DEAD_LETTER_PAGE_SIZE_DEFAULT` above the maximum is
  accepted, and then a plain GET answers 400.
* The jitter is applied after the cap, so a delay may exceed `nats_reconnect_max_interval`, although
  `config.py` 65-69 says "at most"; ADR-004 gives the jitter's default as 0.1, the code 0.5.
  `AttemptsArePaced` has the bounds the code keeps.
* `_NATS_CONNECT_TIMEOUT` caps every startup attempt at five seconds whatever `NATS_CONNECT_TIMEOUT` is.
* `python -m hermes` listens on 0.0.0.0 by default whereas the production warnings look at
  `hermes_host`.
* A 413 or 500 has no `X-Request-ID`, and the bodies of 429, 404 and of the middleware's 503 have no
  `request_id`: `AnswersCorrelated` says which answers have which. `PayloadSizeLimitMiddleware` buffers
  the whole body before it measures it.
* A tab or newline inside a field survives `_slug`, which replaces only the space, and NATS does not
  take such a subject; a dead-letter event whose name slugs to nothing gets a subject with an empty
  token that no stream takes (both are the exceptions in `RetainedOnce`, see `Routable`); names that
  differ only in what is normalised or cut share a subject; a first spelling that is set but slugs to
  nothing hides the second; the number 0 counts as a missing field.
* A signature header that is not ASCII ends in a 500 and in no failure counter (`server.py` 794),
  although "signature ... failures map to 401" (`server.py` 478).
* An update that was given up on under an old `DEAD_LETTER_TTL_SECONDS` and is performed late undoes the
  migration of #530. Nothing looks at the stream again until the next `_ensure_streams`, which is at the
  next dial: `RetentionSettles` says that nothing else does it, `RetentionRestored` that repeating repairs it.
* A rate limit of "0/minute" is accepted; `RequestPipeline` assumes at least one.

## 4. What is proved

Every invariant and action property of the passing runs is a theorem, for every value of the constants that
satisfies the named assumptions. `ActorsAssumption`, `SubjectsAssumption`, `OrderAssumption` and
`NamesAssumption` say that names are distinct; `AttemptsAssumption`, `SettingsAssumption`,
`SizesAssumption`, `AgesAssumption`, `NumbersAssumption`, `ScaleAssumption` and the two
`EnvironmentsAssumption` and `BoundsAssumption` are the ranges of the validators in `config.py`, of
constants in the code and of the model's own bounds; `RequestsAssumption` is that requests are
finitely many. `TextsAssumption` says that what `Publisher` writes into a subject is made of the
alphabet's characters and that a payload's fields are texts or missing, `EventsAssumption` that the
literals of `AGENT_EVENTS` and `TASK_EVENTS` are a kind, a dot and a verb (`publisher.py` 33-36).

**`NatsPublisher_proofs`**: `TypeCorrect`, `AtMostOneLoop`, `DisconnectStopsLoop`, `BackoffIsJustified`,
`NoUnwantedDial`, `PublisherImplementsContract`. `OneLoop` is not inductive alone: the strengthening
says which states of the caller admit a live task, that a join is always on a task already cancelled,
that only the referenced task can be cancelled, and that a set stop event outside `stop` means that no
loop is left. From it follow the action property and the step-by-step refinement.

**`Lifespan_proofs`**: `LifespanTypes`, `LoopLivesOn`, `FewLeaks`, `LifespanIsACaller`,
`LifespanKeepsContract`, for any number of attempts. Every step of the application is one that any
caller may take (`LifespanDrives`), so every behaviour of `Lifespan` is one of `NatsPublisher`, and all
that is proved of that holds here too, the contract included. To it are added the phase and the loop that go with each other
(`PhaseInv`, `LoopInv`), who may be draining and that a loop dials without an open client (`HoldInv`),
and the count (`LeakInv`): before attempt n + 1 at most n clients are open, the one in use included. A
dial leaves behind the client it replaces (`DialLeavesBehind`), and nothing else leaves one behind.

**`WebhookGateway_proofs`**: `TypeCorrect`, `InflightIsExact`, `DrainedMeansQuiet`, `AckedMeansStored`,
`BooksBalance`, `GatewayKeepsPromise`.
The invariant `IInv` adds `SendsBounded` (a request has stored at most as many copies as it made
attempts, sleeps only with attempts left, and an ackable attempt has a stored copy) and `DrainOrder`
(a clean drain presupposes the signal and that the disconnect has begun). That the counter is the
cardinality of the set of requests inside the context is what turns "the counter was zero" into "the
set is empty"; the second check of the signal keeps the set empty from then on. `BooksBalance` adds that
each step moves at most one request into one set of replies. The refinement of `Bridge` is step by
step: a store is `Persist`, an accepted reply needs a stored copy, everything else stutters or refuses.

**`DeadLetterQueue_proofs`**: `TypeCorrect`, `ViewBehindJetStream`, `NoEntryTwice`, `GaugeIsDepth`,
`NothingUnaccounted`, `ActiveAreMostRecent`. `NoEntryTwice` rests on `BehindTheOffset`: entries are
distinct, and any entry of the view that a walk has read sits before the walk's offset. Appends go to
the end and evictions move entries forward, so both keep it; `PageShape` states what Python's slice
returns for a walk. The accounting theorems are equations where at least one subject may be tracked
(`TrackRaises` is impossible then) and inequalities where none may. `ActiveAreMostRecent` compares the
LRU, members and order, with the whole history of acknowledged publishes. Its invariant `LruInv` says that the listed
subjects are distinct, are listed in the order of their last use, that what is not listed was last used
before everything that is, and that subjects are missing only from a full list. `TouchMovesLast` is
the one step that matters: `move_to_end`, insertion and eviction all put the new subject last and
keep the order of the others.

**`StreamProvisioning_proofs`**: `TypeCorrect`, `RecordedInOrder`, `RecordedIsReal`,
`RetentionIsWanted`, `OnlyOldUpdatesUndo`, for any number of instances and streams. The invariant adds
`Behind` (what precedes an instance's position is recorded), `UpdatesFindTheirStream` (an update
awaited, or still to be performed, is of a stream that exists) and `LateIsWanted` (an abandoned call
asks for what is or was wanted, `EverWanted`). That set only grows: a restart moves the setting it replaces into `past`
(`EverWantedGrows`). So a step writes nothing but wanted retentions (`StepsWriteWanted`), and streams never vanish. Where
all instances want the same and the stream has it, none of the calls they await has anything to change.
What is left is a late update of another age (`OldUpdate`), and of the ages ever wanted the others are
all in `past`.

**`RequestPipeline_proofs`**: `TypeCorrect`, `AnswersAreCorrelated`, `QuotaIsExact`,
`RetryAfterIsHonest`, for any finite set of requests, any limit, window and clock. The correlation follows
from the layer a request is in. For the quota the invariant says that the hits of a key are the
requests charged since its window began, that windows are `Window` long, and that those let through
are at most `Limit`. `RetryAfterIsHonest` goes further back: a refusal means that its window already let
`Limit` requests through, and two refusals a full window apart lie in different windows.

**`SubjectRouting_proofs`**: `SlugIsCanonical`, `KeptByOneStream`, `SubjectsName`, for any alphabet, any
texts, any payloads and any cut. The argument is about selections: a step of `_slug` that drops
characters (`strip`, the two removals) keeps an ascending list of positions (`StripSelects`,
`WithoutSelects`), a selection of a selection is one (`SelectsTwice`), and a set of positions has only
one ascending list, in which the n-th is the position of rank n (`ListsByRank`). So the chain of passes
ends in the text that `Canonical` defines at once, free of dots, spaces and wildcards. From there
`RouteInv` (each message sent has the subject of its payload) is enough. `KeptByOneStream` counts the
dots of a subject, sees that none of them meet, and that a separator in it comes from a name; `SubjectsName` finds where the first token ends, at
the first dot after the prefix, and hence that equal subjects have equal parts.

**`ReconnectBackoff_proofs`**: `TypeCorrect`, `OneNotice`, `OutagesArePaced`, for any environment and
rows of any length. `PaceInv` ties the exponent to the row (it is the length of the row until it
saturates), `delay` to the exponent, and the time already spent to the sum of the delays before the
current one. `SumAdds` shows that the recursive sum meets its equation, without induction: the sum is
the number of pairs (attempt, unit of its delay). Powers of two are the numbers of subsets, which makes
them grow. `NoticesInv` says what each phase has logged so far, so that the validator's condition and
the lifespan's are complementary in every accepted setting.

Induction over data. The library's induction theorems take a predicate, which the installed provers
cannot instantiate. `SetInduction` in `SubjectRouting_proofs` states the principle for a set instead
(it contains 0 and every successor, hence all of `Nat`), from the well-foundedness of `<` on `Nat`;
`WithoutSelects` uses it twice, once for the existence of the recursive function and once for what it
computes.

Only model-checked: the liveness properties `CallsReturn`, `StartupTerminates`, `LoopRestoresClient`,
`InflightTerminates`, `DrainIsBounded`, `RetriesConverge` and `RetentionRestored`. The prover has no support for fairness and
`ENABLED`. The four documented claims that the code does not keep (section 3) have counterexamples,
not proofs.

## 5. Not modelled

HMAC computation, the declarative payload and response schemas, logging, the banner and the command
line are left out: they are pure functions, library code or text. The scripts of the repository are
checks of its continuous integration. Of the settings, the parsing of the environment, the syntax of
hosts, URLs and rate limits, the TLS context and the HTTP client option are not modelled: they have no
state and nothing in the service depends on their order. The read-only endpoints have no actions of
their own; the properties are about what they read. The message content is immaterial to every
property and is not represented. Re-running the lifespan in one process is not modelled: the service runs it once.

The runtime is CPython 3.12, which the image and the test environment pin (`Dockerfile:5`,
`pixi.toml:54`). There a cancellation always wins over an `asyncio.wait_for` whose inner await has just
completed. Hence the loop's own exits on the stop event (`publisher.py:196-206`) are never taken:
`disconnect()` sets the event and cancels the task in one step. `pyproject.toml:10` also admits 3.10
and 3.11, whose `wait_for` can swallow a cancellation in that window; that is not modelled.

## 6. Plan

Done, in this order because the lifecycle is what everything else relies on: `ConnectionContract`,
`NatsPublisher`, `Lifespan`, `Bridge`, `WebhookGateway`, `DeadLetterQueue`, `StreamProvisioning`,
`RequestPipeline`, `SubjectRouting`, `Settings`, `ReconnectBackoff`, and eight proof modules. One module
that composes lifespan, gateway and publisher was planned; the handle `js` in `ConnectionContract`
made it unnecessary, since the gateway is now checked and proved over everything the publisher may do.

Every safety property a run checks is now a theorem. What would come next:

* For the liveness properties, the safety half of their arguments: a variant that no step increases
  and that the fair steps decrease (the attempts left in `Lifespan` and `WebhookGateway`, the streams
  left in `StreamProvisioning`), so that only the fairness itself stays with TLC.
