# TLA+ models of mx-chain-notifier-go

This directory holds TLA+ models of the event notifier: the broker between an
observer node and its consumers. The models are checked with TLC. Each module
is written from the Go sources under `src/`. The parts that are not among those
sources follow `spec.md` and are marked `spec_modelled` in `PROJECT.json`.

## 1. Inventory

### Components

| Component | Source | State | Operations |
|---|---|---|---|
| Hub (`commonHub`) | `src/dispatcher/hub/commonHub.go` | `dispatchers` map, subscription mapper, filter, five unbuffered channels (`register`, `unregister`, `broadcast`, `broadcastRevert`, `broadcastFinalized`), `cancelFunc` | `Run`, `Close`, the `run` select loop, `Subscribe`, `Broadcast*`, `RegisterEvent`, `UnregisterEvent`, `handleBroadcast`, `handleRevertBroadcast`, `handleFinalizedBroadcast`, `registerDispatcher`, `unregisterDispatcher` |
| Subscription mapper | not in `src/` (spec 4.1) | subscriptions per dispatcher | `MatchSubscribeEvent`, `Subscriptions`, `RemoveSubscriptions` |
| Event filter | not in `src/` (spec 4.2) | none | `MatchEvent` |
| Dispatcher | not in `src/` (spec 4.3) | id, bounded outbound queue, lifecycle state | `PushEvents`, the delivery loop, write errors, unregistering itself |
| Payload handler | `src/unnamed/part_002` (`process` package) | topic → action table, version → data processor table | `ProcessPayload`, `saveBlock`, `revertIndexedBlock`, `finalizedBlock`, four no-op topics |
| RabbitMQ publisher | `src/rabbitmq/publisher.go` | client, exchange config, three unbuffered channels | `Run` loop, `Broadcast*`, `publishToExchanges`, `publishRevertToExchange`, `publishFinalizedToExchange`, `publishFanout` |
| Publisher factory | `src/factory/pubsubFactory.go` | none | `CreatePublisher` picks the rabbit publisher or the disabled one by `apiType` |
| Observer ws client | `src/unnamed/part_000` (integration tests) | marshaller, sender host | `PushEventsRequest`, `RevertEventsRequest`, `FinalizedEventsRequest` send on a topic |
| HTTP group handler | `src/proxy/handlers/base.go` | route → handlers | `AddEndpointHandlers`, `RegisterEndpoints`, `JsonResponse` |
| Web server test | `src/unnamed/part_001` | none | unit test of the gin web server |

### How they interact

1. The upstream node sends `(payload, topic, version)` frames.
2. The payload handler looks up the topic and the version. It hands the frame
   to a data processor (not in `src/`). The data processor decodes the frame
   and calls the facade.
3. The facade calls `Broadcast`, `BroadcastRevert` or `BroadcastFinalized`.
   It calls them on the hub, on the publisher, or on both.
4. Those calls are blocking sends on unbuffered channels. Each one returns
   only when the receiving loop takes the message.
5. The hub loop is one goroutine. It handles one message at a time. For a
   broadcast it matches every event against every subscription in the
   mapper. It then pushes each registered dispatcher its list of events.
6. A subscriber connection is a dispatcher. It registers and unregisters
   through the hub's channels. It calls `Subscribe` directly: that call writes
   the mapper from the subscriber's goroutine and never goes through the
   loop.
7. The publisher loop is also one goroutine. It serialises each message and
   publishes it to the exchange configured for its stream.

### What is hard

- Interleavings of the hub loop with the goroutines that call it: producers,
  subscribers and the owner that calls `Run` and `Close`.
- `Subscribe` bypasses the loop.
- Go's `select` picks at random among the ready cases, and `ctx.Done()` is one
  of them.
- Sends on unbuffered channels block, and nothing unblocks them once the
  loop has returned.
- A slow subscriber's queue fills up. The spec's policy is to disconnect it
  rather than block the hub.
- Publish failures and marshal failures are logged and dropped.

### What makes each component correct

- **Hub.** What the spec promises is in `HubAbstract`:
  - register is idempotent;
  - unregister drops the dispatcher and all of its subscriptions;
  - each batch reaches every registered dispatcher in batch order, once per
    subscription of it that matches;
  - nothing reaches a dispatcher that is not registered;
  - nothing is delivered after shutdown.

  Beyond that: every blocked caller returns, Close stops the hub, reverts
  and finalizations are routed, and a slow subscriber is removed.
- **Payload handler.** An unknown topic is ignored. An unknown version fails
  with `INVALID_PAYLOAD_VERSION`. A known version reaches its data processor.
- **Publisher.** Each message is published at most once, only to the exchange
  of its stream, and not at all when that exchange name is empty. Messages of
  one stream are published in the order they were sent. `PublisherAbstract`
  states this as a specification of its own.

## 2. Modules

| Module | Models | Status |
|---|---|---|
| `EventFilter` | event and subscription shapes, `MatchEvent` (spec 4.2) | done, spec-modelled |
| `HubAbstract` | the hub's promise, every operation atomic | done |
| `Hub` | `commonHub` plus the goroutines around it, the mapper and the dispatcher | done |
| `MCHub` | constants for TLC | done |
| `PublisherAbstract` | the publisher's promise: a FIFO per stream whose head is published once or dropped | done |
| `Publisher`, `MCPublisher` | `rabbitMqPublisher` | done |
| `PayloadHandler` | `payloadHandler.ProcessPayload` | done |
| `Notifier`, `MCNotifier` | the composition: `CreatePublisher`, then host → `PayloadHandler` → facade → hub or `Publisher` | done |
| `GroupHandler`, `MCGroupHandler` | the HTTP `groupHandler` (`base.go`) | done |

### How `Hub` corresponds to the code

Each variable of `Hub` stands for a piece of state in the code:

| Variable | Code |
|---|---|
| `hubState`, `cancelFunc`, `ctxDone` | whether `Run` has started the goroutine and whether the context is cancelled |
| `chans` | for each channel, the FIFO of goroutines blocked sending on it (a Go channel queues its senders in FIFO order) |
| `busy` | the message `run` received and is handling |
| `dispatchers` | the keys of `wh.dispatchers` |
| `subscriptions` | the mapper |
| `dstate`, `queue` | each dispatcher's lifecycle state and its outbound queue |
| `pushed` | a history variable: every event each dispatcher has been handed, used only by the refinement mapping |
| `sent`, `subCount` | bounds on the producers and the subscribers |

Each action stands for one step of the code:

| Action | Code |
|---|---|
| `Run` | `Run` |
| `Close` | `Close` |
| `Stop` | the `ctx.Done()` case of `run` |
| `Receive(c)` | one channel case of `run` |
| `Broadcast`, `BroadcastRevert`, `BroadcastFinalized` | the three sends of the same names |
| `RegisterEvent`, `UnregisterEvent` | the sends of the same names |
| `Subscribe` | `Subscribe` together with the mapper's `MatchSubscribeEvent` |
| `HandleBroadcast`, `HandleRevertBroadcast`, `HandleFinalizedBroadcast`, `RegisterDispatcher`, `UnregisterDispatcher` | the handlers of the same names |
| `Deliver`, `WriteError` | the dispatcher's delivery loop (spec 4.3) |

`HandleBroadcast` computes the per-dispatcher lists with `DispatchersMap`.
`DispatchersMap` folds over the events and, inside, over the subscriptions,
as the code's nested loops do. It then applies the spec's non-blocking
`PushEvents` to each registered target. A full queue closes the dispatcher,
and its own goroutine then unregisters it.

### How `Publisher` corresponds to the code

- `chans`, `busy`: the three unbuffered channels with their blocked senders,
  and the message `Run`'s select took.
- `exchanges`: what the broker accepted on each exchange name.
- `calls`: a bound on the producers.
- `Broadcast(p, c)` is `Broadcast`, `BroadcastRevert` or
  `BroadcastFinalized`. `Receive(c)` is one case of `Run`'s select.
- `Publish` is the whole handler of that case: the empty-name check
  (`PublishEnabled`), `json.Marshal` (which may fail and return), and
  `publishFanout` (which may fail, and the failure is only logged). The
  outcome is chosen with `\E`.
- The refinement mapping to `PublisherAbstract` maps each stream's queue to
  `Owed(c)`. That is the message `Run` is publishing, if it belongs to `c`,
  followed by the senders blocked on the channel. `Receive` is then a
  stuttering step, and `Publish` is the abstract `ADeliver`.

### How `PayloadHandler` corresponds to the code

- `Actions` is `initActionsMap`. `VersionedHandler` is the body shared by
  `saveBlock`, `revertIndexedBlock` and `finalizedBlock`. `ProcessPayload` is
  `ProcessPayload`.
- A frame is its topic, its version and whether the data processor can decode
  it. The payload bytes are left out.
- `handled` records each frame with the processor call it caused and the error
  it returned. `HandleFrame` is the websocket host delivering one frame, up to
  `MaxFrames`.

### How `Notifier` composes the parts

- It instances `PayloadHandler` (as `PH`) and `Publisher` (as `Pub`). The
  publisher's variables are shared by name. There is one producer, the
  websocket host's goroutine `Ingest`.
- `CreatePublisher(clientOk)` is `CreatePublisher` with
  `createRabbitMqPublisher`. `clientOk` is whether `NewRabbitMQClient`
  connects. An unknown `apiType`, or a failed connection, aborts the startup.
- `HandleFrame` is one frame through `ProcessPayload`. When the data
  processor decoded it, the facade's `Broadcast*` follows. For `"notifier"`
  that goes to the hub (`hubIn`, one step here; `Hub` checks the hub itself).
  For `"rabbit-api"` it is the publisher's blocking send. While that send is
  pending, the host handles no other frame.
- The data processor and the facade are not in `src/`. They follow spec 2
  and 4.5 and are marked spec-modelled.

### How `GroupHandler` corresponds to the code

- `endpointHandlersMap` is the map. `engine` is the set of (route, handler)
  pairs gin serves. `adds` is a history of the calls.
- `AddEndpointHandlers` assigns the route's list. `RegisterEndpoints` puts
  every handler of every route on the engine; the map's iteration order
  cannot be seen in the result. Calls after `RegisterEndpoints` are allowed,
  as in the code.

## 3. Runs

The hub runs use `MCHub`. They have two dispatchers, one producer and two events
(`Ex` at `erd1x` with topics T1 and T2, `Ey` at `erd1y` with topic T1). The
queue capacity is 1. There are at most 2 `Broadcast*` calls (3 in `hub_liveness`) and one subscribe
message per dispatcher, which may carry any non-empty set of entries.

| Run | Expect | Checks | Shows |
|---|---|---|---|
| `hub_safety` | pass | `TypeOK`, `HubRefinesAbstract` | With Close, the hub implements `HubAbstract`. The entries `{address: erd1y}` and `{topics: [T2]}` pick out different events of `<<Ex, Ey>>`, so order and duplicates are both exercised. Symmetry on the dispatchers. |
| `hub_liveness` | pass | `SendersEventuallyReturn`, `SlowSubscriberRemoved` | Without Close, every blocked send returns, and a slow or failed subscriber is unregistered together with its subscriptions. Deadlock is checked. The only end state allowed is `Quiescent`. |
| `hub_close_blocks` | violation | `SendersEventuallyReturn` | A send after Close blocks forever. |
| `hub_close_delivers` | violation | `NoDeliveryAfterClose` | After Close the select still hands a pending broadcast to the dispatchers. |
| `hub_close_before_run` | violation | `CloseEventuallyStops` | Close before Run is lost, and the hub then runs for ever. |
| `hub_revert` | violation | `RevertRouted` | The revert handler is empty. |
| `publisher` | pass | `TypeOK`, `CallsEventuallyReturn`, `PublisherRefinesAbstract` | `MCPublisher`. Two producers, three calls each, on any of the three streams. The finalized exchange is disabled (`""`). Marshal and publish failures are allowed. The publisher implements `PublisherAbstract`: each stream is FIFO across producers, each message is published at most once and only to its stream's exchange, and nothing is published that was not sent. Every blocked `Broadcast*` returns once `Run` runs. Deadlock is checked. |
| `payload_dispatch` | pass | `TypeOK`, `DispatchMatchesSpec` | `PayloadHandler` with versions `v1` (registered) and `v2` (not), the seven known topics and one unknown topic, and two frames. Each frame reaches exactly the processor method spec 4.5 names, or none. |
| `payload_version_error` | violation | `ErrorsMatchSpec` | An unregistered version returns `ErrInvalidPayloadType`. `ErrInvalidPayloadVersion` is declared and never used. |
| `notifier` | pass | `EgressFaithful` | `MCNotifier`. The api type is `rabbit-api`, `notifier` or an unknown one, and the broker connection may succeed or fail. Three frames over all topics and two versions. Only the egress `apiType` names carries anything. The hub gets every decoded frame's stream in frame order. Each exchange holds decoded frames of its own streams, at most once, in frame order. Deadlock is checked. No liveness property is stated here: with one producer it would repeat `CallsEventuallyReturn` of the `publisher` run. |
| `group_handler` | pass | `TypeOK` | `MCGroupHandler`. Three calls over two routes and three handler lists, before or after registration. Every route of the map holds one of the lists callers pass, and the engine serves only their handlers. An append in place of the assignment breaks it. No further property is claimed: what `RegisterEndpoints` serves is the map's content by construction, and the overwrite is the single assignment on line 39. |
| `hub_stale_subs` | violation | `NoSubscriptionsAfterUnregister` | A late `Subscribe` leaves subscriptions that are never removed. |

**Why the bounds are enough.**
- Capacity 1 with two broadcasts is the smallest setting where a queue
  overflows.
- Two dispatchers are enough for one to be unregistered while the other
  still receives.
- Two events and three entries give a batch whose events reach one
  dispatcher through different subscriptions.
- The liveness runs shrink the input space, to a single all-matching entry
  and a single one-event batch, so that the temporal check stays within
  minutes.

**Fairness** (`FairSpec`).
- Go's `select` chooses uniformly among the ready cases, and a channel serves
  its blocked senders in FIFO order. So each `Receive(c)` and `Stop` is
  strongly fair: a case that is ready again and again is eventually taken.
- The loop always finishes the handler it started (weak fairness).
- `main` calls `Run` (weak fairness).
- A closing dispatcher unregisters itself (weak fairness). The spec's
  dispatcher does this on its own.
- Producers and subscribers get no fairness.
- The publisher's fairness is the same as the hub loop's: strong fairness on
  each case of its select, and weak fairness on finishing a publish and on
  `Run`. A broker that never answers `Publish` is not covered.
- `Notifier` states only safety and runs `Spec` without fairness.

## 4. Not modelled

- Wire formats: JSON marshalling and the gin/websocket transport. Only the
  frame's type and data are kept.
- `JsonResponse`. It only formats a reply and changes no state.
- Gin's own panic on a duplicate route. The handler lists in the runs have
  no duplicates.
- The web server test. It is a unit test of a constructor.
- The observer client of the integration tests (`part_000`). It only
  marshals outport data and sends it on a topic. `Notifier` stands for it with
  the host delivering any frame.
- The facade and the data processor. They are not in `src/`; `Notifier`
  follows the spec for them.
- A shutdown of the publisher. `Run` has no cancellation case and the
  publisher has no `Close`, so there is nothing to model. This is listed as a
  hazard.
- `checkArgs`'s nil-client error. It cannot occur where `NewRabbitMqPublisher`
  is called, because `createRabbitMqPublisher` passes the client it just
  created.

## 5. What is left, and why

Every state-changing operation under `src/` is an action of a module, and
every run passes or fails as stated. Three things were weighed and left out.

- Composing `Notifier` with the detailed `Hub` (or with `HubAbstract`) in
  place of `hubIn`. Between the payload handler and the hub there is only the
  facade, which is not in `src/`. `hub_safety` already shows that the hub
  implements `HubAbstract`, and `EgressFaithful` shows that the hub is handed
  every decoded frame's stream in frame order. The composed run would only
  restate `ABroadcast` for the frames, at many times the state space of
  either run.
- A broker whose `Publish` never returns (hazard `publisher.go:133`). The
  code has no timeout, so every liveness property of the publisher fails
  under that fault. A run for it would only show that assumption.
- A separate check of `MatchEvent` against a reference. `MatchEvent` is not
  in `src/`, so its definition and any reference for it would both be taken
  from spec 4.2. The check would compare the spec with itself.
