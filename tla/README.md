# TLA+ models of the tremor http_client connector

This directory holds TLA+ models of the repository's source under `src/`. The
core is the HTTP client connector (`src/src/connectors/impls/http/client.rs`):
a sink that turns events into HTTP requests on detached tasks, and a source
that hands the responses back to the pipeline. Each module models one part of
that code. Each `.cfg` file is one TLC run. `PROJECT.json` lists the
components, the runs, the mutants that show each property can fail, the map
from TLA+ definitions to source lines, the findings and the hazards.

## 1. Inventory

### Components, their state and their operations

| Component | Source | State | Operations |
|---|---|---|---|
| Connector `HttpClient` | client.rs 30–142 | `max_concurrency`, both ends of the response channel, both ends of the clients channel, config | `Builder::from_config` creates both `bounded(128)` channels. `connect` builds `max_concurrency - 1` clients (`for _i in 1..max`) and `send().await`s them on the clients channel. `create_source` and `create_sink` hand out clones of the channel ends. |
| Transport pool `SurfClients` | client.rs 171–202 | `clients: Vec<SurfClient>`, `idx: usize` | `new` sets `idx = 0`. `next` returns `clients[idx % len]` and then does `idx += 1`. It returns `None` when the pool is empty. |
| Dispatcher `HttpRequestSink` | client.rs 204–353 | current pool, clients receiver, response sender, `ConcurrencyCap`, request meta | `on_event` does `refresh_clients`, then `concurrency_cap.inc_for(..).await`, then `next()`. If there is no client it returns `FAIL`. Otherwise it runs `http_meta.process`, which can fail with `?`, and looks up the processors, which can also fail with `?`. Then it spawns the task and returns `NONE`. `on_signal` only does `refresh_clients`. `auto_ack` is true. |
| Exchange task | client.rs 283–331 | codec, processors, request and its meta, client, response sender | `HttpResponseMeta::invoke` has three outcomes. `Valid(replies)` sends each reply in turn with `send().await`. `CodecError` sends one `{"status": 415}` reply that carries the request meta. `Err` is only logged. |
| Response reader `HttpRequestSource` | client.rs 144–169 | response receiver | `pull_data` does `rx.recv().timeout(100ms).await?`. The source is transactional and asynchronous. |
| Concurrency cap `ConcurrencyCap` | not in `src/` (spec §4.1) | counter, max, reply sender for circuit-breaker (CB) signals | `inc_for` takes a slot and signals CB close when the cap fills. Dropping the guard frees the slot and signals CB restore. |
| Authorization `Auth` | auth.rs | configured strategy | `as_header_value`. Basic encodes `user:pass` with base64 once. Bearer prepends `"Bearer "`. ApiKey is `"ApiKey "` followed by three separate base64 encodings. Gcp is an external token. None gives no header. |
| Base64 preprocessor | base64.rs | none | `process` decodes base64 and fails on malformed input. |
| Value serializer | tremor-value se.rs | `SerializeVec`, `SerializeMap{map, next_key}`, variant builders | `to_value` and the serde `Serializer` callbacks. `serialize_u64` casts `as i64`. Map keys must be strings. `serialize_value` panics if no key came first. |
| Prelude, ports | prelude.rs, ports.rs | constants | Re-exports and port name constants only. |

### How the components interact

* **Pipeline → sink.** The sink manager calls `on_event` for one event at a
  time, so calls to one sink never overlap. `on_signal` runs between events.
* **Connector → sink.** `connect` sends a new `Vec<SurfClient>` on the clients
  channel (capacity 128). The sink takes at most one pool per event or signal
  with `try_recv`, and replaces its whole pool with it.
* **Sink → task → source.** Each spawned task owns a clone of the response
  sender. It pushes replies into the response channel (capacity 128) and
  suspends while the channel is full. The source drains the channel. The
  connector keeps both ends of the channel, so the channel never closes.
* **Sink → pipeline.** CB close and restore signals go upstream on
  `reply_tx`, through the concurrency cap.

### What makes it hard

* The sink, any number of spawned tasks, the source and `connect` all run
  concurrently. The tasks' replies interleave in a bounded channel.
* The guard's lifetime decides how many exchanges can be in flight. The guard
  is never moved into the task (line 284 reads `guard.num()` outside the
  `async move`), so it is dropped when `on_event` returns.
* Every return path of `on_event` must release the slot: `FAIL`, `NONE`, and
  `Err` through `?` after the slot was taken.
* Failures are handled in different ways. A codec error becomes one visible
  415 reply. A transport error disappears into a log line. A timeout becomes
  an `Err`.
* Tasks outlive the connector. A teardown with tasks in flight makes their
  next send fail, and the `?` ends each task, silently dropping its remaining
  replies.
* Pool swaps are lazy (one per event or signal). The rotation cursor is a
  `usize` that wraps in release builds.

### Properties that make each component correct

* Pool: while no swap happens, the rotation visits the clients in order. A
  swap restarts the rotation. `next()` is absent only before the first
  connection.
* Dispatcher and cap: at most `max_concurrency` exchanges run at once.
* Task, channel and source: each event's replies arrive in the order its
  task sent them, however tasks interleave. No reply is duplicated, and none is lost except by
  a teardown. Every reply is eventually pulled, including the 415 reply of a
  codec error, unless a teardown comes first. After a teardown, every task
  still ends.
* Source: a timeout is not an error.
* Auth: each strategy produces its header. ApiKey is three separate
  encodings of id, `:` and api_key.
* Serializer: `to_value` preserves values. Keys come before values.

## 2. Plan

1. **`HttpClient`** (done). The connector's runtime: sink, pool, cap, tasks,
   response channel, source and `connect`, in one module, because they share
   the channels and the counter.
2. **`HttpExchange`, and the refinement `HttpClient` ⇒ `HttpExchange`**
   (done). It is an abstract per-event contract: refused or accepted,
   answered, and every owed reply delivered once and eventually. It replaces
   the separate cap and delivery abstractions planned first. The cap alone
   refines a counting semaphore by construction, so checking that shows
   nothing.
3. **Wrap run and `connect` backlog** (done). Run `idx_wrap` shows the
   `usize` cursor wrap. `ConnectReturns` in run `saturation` covers the
   `connect` backlog.
4. **`Base64`, `Auth` and `Base64Preprocessor`** (done).
5. **`ValueSerializer`** (done).
6. **`ConnectorLifecycle`** (done): `from_config`, `create_source` and
   `create_sink`.
7. **Teardown** (done): the connector dropped with tasks in flight, and the
   failed send that ends a task, in `HttpClient` and in `HttpExchange`.
8. Next: the concurrency cap's own code, if `concurrency_cap.rs` is added to
   the repository. The `arbitrary_precision` and `raw_value` branches of the
   serializer.

## 3. Modules

### `HttpClient.tla` (+ `MCHttpClient.tla`)

**Constants**

* `Events`: model values.
* `MaxConcurrency`: `config.concurrency`.
* `MaxReplies`: the number of replies one response decodes into.
* `RespCap` and `ClientsCap`: the two `bounded(128)` channels.
* `MaxConnects`: the number of reconnects.
* `IdxWrap`: 2^64 for the `usize` cursor.
* `NoEvent`: a model value meaning no event is in hand.
* `CanTeardown`: whether the runtime may tear the connector down.

**How the variables correspond to the code**

* `pool`: `HttpRequestSink.clients`, kept as a generation number and a length.
* `idx`: `SurfClients.idx`.
* `count` and `cb`: the cap's counter and the last CB signal.
* `sinkPc` and `cur`: `on_event` between `inc_for` and its return.
* `result`: the `SinkReply` or `Err` that `on_event` returned.
* `task`, `outcome`, `produced` and `toSend`: the spawned task.
* `dropped`: the replies a task gave up when its send failed.
* `closed`: the connector, with its sink, its source and both receivers of
  the response channel (`HttpClient.response_rx` and the source's clone), has
  been dropped.
* `respChan` and `clientsChan`: the two channels.
  A reply carries its event, its kind and its position in the response.
* `delivered` and `pullResult`: what `pull_data` returned.
* `picks` and `dispGen`: history variables that the properties read.

**Actions**

* `ConnectCall` and `Connect`: `connect` (130–141). The call builds the
  clients. `Connect` is the `send().await` finishing, which needs room in the
  clients channel. While the channel is full, `connecting` stays true.
* `OnEvent`: `on_event` up to `inc_for` (250–260). It includes
  `RefreshClients` (238–245).
* `DispatchSpawn`, `DispatchBuildError` and `DispatchNoClient`: the rest of
  `on_event`, one action per return path (262–337). Each one uses
  `NextClient` (186–201) where the code calls `next()`, and `Return`, which
  drops the guard.
* `OnSignal`: `on_signal` (340–348).
* `TaskInvoke` and `TaskSend`: the spawned task (285–330).
* `Teardown`: modelled from spec §5 (a shutdown does not cancel spawned
  tasks), since the runtime's shutdown code is not among these sources. The
  runtime drops the connector between two calls, when the
  sink is idle and no `connect` is suspended. The sink and source stop, and
  the response channel has no receiver left. The detached tasks keep running.
* `TaskSendClosed`: a send on the channel without a receiver fails. The `?`
  at 299 (or at 321 for the 415 reply) ends the task. That reply and every
  later one are dropped, and the task's `Err` is lost with its `JoinHandle`.
* `Terminated`: after a teardown, with every task ended, the system stutters.
  That final state is not a deadlock.
* `SourcePull` and `SourcePullTimeout`: `pull_data` (155–160).
* `IncFor` and `GuardDrop`: the cap. They are modelled from the spec, because
  `concurrency_cap.rs` is not in this repository.

`OnEvent` refreshes the pool and acquires the slot in one step. The `await` in
`inc_for` cannot interleave with anything that matters: the sink is the only
holder of guards, so it never finds the cap full.

**Fairness**

* The sink finishes `on_event`: `WF(Dispatch)`.
* The async runtime polls every ready task: WF on each `TaskInvoke(e)` and
  `TaskSend(e)`. A task whose send fails returns at once: WF on each
  `TaskSendClosed(e)`.
* The source manager keeps calling `pull_data`: `WF(SourcePull)`.
* The runtime wakes a suspended `connect` once its send has room:
  `WF(Connect)`.
* Calls of `connect`, the arrival of events and the arrival of signals are
  environment choices and have no fairness. `ConnectReturns` puts
  `WF(OnSignal)` in its antecedent as a hypothesis. It is not part of the
  spec.

### `HttpExchange.tla` and the refinement

`HttpExchange` is what the connector promises each event, with no pool,
cap, task or channel.

**Variables**

* `req[e]`: one of `queued`, `refused`, `inflight` or `answered`.
* `owed[e]`: the replies the event is owed.
* `kindOf[e]`: `data`, or `s415` for a codec error.
* `delivered`: the replies the source has returned.
* `closed`: the connector has been torn down.

**Actions**

* `Refuse` and `Accept`, only before a teardown.
* `Answer`: k replies, one 415 reply, or none. After a teardown nothing is
  owed, because no receiver is left.
* `Deliver`.
* `Close`: the teardown. Every reply still owed is lost.

**Fairness.** WF on `Answer(e)` and `Deliver(e)` for every event.

**Refinement mapping.** The bottom of `HttpClient.tla` instantiates
`HttpExchange` as `Exchange`. The mapping is:

* `req` is queued until `on_event` returns for the event. It is refused on
  FAIL or Err, in flight while the task is exchanging, and answered after.
* `owed` is the replies the task has yet to send, plus that event's replies
  in the response channel. It is zero once `closed`.
* `kindOf` comes from the task's outcome.

`ExchangeRefined == Exchange!Spec` is checked as a `PROPERTY`.

### `ValueSerializer.tla` (+ `MCValueSerializer.tla`)

`to_value` (se.rs) is modelled as a RECURSIVE operator `ToValue` over a
description of the serde calls a type makes. The description is a record `d`
whose `k` is the serde data-model kind. `SerializeScalar` covers the scalar
`serialize_*` methods.

* Integers are `W` bits wide, and `AsI64` is the `as i64` cast of
  `serialize_u64`.
* `MapKey` is `MapKeySerializer`. It accepts only a str, a unit variant's
  name or a newtype around one.
* `MapStart`, `SerializeKey`, `SerializeValue` and `MapEnd` are
  `SerializeMap`. `next_key` is an optional key. A value without a key is the
  `panic` state. `map.insert` overwrites.
* `SerializeEntry` is `serialize_field` and serde's default `serialize_entry`.
* `SerializeVecEnd`, `TupleVariantEnd` and `StructVariantEnd` are the
  sequence and variant builders.
* `FromValue` is `impl Serialize for Value`: the serde calls a `Value` makes.

The state is one input and one output. `Convert` is one call of `to_value`.
The run stops after it, hence `CHECK_DEADLOCK FALSE`.

### `Base64.tla`, `Auth.tla`, `Base64Preprocessor.tla`

`Base64` holds the base64 crate's `encode` and `decode` (STANDARD alphabet)
as RECURSIVE operators over byte sequences. A text is a sequence of alphabet
indices. `Pad` stands for `=` and `Bad` for any byte outside the alphabet.
The crate is not in the repository.

Two `ASSUME`s, which TLC evaluates, check over all byte strings of up to 3
bytes drawn from a sample that sets every bit position:

* `Encode` agrees with `EncodeRef`, a bit-by-bit reference definition.
* `Decode` inverts `Encode`.

`Auth` models `as_header_value` for each strategy:

* `BasicHeader` (auth.rs 41–47).
* `ApiKeyHeader` (49–55): three appended encodings.
* Bearer.
* Gcp: a token from `GcpTokens`, or an error, because `gouth` is external.
* None.

A header `"<scheme> <payload>"` is a record. `Base64Preprocessor` models
`process` (base64.rs 26–28). The Auth and preprocessor runs also stop after
one step.

### `ConnectorLifecycle.tla` (+ `MCConnectorLifecycle.tla`)

The variables are `cfg` (the connector config), `conn` (what `from_config`
returned) and `source` and `sink` (the `HttpRequestMeta` each built, or an
error).

**Actions**

* `FromConfig`: `Builder::from_config`. A missing `config` section gives
  `MissingConfiguration`. `Config::new` and the codec_map's `structurize`
  fail through `?`.
* `CreateSource` and `CreateSink`: each calls
  `HttpRequestMeta::from_config(.., "json")`.

`codec_requirements` only returns the codec name, so it is not an action.
`MetaFromConfig` is modelled from the assertions of the client.rs tests,
because `HttpRequestMeta::from_config` is outside `src/`. The lifecycle stops
once both halves exist, hence `CHECK_DEADLOCK FALSE`.

### Runs

| Run | Config | Expect | What it shows |
|---|---|---|---|
| dispatch | 3 events, `MaxConcurrency=3` (2 clients), 2 reconnects, ≤2 replies per response, `RespCap=1`, teardown enabled | pass | `ExchangeRefined`: the connector implements `HttpExchange`, including its liveness and the loss at a teardown. `TypeOK`. `ReplyConservation`: for every event, the replies pulled, plus those in the channel, still to send, or dropped by a failed send, equal the replies the task produced. `RoundRobin`: after each swap, the k-th pick is client (k−1) mod len. `ReplyOrder`: for each event, the replies pulled and still queued are its replies 1, 2, … in send order. `AllRepliesDelivered`: every spawned exchange ends, and unless the connector was torn down, all of its replies were pulled. `TeardownEndsTasks`: after a teardown, every task ends, including one suspended on the full channel. |
| saturation | 3 events, `MaxConcurrency=1`, a one-slot clients channel, 3 reconnects | pass | `ConnectReturns`: if the sink keeps receiving signals, a `connect` suspended on the full channel returns. |
| lifecycle | all 45 config shapes: config section absent, invalid or valid; codec_map absent, invalid or valid; codec none, json, string, msgpack or the unknown snot | pass | `TypeOK`: every config shape ends in a well-formed connector, source and sink, and an unset codec becomes json. |
| inflight | `MaxConcurrency=2`, 3 events | violation | `InFlightBounded` (from spec §4.1 and §8) fails: three exchanges are in flight at once. |
| connect_one | `MaxConcurrency=1` | violation | `FailOnlyBeforeConnect` fails: the pool that `connect` sends is empty. |
| pull_timeout | any | violation | `PullTimeoutNotError` fails: `pull_data` returns `Err` on a timeout. |
| idx_wrap | 5 events, 3 clients, cursor wrapping at 4 (≡ 2^64 mod 3) | violation | `RoundRobin` fails: the picks go 0,1,2,0,0 at the wrap. |
| convert | `W=4`; 1,758 inputs: scalars of every kind, maps with good, rejected and duplicated keys, structs, nested and variant types | pass | `TypeOK`: the output is a well-formed `Value`. `KeyErrorsExact`: `to_value` fails exactly when some map key, at any depth, is not a string. `LastKeyWins`: a duplicated key keeps its last value. |
| u64_roundtrip | `W=4`, the Values to depth 2 | violation | `ValueRoundTrip` fails: `U64(8)` comes back as `I64(-8)`. |
| auth | 5 strings of 0–3 bytes, including `:` and `0xff` | pass | `BasicDecodes`: the Basic payload decodes to `username:password`. `ApiKeyFieldsSeparate`: the ApiKey payload splits into three padded encodings of id, `:` and api_key. |
| base64_decode | all 1,555 texts of ≤4 symbols over `A`, `E`, `Q`, `/`, `=` and a bad byte | pass | `DecodeExact`: `process` returns one chunk, and only when re-encoding the chunk gives back the text (up to omitted padding). |

**Why the bounds are enough**

* Three events over two clients are enough to see the rotation wrap round,
  to see a swap in the middle of a rotation, and to have more tasks than
  channel slots.
* Two replies per response and a channel of one slot are enough for tasks to
  block on a full channel while another task's replies are queued. They are
  also enough for a teardown to catch a task between its first and second
  send.
* Two reconnects give two pool swaps.
* The dispatch run reaches 387,624 distinct states and takes about 60 s.
* The saturation run has no spawned tasks, because `connect` builds zero
  clients when `max_concurrency = 1`. Teardown is therefore checked in the
  dispatch run.
* `W = 4` gives `u64` values on both sides of `i64::MAX` (7 and 8, 15), so
  the cast's wrap is reached. Nesting to depth 2 reaches maps inside maps
  and variants.
* Texts of four symbols from `A`, `E`, `Q` and `/` cover both short tails
  with unused bits set or clear, padding in every position, a length of
  1 mod 4, and a bad byte.

Each property of a passing run has a mutant in `PROJECT.json`. The mutant is
a plausible bug in the mapped code, and TLC finds the property violated under
it:

* a send that does not wait for room in the channel;
* a pull that leaves the reply in the channel;
* a swap that keeps the old cursor;
* a 415 reply that is built but never sent;
* `serialize_u64` without the cast;
* integer map keys accepted;
* a duplicate key that keeps its first value;
* a lower-case `basic` scheme;
* Basic without the `:`;
* ApiKey as one joint encoding;
* a decode error turned into no output;
* undecoded input passed through;
* a pool refresh that leaves the pool queued;
* a lost default codec;
* replies of one response sent back to front;
* a failed send that is retried instead of ending the task.

## 4. Findings

1. **`client.rs:284`: the guard does not bound the task.** `guard` is used
   only for the task's name and is not captured by the `async move` block, so
   it is dropped when `on_event` returns. The cap therefore never limits
   in-flight exchanges, and with `max_concurrency ≥ 2` it never even fills.
   The spec says the permit's lifetime bounds the task. See run `inflight`.
2. **`client.rs:133`: `connect` builds one client too few.** `1..max_concurrency`
   yields `max_concurrency - 1` clients. With `max_concurrency = 1`, every
   event fails after a successful connect. See run `connect_one`.
3. **`client.rs:156`: a timeout is an error.** The `?` turns a timeout into an
   `Err`, while the spec says a timeout is not an error. See run
   `pull_timeout`.
4. **`se.rs:140`: `U64` values above `i64::MAX` do not round-trip.**
   `serialize_u64` does `value as i64`, so serializing a `Value::U64` through
   `to_value` gives a negative `I64`. See run `u64_roundtrip`.
5. **`client.rs:195`: the cursor wrap repeats a client.** In a release build
   `idx += 1` wraps at 2^64. That is not a multiple of 3, so a pool of three
   hands out the same client twice in a row. A debug build panics instead. It
   takes 2^64 dispatches. See run `idx_wrap`.


## 5. Not modelled, and why

* The wire protocol, `HttpRequestMeta::process` and `HttpResponseMeta::invoke`
  are outside `src/`. Their outcomes are nondeterministic choices.
* `ConcurrencyCap`'s code is outside `src/`. `IncFor` and `GuardDrop` follow
  spec §4.1. The counter's balance and the CB restore are not checked as
  properties: in this code the cap fills and is released within one
  `on_event`, so both would follow from the cap's own code, not from
  client.rs.
* `HttpRequestMeta::from_config` is outside `src/`. `MetaFromConfig` is
  modelled from the assertions of the tests in client.rs, for the codec
  only. The endpoint, method and headers it also derives feed no property.
* The base64 crate and `gouth` are external. The crate's behaviour is
  modelled from its documentation (0.13: padding optional on decode, strict
  last symbol). The Gcp token is an arbitrary value or an error.
* In se.rs, the `arbitrary_precision` and `raw_value` feature branches are
  not modelled. Neither are the `i128`/`u128` methods behind a feature.
  Floats are opaque. Strings are short sequences, not character data.
* The prelude and the ports module contain only re-exports and constants.
* Logging is left out.
* The closed-channel branch of `pull_data` is unreachable, because the
  connector keeps a sender.
* The runtime's teardown code is outside `src/`. `Teardown` models only its
  effect on this connector: the sink and the source stop, and both receivers
  of the response channel are dropped. It happens between calls, as the
  runtime awaits each call of the connector.
