# Verification of homeassistant-otel

TLA+ specifications, TLC configurations and TLAPS proofs for the Home Assistant
integration in `src/custom_components/homeassistant_otel/`. The integration
monkey-patches Home Assistant while its config entry is loaded, and produces
OpenTelemetry spans for WebSocket commands, REST requests, events, services and
MQTT messages.

## 1. The system

Almost everything runs on Home Assistant's single event loop: between two
awaits a callback, a synchronous event dispatch or a setup step is not
interrupted. Executor threads only run the connection check, the creation of the
tracer provider and its shutdown. What is concurrent is therefore the interleaving of
*tasks* at awaits, and of setup, unload, component loading and messages.

| Component | State | Operations | Works with |
|---|---|---|---|
| `__init__.py` setup and unload | the entry's state and `runtime_data` | `async_setup_entry` (four awaits), `async_unload_entry` (one) | calls every `install_`/`uninstall_` |
| `tracing.py` trace runtime | a `TracerProvider` per setup; the process-wide provider, which is set once | `setup_trace_runtime`, `shutdown` | tracers go to the hooks |
| `context_linking.py`, `propagation.py` | the context registry in `hass.data`; each context's `_cache` (span context, traceparent, tracestate) | store, look up, resolve a parent | event, service, REST and WebSocket wrappers |
| `event_tracing.py` | saved originals, the registry | traced dispatch of an event, traced `ActiveConnection.context` | context linking |
| `service_tracing.py` | saved original | traced service execution | context linking |
| `websocket_tracing.py` | saved handlers, schemas, `ActiveConnection.context` | wrap, restore, register while tracing | propagation |
| `websocket_event_propagation.py` | saved originals, a cache of serialized events | traced serialization | propagation |
| `rest_tracing.py` | wrapped routes, `_TRACED_HANDLER_IDS`, saved originals | wrap, restore, traced view context | context linking, `hass.http` |
| `mqtt_tracing.py` | patch, `component_loaded` listener | install now or deferred, uninstall | `mqtt_apply.py` |
| `mqtt_apply.py` | saved originals | traced publish, traced message | correlation table, propagation |
| `mqtt_correlation.py` | `_pending`: (topic, payload) -> (carrier, expiry) | register, lookup, purge | the monotonic clock |
| `otlp.py`, `config_flow.py` | none; the entry's data | validate, create an exporter; user, reauth, reconfigure steps | setup |
| `span_attributes.py`, `const.py` | none | pure functions, names | all wrappers |

What is hard, and what makes each part correct:

* **MQTT correlation.** A message that carries no trace fields is guessed to belong to a
  recent publish. One publish is stored under several topics and a wildcard
  payload; entries expire, are overwritten and are popped singly. Correct means: a match
  is fresh, related, bounded in number, and found when it should be.
* **Context linking.** An event span ends before its listeners' tasks do; those tasks keep a
  current span that no longer records. The trace has to survive in the context,
  of which there are three memories (registry, cached span context,
  carrier) and a parent's entry. Correct means: the memories agree, and everything done for
  one cause is one trace.
* **Lifecycle.** Hooks are placed between awaits at which the setup can fail, mqtt can
  load and HTTP can come up; two modules patch the same method; everything can be
  reloaded. Correct means: no double wrapping, everything restored, nothing that exports to
  a provider that was shut down, nothing left untraced.
* **Handler tables.** WebSocket commands and REST routes are wrapped in
  place, by name and by object id, while others register more of them, which an uninstall does not find. Correct means: a
  message or request makes the spans it should and no more, and an uninstall puts every handler back to what its registration made it.
* **Messages.** MQTT messages are lost, repeated and overtaken, and may or may not carry trace
  fields; serialized events are cached, by the integration and by Home Assistant, the fields in them are mutable. Correct means: what
  arrives late is never given another's, or an older, trace.
* **Settings.** A setup reads the entry's settings before its first await, and flows write them
  at any time. Correct means: what was stored last is what the runtime uses.
* **Attributes.** One call is described in three places from data in three forms, some of it rewritten by Home Assistant in between. Correct means: the
  descriptions agree, and nothing unbounded gets into a span.

## 2. The modules

### MqttCorrelation, MqttOutstanding, MqttCorrelationProofs

`MqttCorrelation` is `mqtt_correlation.py`. `pending` is the dict, `now` the monotonic clock; a
topic is a base and a kind (`/state`, `/set`, `/config`, or a plain topic), a
payload is normalised before it is used. `Register`, `RegisterUntraced`,
`LookupHit` and `LookupMiss` are the two functions, one step each because the
body holds the lock and the callers are on the event loop; each includes
its purge. `Candidates` is the nested loop of the lookup, in its order, and `Pop` what
that loop pops on its way. A carrier is named by the publish that left it. `published` and
`uses` are history variables.

`MqttOutstanding` is what the table amounts to: only the newest publish can be
matched, while it is younger than the time to live and has credit left.
`MqttCorrelation` implements it under the identity on `now`, `published`
and `uses`, with the credit of a topic being twice the number of its related topics.

### ContextLinking, ContextLinkingProofs

The parent of every span, across requests, events, services and tasks.
`spans` holds the spans (and the remote ones requests name), `contexts`
the Home Assistant contexts with their caches, `registry` the registry, `task` the asyncio
tasks with their contextvar (`current`) and open with-blocks, `running` the Python call stack of the
loop. `Resolve` and `LookupParent` are the two functions of the same name in the
order of the code; `Linked`, `Register` and `StoreCarrier` are the stores. A tracestate is named by the cause whose message
brought it; `Kept` is that a field which is absent overwrites nothing, and `From` that a parent's tracestate may come from elsewhere than
the parent.
`Request` and `RequestContext` stand for the WebSocket and the REST path, which differ in
nothing this module distinguishes (the WebSocket path stores the message's carrier a second time,
to the same effect). `FireEvent`, `FireContextless` and `CallService` are the
wrappers up to the call of the original, `EndSpan` is leaving their with-block.

What Home Assistant does in between is external: `Background`
(timers, devices), `ChildContext` (an automation answers with a context whose parent is the
event's), `Spawn` (a task created eagerly, with a copy of the contextvars), `TakeUp` (a worker
continues with a queued job's context), `Yield`, `Resume`, `Finish`. Assumed of them: an event is dispatched
without an await; a context becomes a parent only after an event carried it; a worker
takes up a job only when its current span does not record. If it took it up inside
another cause's recording span, the code would, on purpose, make that span the parent.
The sampler is the SDK's default: roots are sampled, children follow their parent.

### Lifecycle, TracingSwitch

`__init__.py`, `tracing.py` and every `install_`/`uninstall_`. `slot` is, for every
patched function, the chain of wrappers a call runs through; `saved` is what each hook
keeps in `hass.data` (the propagation hook in `_PATCH_HOLDER`). `step` is the await that
`async_setup_entry` is at, so what happens between two awaits is one action:
`Validate`, `SetupTraceRuntime`, `InstallHooks`, `ImportFails` or `InstallLate`. `Unload` and
`Shutdown` are the two halves of the unload. `MqttSetUp` and `MqttAnnounced` are
Home Assistant adding a component and firing `component_loaded`: two steps, since the setup
can resume between them. `ForgetFailed` is the entry being disabled or removed after a failure, for which Home Assistant does not
call `async_unload_entry`. Hooks are assumed to be patched by this integration alone.

Two of the hooks also wrap what is in a table of handlers, and what gets there later they wrap on its way in. `handler` is what is around any one
synchronous command or route of the REST API (`table` says which), from its registration (`Register`) on; `original` is what the installed hook has saved of it, and
`registered`, which is history, what it was registered with. An uninstall restores a handler that was saved and no other (`RestoredHandler`), so one
registered while tracing keeps a wrapper of that installation. The next installation leaves a route alone that is wrapped, and wraps a
command once more (`HandlerFollows`). What several commands or routes do to each other, registrations that repeat included, is in `WsCommands` and `RestRoutes`.

`TracingSwitch` is what this amounts to, without functions, wrappers and saved originals: one runtime switches tracing on for the hooks
that need nothing, the late ones (`mqtt`, `rest`) join it, all hooks go in one step, and a runtime is closed only while none is in place.
`Lifecycle` implements it with `tracers` read off the patched functions (`Tracers`) and `closed` off the providers. A setup that fails
half way, or is blocked by an earlier one, has no step of its own there: it leaves the switch as it was or on.

### WsCommands, WsCommandsProofs

`websocket_tracing.py` as far as it changes the table of WebSocket commands
(`handlers` is `hass.data["websocket_api"]`). A handler is named by the registration that brought it
(`body`), with the `traced_handler`s around it (`layers`, each named by the installation that made it)
and its schema. `Install` is wrapping every handler and then extending the schema of `call_service`; `patch` is
`original_handlers`. `Uninstall` is `restore_schemas` and `restore_handlers`: what the first one
restores is in what the second one puts back, so one definition (`Restored`) stands for both. `RegisterCommand` is an
integration calling `async_register_command`, through the hook when it looks the function up in `websocket_api`
(`late`), past it when it imported the function by name. `Spans` says which tracers make a span of a
message: one per `traced_handler`, from the outside in, and one for the task of
`async_response` while its hook is installed. `registered` is history: who registered what, through which hook, and `during` which installation. Handlers are of three kinds:
synchronous, made by `async_response`, or made by it and decorated once more (`require_admin`), which the code
does not recognise as asynchronous.

### LifecycleProofs, Otlp, ConfigFlow, ConfigFlowProofs

`Otlp` says what `otlp.py` makes of an endpoint and of the answer to the empty export: accepted, one of its two errors,
or another exception. Endpoints are known by what the code tells of them (no `://`, a scheme, a host), answers by
status. It has no state.

`ConfigFlow` extends `Lifecycle` with the entry's settings and the flows that write them. `data` is `entry.data`, `using`
what `async_setup_entry` read before its first await, `flow` the flow of each source. `Submit`, then `Accepted` or
`Refused`, are `_async_handle_connection_step` before and after its await; `Stored` is the difference
between `data=` (reconfigure) and `data_updates=` (reauth). `ValidateSetup` and `SetupConfiguredRuntime` are
the steps of `Lifecycle` of the same purpose, with the outcome decided by `Otlp`; a rejected
header starts a reauthentication, whose first step submits the stored settings as if they had been entered.
Home Assistant's part is external: a setup begins, an update schedules a reload, the user opens and closes forms.

### RestRoutes, RestRoutesProofs

`rest_tracing.py` as far as it changes routes. `route` is the handler of every route as the layers a request runs
through, each a function object with an id; `traced` is `_TRACED_HANDLER_IDS`, which holds ids and outlives the objects.
A new object may have any id no living object has. `RegisterView` is `HomeAssistantView.register`: one
handler for all of a view's urls, wrapped by the patched factory while tracing is installed, for views below `/api` and others.
`viewContext` is how the class keeps its `context` method. `registered` is history.

### MqttFlow, MqttFlowProofs

`mqtt_apply.py` around the table of `MqttCorrelation`, which it extends. `PublishCalled` registers and then the message reaches the
broker or does not (paho raises, the connection is gone): the entry stays. `Receive` takes the trace from the
message's fields, from the table (`LookupHit`, `LookupMiss`) or makes a root. `network` is what the broker may deliver, in any order, once or again.
Devices answer with messages of their own, with or without the fields they were sent; other clients have
fields of their own or unreadable ones. A message's `cause` is history.

### SpanAttributes, EventMessages, EventMessagesProofs

`SpanAttributes` is `span_attributes.py` for events, service calls and the `call_service` command: functions from records to
records. A string is known by a name, by whether it is written with capitals, by its length, and by the string before its first dot, which has a length of its own and may be empty.
The event's type is set as it comes, uncut, as in the code.

`EventMessages` follows an event from where it is fired to the clients that hear of it: the span and its attributes (`Fire`,
`FireContextless`, `CallService`), the carrier on the context (`Linked`), and the three kinds of message
(`SendPlain`, `SendCached`, `SendDiff`), each made from the context as it is at that time. Two of them go through an `lru_cache`: `cache` is the integration's, new with
every installation; `diffs` is Home Assistant's, around the function that is patched, and knows of no installation, so a difference may be given out as it was kept
(`path` is then `"kept"`). `dict` is what the
event keeps of itself, `sent` the last message, `said` the attributes of the spans the last step made. Between a client's message and the event, and between that and the service, Home Assistant
writes domain and service in lower case and gives the service what its schema makes of the entities (`Processed`): `CallService` has both. Hooks come and go
between any two steps. A span is named by its number, so "older" can be said.

### MC modules

`MCMqttCorrelation`, `MCContextLinking`, `MCWsCommands`, `MCConfigFlow`, `MCRestRoutes`, `MCMqttFlow` and `MCEventMessages` give
the constants their small values; the violation of `Lifecycle` needs only a bound and is checked on the module as it is.

How the modules build on each other: `ConfigFlow` EXTENDS `Lifecycle` and `Otlp` and strengthens its actions; `MqttFlow` EXTENDS
`MqttCorrelation` and uses its actions; `EventMessages` EXTENDS `SpanAttributes`; `MqttCorrelation` has an
INSTANCE of `MqttOutstanding`, and `Lifecycle` one of `TracingSwitch`. The proof modules extend the modules they are about.

## 3. The runs

| Run | Bounds | Shows |
|---|---|---|
| `correlation` | 1 base (4 topics), 2 payload texts, `Ttl` 2, 2 publishes, clock to 2 | types; matches are fresh (`FreshMatch`), related (`RelatedMatch`), bounded (`BoundedReuse`); the newest publish is found (`Findable`); the table implements `MqttOutstanding` (`OneOutstanding`) |
| `publish_keeps_others` | the same | a publish drops unrelated fresh entries (violation) |
| `mqtt_flow` | 1 base, publishes on 2 topics, devices on a third, 2 publishes, 2 messages at the broker, `Ttl` 1 | types; `NeverOlderParent`: whatever is lost, repeated, late or failed, no message is traced to a publish older than its cause; `TaggedIsExact`: with our own fields it is traced to exactly its cause; `UntaggedIsTraced`: without fields, on a topic on which the newest publish is still awaited, it is traced to that one and never to none |
| `context_linking` | 2 tasks, 5 spans, 2 contexts, 2 open spans per task, carriers of every kind, three with a tracestate | types; `LinkAgreement`; `TraceFollowsCause`; `TracestateStays`: no span and no carrier gets a tracestate of another trace, although one that is absent clears nothing |
| `lifecycle` | 2 trace runtimes, 2 inputs (gRPC with a header, HTTP with a blank one), all answers | types; `WrappedOnce`: no function and no route twice, no command more than once beyond its registration; `UnloadRestores`; `HooksExport`: of patched functions and of what installations put around a handler; `LoadedIsHooked`; `OneSwitch`: the patches implement `TracingSwitch`; `LoadedWithStored`: a setup on its way or done has the stored settings or a reload is coming; `MqttGetsTraced`; `StoredIsUsed`: a scheduled reload gets to read the new settings |
| `ws_commands` | 2 commands, 3 installations, 4 registrations | types, and no command is lost; `SpansPerMessage`: exactly how many spans the current tracer makes of a message; `AsRegistered`: an uninstall leaves every handler as its registration left it; `NewestInForce`: which registration that is |
| `ws_no_spans_without_hooks` | the same | commands registered while tracing stay wrapped (violation) |
| `ws_async_recognized` | the same | `async_response` behind another decorator is taken for a synchronous handler and traced twice (violation) |
| `rest_routes` | 3 routes (2 of the API), 7 object ids, 3 installations | types; `OneSpanPerRequest`; `UninstallRestores`; `WhoTraces`: which installation traces an API route, and when none does |
| `rest_hooks_removed` | the same | a route registered while tracing stays wrapped, and the views' context method is not restored as it was (violation) |
| `event_messages` | 3 spans, 2 contexts, 3 events, 7 kinds of event, 7 calls (after at most 1 event), caches of 1 | types; `SentNamesEvent`: fields sent late, from either cache or after a reinstallation name the event's own context and nothing outdated; `TracedEventIsSentTraced`; `NoFieldsWithoutHooks`: no message is made with fields, only Home Assistant's cache still has some; `BoundedAttributes`; `CallSpansAgree`: the three spans of a call do not contradict each other, but for capitals the client wrote |
| `setup_finds_no_hooks` | 3 trace runtimes, no settings | hooks of a failed setup block the next (violation) |

Why the bounds are enough. *Correlation:* a second publish is what overwrites, purges
or coexists with a first, and three readings of the clock are before, at and after an
expiry relative to `Ttl` 2; the number of messages is not bounded. *Flow:* an older and a newer publish, one message of each or an
answer at the broker at the same time; the number of deliveries is not bounded. *Context linking:* two tasks let one outlive the event
that started it; five spans are a remote parent, a request, an event and
two spans after it; two contexts are a parent and a child, or two causes. An earlier
configuration without `TakeUp` and with six spans and three contexts passed as well. *Lifecycle:* the second runtime is a
reload or a retry; the proofs cover any number. The inputs are the two ways a submission can differ for what comes after: it replaces a
header or leaves it out; answers decide whether it is accepted. One handler stands for all: it may be there first or registered at any time. *Commands:* the command whose schema is extended and one other; four registrations are the initial one,
one before and one while tracing, and a second one for the same command. *Routes:* seven ids are fewer than the handlers that are
made, so ids are used again; three installations are a reload over what a reload left. *Messages:* a cache of one entry evicts on every second event; an event,
a second for the same context and one for another. What a call's spans say depends on the call and on whether its context has a parent, so calls stop after the first event (`MaxBefore`). Where proofs exist (section 5) they cover every size of these bounds.

Deadlock is not checked in `context_linking`, `ws_commands` and `rest_routes` (tasks finish and bounds end the behaviours); the other runs
cannot stop.

Fairness. `MqttGetsTraced` needs weak fairness of `MqttAnnounced`, because
Home Assistant fires `component_loaded` for every component it has added to
`hass.config.components`. `StoredIsUsed` needs it of the setup's steps and of the shutdown (executor jobs return; the validation has a timeout of
5 seconds, `const.py:16`), and of the two halves of a reload that has been scheduled, which is a task of Home Assistant's own. Setups, retries and unloads
nobody scheduled, flows and users have none. `SetupGoesOn` and `ReloadBegins` are weak fairness of the setup's steps and of the unload that a reload begins with, with
the states in which these can be taken written out.

Definitions named `...Mutant` stand before the definition they are a plausible
fault of. They are in no specification; each breaks a property when put in its place.

## 4. What the runs found

1. `mqtt_correlation.py:58` purges with the expiry of the entry about to be stored, which
   is in the future, so every earlier entry goes. Two publishes in a row on different topics leave the first
   without its correlation, although docstrings and the time to live speak of "pending"
   publishes in the plural. `OneOutstanding` is the exact statement of what remains.
2. `__init__.py:105-107`: a failed import of the MQTT module, a missing HTTP server or any error of the last two
   installations leaves the earlier hooks installed; the next setup raises "WebSocket tracing is
   already installed" (`websocket_tracing.py:60`), and so does every one after it.
3. `websocket_tracing.py:205` restores the handlers there were before the installation. Commands registered while
   tracing was installed stay wrapped, although line 146 says "Remove WebSocket API tracing hooks.", and the next setup wraps them
   once more. `WrappedOnce` says that it stays at that: every later uninstall takes the second wrapper off again.
4. `websocket_tracing.py:245` decides by the name of the code object whether a handler "schedules work via async_response" (line 244). It does not
   see it behind another decorator, `require_admin` for one; such a handler gets a `traced_handler`, its task is traced as well, and a message
   makes two spans (`SpansPerMessage` counts them).
5. `rest_tracing.py:135` restores the routes there were before the installation; one registered while tracing keeps its wrapper and the tracer
   in it, although line 130 says "Remove REST API tracing hooks.". And line 142 puts the views' `context` back as a plain function. It is a static method in Home Assistant, and line 101 keeps
   it one while tracing is installed; after an unload `self.context(request)` raises `TypeError` until the next setup. `HooksRemoved` asks for one of the two and gets neither.

Observations without a run of their own, each of which, unless it says otherwise, the models have:

* A handler that was registered while tracing hands its spans to a provider that is shut down after the unload; nothing else does (`HooksExport`).
* Home Assistant keeps the differences it has made for clients in a cache of its own (`diffs`), around the function that
  `websocket_event_propagation.py:99` patches. So for a while after line 114, "Remove websocket event propagation hooks.", clients
  may be sent differences with fields, and after an installation differences without. No message is made with them then (`NoFieldsWithoutHooks`), and the fields are still those of the event (`SentNamesEvent`).
* Home Assistant writes domain, service and, by most schemas, entity ids in lower case; the span of the command has them as the client wrote them, those of the event and of
  the service do not agree with it if there were capitals (`CallSpansAgree`).
* `tracing.py:47` promises to "configure the global tracer provider"; OpenTelemetry accepts one per process, so after a reload the global one is the first, shut down. The
  integration's own tracers come from the new provider and are not affected. The models have only the latter.
* `Uninstall` takes a command that was registered again while tracing back to its older handler, for good. That is the only registration that is ever
  outlived by an older one (`NewestInForce`); a command that was new while tracing keeps its newest handler.
* `rest_tracing.py:137` discards the ids of the originals, which were never in the set; those of the wrappers stay. A new handler that gets such an id counts as
  traced and is not (the last case of `WhoTraces`). A route registered while tracing keeps its wrapper over a reload, with the tracer of the earlier
  installation (the second case), and the factory wraps views outside `/api` as well.
* `config_flow.py:175` merges: a header left out of a reauthentication stays, and what is stored then was never validated as a
  whole. `config_flow.py:123` validates the stored settings at once; if they are accepted after a reconfiguration has stored others, the old ones are written back.
* An event fired without a context has a span, but reaches clients without fields (`TracedEventIsSentTraced` says `given`); a difference of a new entity carries none either.
* When a client names the entity in the service data and in the target, the command's span and the event's disagree about `hass.entity.id` (`NamesTwice`).
* `service_call_attributes` does not truncate domain and service, nor `event_attributes` the type (`span_attributes.py:108`). Home Assistant only runs services that are registered,
  which are short, and refuses to fire an event whose type is longer than 64; these are the assumptions under which `BoundedAttributes` holds.
* A request with an unreadable traceparent and a tracestate begins a trace without one (`extract()` drops both), but the tracestate is
  stored on the context (`propagation.py:38`), stays there when the span is linked, and is taken up by later spans that find their parent by the carrier. That is the
  exception in `GoesWith`.
* A failed publish leaves its entry, and an unrelated message that carries no fields may be given its trace. `NeverOlderParent` is what remains true.

## 5. What is proved

`MqttCorrelationProofs`, for every set of bases, payloads, raw payloads, every
positive `Ttl` and all bounds:

* `TypeCorrect` - `[]TypeOK`;
* `MatchesAreFresh` - `[]FreshMatch`; `MatchesAreRelated` - `[]RelatedMatch`;
* `ReuseIsBounded` - `[]BoundedReuse`;
* `TableImplementsOutstanding` - `Spec => OneOutstanding`;
* `NewestIsFound` - `[]Findable`.

The assumptions are the module's: `Ttl` is a positive integer, `Decode` maps raw payloads to
texts, and `None` is neither a raw payload nor an entry. TLC evaluates them on the instance.

The argument. `TypeOK` says nothing of which publish an entry belongs to, so neither
freshness nor the refinement is inductive alone. `IInv` adds `TableOfNewest` (every
entry belongs to the newest publish, has its expiry, and lies under one of its keys) and
`PublishedInThePast`. The latter is what makes a publish purge everything: an older entry
expires no later than the new one. `MatchesAreFresh` and `MatchesAreRelated` follow from `IInv` and two
lemmas on topics (related topics share their related topics; every candidate of a lookup is related).
For `BoundedReuse` the invariant is its sum: uses so far plus entries that remain. A hit
moves one from the second to the first (`HitConsumes`), a publish starts with at most two entries
per related topic (`RegisterKeysFinite`), everything else only removes entries.
The refinement then needs `CreditInv`: a hit shows that an entry of the newest publish remains, so
its credit is not used up.

`Findable` is a lower bound on the entries, and the sum that bounds reuse from above is exact here: while the newest publish is fresh, its uses plus its
remaining entries equal the number of its keys (`NoneLost`). A hit trades one entry for one use, a miss and the clock take none. Fewer uses than related topics then leave
more entries than the keys a message with another payload cannot reach, so by counting one is left under its payload or the wildcard, and every candidate of a lookup on a
related topic is reached (`RemainingIsFound`).

`WsCommandsProofs`, for every set of commands and every number of installations and registrations:

* `TypeCorrect` - `[]TypeOK`, with the fact that no registered command is ever without a handler;
* `UnloadLeavesAsRegistered` - `[]AsRegistered`;
* `SpansPerMessageAreExact` - `[]SpansPerMessage`;
* `NewestIsInForce` - `[]NewestInForce`.

`AsRegistered` speaks only of the time when nothing is installed, so it is not inductive. The invariant adds what holds while
tracing is installed: everything that is saved is as some registration left it (`SavedAsLeft`), and so is every handler for whose
command nothing is saved (`RestAsLeft`). An installation moves the second fact into the first, an uninstall
moves both back.

For the number of spans one has to know which `traced_handler`s are around a handler after any number of reloads. The invariant (`LayersInv`) is that a handler
the installation wrapped carries its layer over what registrations left that asked an earlier hook or none (`EarlierHooks`), and that whatever
else is in the table was registered since: what is registered while tracing is never among what the installation saved.

For `NewestInForce`, what is saved for a command is the newest of its registrations that are there to stay, and a command nothing is saved
for has only registrations made since the installation (`SavedInForce`). With `DuringEarlier`, that no registration names an installation
to come, an uninstall moves the first fact to the table and leaves the second as it is.

`LifecycleProofs`, for any number of runtimes: `TypeCorrect`, `NeverWrappedTwice`, `UnloadRestoresAll`, `HooksAlwaysExport` and `LoadedEntryIsHooked`, the five
invariants of `Lifecycle`, and `PatchesAreOneSwitch` (`Spec => OneSwitch`). The inductive invariant (`Shape`) is that what is installed is either nothing, or
belongs to one live runtime, includes every hook placed before the last await and determines each patched function's wrappers and what is saved of it. `SetupInv`
and `EntryInv` say which of these goes with which await and which state of the entry. A failed setup's left-overs are the second case with no entry
loaded; that they block the next setup is what keeps `WrappedOnce` true. `HandlerInv` adds what is around a handler: what it was registered with, which is nothing or one
wrapper of some installation, and, exactly while its hook holds it as saved, what that hook has on the function through which
handlers are registered, so again one wrapper or none. A route's is only saved if it was registered without.
The refinement reads the tracers of all patched functions off `Shape`: none, or one runtime's, so an installation is `SwitchOn` or `Join`, an unload `SwitchOff`, and
a shutdown finds nothing in place. Every other step stutters.

`ConfigFlowProofs`, for any headers and inputs: `ConfigTypeCorrect`, `SetupHasStored` (`[]LoadedWithStored`),
`ConfigFlowIsLifecycle` (a behaviour with settings and flows is one of `Lifecycle`: each step is a step of it or leaves its variables alone) and, from that,
`ConfiguredEntryIsSafe`: the five invariants and `OneSwitch` hold of the composition.

`RestRoutesProofs`, for any routes, any set of ids and any number of installations: `TypeCorrect`, `NeverTwoSpans`, `UninstallPutsBack`, `ApiRoutesAreTraced`. The
invariant adds that an id in `traced` is there as long as a wrapper with it is in place (`KnownWhenWrapped`), that originals and wrappers never share one
(`IdsDiffer`), and that what a patch holds is what was registered (`PatchInv`). `IdsDiffer` is why discarding the wrong ids does no worse than
it does.

`MqttFlowProofs`, for any topics, payloads, devices and bounds: `FlowIsCorrelation` (the flow implements `MqttCorrelation`), `FlowTypeCorrect`,
`ParentsAreNewEnough` (`[]NeverOlderParent`), `TaggedMessagesAreExact` (`[]TaggedIsExact`). The refinement brings the table's invariant
over, in which every entry is the newest publish's; a message's cause is at most that. `FlowKeepsTable` states that all that is proved of the
table holds with the broker and its clients, and `AwaitedMessagesAreTraced` (`UntaggedIsTraced`) uses `Findable` of it: where a publish can be found, `Receive` does
not miss, and with one publish outstanding there is one answer.

`EventMessagesProofs`, for any events, calls, limits and cache sizes: `TypeCorrect`, `FieldsAreTheEvents` (`[]SentNamesEvent`), `TracedEventsAreSentTraced`,
`UntracedWithoutHooks`. The invariant: a context's carrier names a span that was fired for it (`ContextsNameSpans`), no older than any
event of the context (`EventsHaveFields`), and so does every entry of the integration's cache (`CacheIsRight`), which is what keeps an entry right while the context goes on, and of Home
Assistant's (`DiffsNameEvents`), except that these may also have none and that no installation or removal empties it. One set of lemmas on hits and misses serves both.

Two more theorems of it are about the attributes, for any data: `AttributesAreLimited` (`[]BoundedAttributes`) and `SpansOfACallAgree` (`[]CallSpansAgree`). The first goes
helper by helper: what each puts into a record of limited attributes leaves it limited. What the code does not cut is limited by Home Assistant: event types have at most 64
characters (`KindsAssumption`), domain and service of a call are strings within the limit, since only services that were registered are run (`CallsAssumption`), and ids of contexts have 26; `LengthAssumption`
says that the limit, 256 in `const.py`, is at least 64. For the second, the spans of the message, the event and the service are each compared with one account of the call (`Account`, `AgreesWith`) instead
of with one another; two that agree with it cannot contradict each other. Agreement is exact for a call written in lower case, where the rewriting on the way changes nothing
(`EntityInLowerCase`), and up to letter case otherwise (`LowerTwice`); both are one proof, with `exact` as a parameter. The account exists unless the message names its entity twice, which is the exception the property
makes (`NamesTwice`).

`ContextLinkingProofs`, for any tasks, any carriers and all bounds: `TypeCorrect`, `LinksAgree` (`[]LinkAgreement`), `TracesFollowCauses`
(`[]TraceFollowsCause`) and `TracestatesStay` (`[]TracestateStays`). Only `LinkAgreement` is nearly inductive. For the traces, a cause is said to be
claimed for a trace (`Claims`) by its linked spans and by every recording span that is current, or will be again, for a context of the
cause: a child of that span would be in its trace. The invariant is that claims agree (`ClaimsAgree`). A step can break that only by beginning a new trace for a cause that
something claims, and what excludes it is the rest of `IInv`:

* a linked span of a cause leaves a readable carrier on the cause's first context (`LinkedIsCarried`, of which there is one, `OneParentless`), and child contexts find it through the
  registry (`ContextsRefer`), so `Resolve` has a parent;
* a request that has not asked for its context is the only one that works for its cause (`RequestsAreNew`);
* the one recording span that claims a cause without being linked to it is that of a contextless event (`UnlinkedClaims`). It is open only on the call stack
  (`UnlinkedAreOpen`), and above it every current span records (`Sheltered`), so nothing above begins a trace at all; nothing below runs before it has ended.

`FramesNest` and `StackIsRunning` are what these say of with-blocks and the stack; `ContextTracestates` carries `TracestateStays` over the time between storing a
carrier and linking a span. The proof takes the steps apart by structure (`Struct`: the stack, the with-blocks and the shelter) and by causes (`Causal`), with a lemma for each
way a step can change them.

Only model-checked: the two liveness properties (`MqttGetsTraced`, `StoredIsUsed`), whose fairness the prover does not handle. Every invariant, action property
and refinement of a passing run is a theorem. The other runs are counterexamples.

## 6. Not modelled

* Batching, export and sampling belong to the OpenTelemetry SDK. `redact_endpoint` has no caller in the integration; `const.py`, translations and the
  development environment have no behaviour.
* `span_attributes.py`: the attributes of MQTT messages, REST requests and WebSocket commands other than `call_service` copy and truncate their
  arguments, and nothing depends on them; `hass.event.origin` and `return_response` likewise.
* tracestate in MQTT messages and serialized events, where it is copied next to the traceparent; what becomes of it on contexts and spans is in `ContextLinking`.
* The process-wide tracer provider, which the integration sets and never uses.
* In `BoundedAttributes`: the user of a context, whose id is Home Assistant's. In `Processed`: blanks around ids that a client lists in one string with commas; no difference but that of case is made of them.
* Spans that are open across an unload. Their tracer's provider is shut down with or before them; whether the SDK exports them is its own affair.
* The removal of an entry, and more than one flow of a source at a time (`single_config_entry`; Home Assistant starts one reauthentication).
* White space around endpoints and protocols; a header that is only white space is modelled.
* Home Assistant, the broker, the clients and the event loop appear as the code uses them and are marked external in the map.

## 7. What is left

The order of the work was that of what the integration is for: which trace a message or an event belongs to, whether the hooks are where they should be, then
what travels through them. What a further step would take up: the
composition of `ContextLinking` with `Lifecycle`, for spans that are open when the hooks go, and the hazards that no property covers: the growth of
the context registry, jobs taken up inside another cause's recording span, providers of setups that fail, and a reauthentication that
works on settings which have changed since.
