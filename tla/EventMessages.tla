--------------------------- MODULE EventMessages ---------------------------
(* An event from where it is fired to the WebSocket clients that hear of it *)
(* (event_tracing.py, websocket_event_propagation.py): its span, and the    *)
(* W3C fields in the three kinds of message that are made of it.  The       *)
(* fields are read from the context when a message is made; by then other   *)
(* events may have been fired for the same context, and tracing may have    *)
(* been removed or installed again.                                         *)
EXTENDS SpanAttributes

CONSTANTS
    Kinds,          \* bound: what events are, a set of [type, data] records
    Calls,          \* bound: the call_service messages of clients
    MaxSpans,       \* bound: event spans in a behaviour
    MaxContexts,    \* bound: Home Assistant contexts in a behaviour
    MaxEvents,      \* bound: events in a behaviour
    MaxBefore,      \* bound: events before a client calls a service
    CacheSize,      \* lru_cache(maxsize=...)
    DiffCacheSize   \* the same of Home Assistant's cache of differences

ASSUME EventMessagesAssumption ==
    /\ MaxSpans \in Nat /\ MaxContexts \in Nat
    /\ MaxEvents \in Nat /\ MaxBefore \in Nat
    /\ CacheSize \in Nat \ {0} /\ DiffCacheSize \in Nat \ {0}

(* EventBus.async_fire refuses a type that is too long.                     *)
ASSUME KindsAssumption ==
    \A kind \in Kinds : Is(kind.type, "str") /\ kind.type.length \in 0 .. MaxEventType

(* A call that makes the three spans is of a registered service: what it is *)
(* named by is no longer than an attribute.                                 *)
ASSUME CallsAssumption ==
    \A msg \in Calls : \A name \in {msg.domain, msg.service} :
        Is(name, "str") /\ name.length <= MaxLength

VARIABLES
    installed,      \* whether the hooks of events and messages are installed
    contexts,       \* of every context: its parent, and its cached traceparent
    spans,          \* of every event span: the context it was fired for
    events,         \* of every event: its context and span, and its cached dict
    cache,          \* traced_partial_cached_event_message: oldest entry first
    diffs,          \* _partial_cached_state_diff_message, Home Assistant's own
    sent,           \* the message the last step made for a client, if it did
    said            \* what the spans say that the last step made, and for which call

vars == <<installed, contexts, spans, events, cache, diffs, sent, said>>

None == 0           \* no span, no context of the caller's

Fired == [context : 1 .. MaxContexts, given : BOOLEAN, span : 0 .. MaxSpans,
          stateChange : BOOLEAN, dict : 0 .. MaxSpans]
Sent  == [event : 0 .. MaxEvents, path : {"none", "plain", "cached", "diff", "kept"},
          hooked : BOOLEAN, traceparent : 0 .. MaxSpans]

NothingSent == [event |-> 0, path |-> "none", hooked |-> FALSE, traceparent |-> None]

(* The attributes of the spans of one step; the call they are of, if any.   *)
Said(msg, spans_) == [call |-> msg, spans |-> spans_]
NothingSaid       == Said(Absent, {})

Init == /\ installed \in BOOLEAN
        /\ contexts = <<>> /\ spans = <<>> /\ events = <<>>
        /\ cache = <<>> /\ diffs = <<>>
        /\ sent = NothingSent
        /\ said = NothingSaid

-----------------------------------------------------------------------------
(* Firing                                                                   *)

(* The id of a context, a ULID.                                             *)
Ulid(c) == Str(c, Absent, 26)

ContextOf(c) ==
    [id |-> Ulid(c), user |-> Absent,
     parent |-> IF contexts[c].parent = None THEN Absent ELSE Ulid(contexts[c].parent)]

LinkedMutant(known, c, s) == IF known[c].traceparent # None THEN known
                             ELSE [known EXCEPT ![c].traceparent = s]

(* store_linked_span_context on entering the event's span: its carrier      *)
(* replaces the one of the span before.                                     *)
Linked(known, c, s) == [known EXCEPT ![c] = [parent |-> @.parent, traceparent |-> s]]

(* Home Assistant makes a context now and then: a child or not.             *)
NewContext(parent) ==
    /\ Len(contexts) < MaxContexts
    /\ contexts' = Append(contexts, [parent |-> parent, traceparent |-> None])
    /\ sent' = NothingSent /\ said' = NothingSaid
    /\ UNCHANGED <<installed, spans, events, cache, diffs>>

StateChange(kind) == Named(kind.type, "state_changed")

(* traced_async_fire_internal with a context, or the original.              *)
Fire(kind, c) ==
    LET s == IF installed THEN Len(spans) + 1 ELSE None IN
    /\ Len(events) < MaxEvents
    /\ s <= MaxSpans
    /\ spans' = IF installed THEN Append(spans, c) ELSE spans
    /\ contexts' = IF installed THEN Linked(contexts, c, s) ELSE contexts
    /\ events' = Append(events, [context |-> c, given |-> TRUE, span |-> s,
                                 stateChange |-> StateChange(kind), dict |-> None])
    /\ said' = Said(Absent, IF installed THEN {EventAttributes(kind.type, ContextOf(c), kind.data)}
                            ELSE {})
    /\ sent' = NothingSent
    /\ UNCHANGED <<installed, cache, diffs>>

(* Without one: the bus gives the event a context of its own, which the     *)
(* wrapper never sees.  A state change always comes with a context.         *)
FireContextless(kind) ==
    LET s == IF installed THEN Len(spans) + 1 ELSE None
        c == Len(contexts) + 1
    IN  /\ ~StateChange(kind)
        /\ Len(events) < MaxEvents
        /\ s <= MaxSpans /\ c <= MaxContexts
        /\ spans' = IF installed THEN Append(spans, None) ELSE spans
        /\ contexts' = Append(contexts, [parent |-> None, traceparent |-> None])
        /\ events' = Append(events, [context |-> c, given |-> FALSE, span |-> s,
                                     stateChange |-> FALSE, dict |-> None])
        /\ said' = Said(Absent, IF installed THEN {EventAttributes(kind.type, Absent, kind.data)}
                                ELSE {})
        /\ sent' = NothingSent
        /\ UNCHANGED <<installed, cache, diffs>>

(* What a service's schema makes of the entities it is called with: their   *)
(* ids in lower case, those of a string in a list or, where one id is asked *)
(* for, as a string; a service without a schema gets what was sent.         *)
Processed(entity) ==
    {entity} \cup
    IF Is(entity, "str") THEN {Lower(entity), List(<<Lower(entity)>>)}
    ELSE IF Is(entity, "list")
         THEN {List([i \in DOMAIN entity.items |-> Lower(entity.items[i])])}
    ELSE {}

(* A client calls a service: Home Assistant merges the target into the      *)
(* data, fires call_service with that, and with the domain and the service  *)
(* in lower case, and runs the service with what its schema makes of it.    *)
(* The spans are the command's, the event's, the service's.                 *)
CallService(msg, c) ==
    LET merged  == Update(IF Is(Get(msg, "service_data"), "dict") THEN msg["service_data"].of
                          ELSE NoAttributes,
                          IF Is(Get(msg, "target"), "dict") THEN msg["target"].of
                          ELSE NoAttributes)
        domain  == Lower(msg.domain)
        service == Lower(msg.service)
        data    == [domain |-> domain, service |-> service, service_data |-> Dict(merged)]
    IN  /\ installed /\ Len(events) <= MaxBefore
        /\ \E entity \in Processed(Get(merged, "entity_id")) :
              said' = Said(msg,
                  {WebsocketCallAttributes(msg),
                   EventAttributes(Str("call_service", Absent, 12), ContextOf(c), Dict(data)),
                   ServiceCallAttributes(ContextOf(c),
                       [domain |-> domain, service |-> service,
                        data |-> Put(merged, "entity_id", entity)])})
        /\ sent' = NothingSent
        /\ UNCHANGED <<installed, contexts, spans, events, cache, diffs>>

-----------------------------------------------------------------------------
(* Messages                                                                 *)

FieldsOfMutant(e) ==
    LET parent == contexts[events[e].context].parent
    IN  contexts[IF parent = None THEN events[e].context ELSE parent].traceparent

(* trace_carrier_from_ha_context of the event's context, as it is now.      *)
FieldsOf(e) == contexts[events[e].context].traceparent

(* event_dict_with_trace_context: the fields in a copy of the event's dict. *)
Enriched(e) == IF FieldsOf(e) # None THEN FieldsOf(e) ELSE events[e].dict

EventsAfterMutant(e) == [events EXCEPT ![e].dict = Enriched(e)]

(* The dict that the event itself keeps stays what it was.                  *)
EventsAfter(e) == events

Made(e, path, traceparent) ==
    sent' = [event |-> e, path |-> path, hooked |-> installed, traceparent |-> traceparent]

(* event_message, for one subscriber.                                       *)
SendPlain(e) ==
    /\ Made(e, "plain", IF installed THEN Enriched(e) ELSE events[e].dict)
    /\ events' = IF installed THEN EventsAfter(e) ELSE events
    /\ said' = NothingSaid
    /\ UNCHANGED <<installed, contexts, spans, cache, diffs>>

(* An lru_cache of messages: where that for an event is, and the two ways   *)
(* of using it.  A hit is moved to the end; a miss makes room by dropping   *)
(* the oldest entry.                                                        *)
At(kept, e) == {i \in DOMAIN kept : kept[i].event = e}

HitAt(kept, i) ==
    Append(SubSeq(kept, 1, i - 1) \o SubSeq(kept, i + 1, Len(kept)), kept[i])

MissMutant(kept, size, e, traceparent) ==      \* lru_cache(maxsize=None)
    Append(kept, [event |-> e, traceparent |-> traceparent])

Miss(kept, size, e, traceparent) ==
    Append(IF Len(kept) = size THEN Tail(kept) ELSE kept, [event |-> e, traceparent |-> traceparent])

(* _partial_cached_event_message, patched over with a cache of its own.     *)
SendCached(e) ==
    /\ \/ \E i \in At(cache, e) :
             /\ installed
             /\ Made(e, "cached", cache[i].traceparent)
             /\ cache' = HitAt(cache, i)
             /\ UNCHANGED events
       \/ /\ installed /\ At(cache, e) = {}
          /\ Made(e, "cached", Enriched(e))
          /\ cache' = Miss(cache, CacheSize, e, Enriched(e))
          /\ events' = EventsAfter(e)
       \/ /\ ~installed
          /\ Made(e, "cached", events[e].dict)
          /\ UNCHANGED <<cache, events>>
    /\ said' = NothingSaid
    /\ UNCHANGED <<installed, contexts, spans, diffs>>

(* traced_state_diff_event: the fields join the context, if the difference  *)
(* has one at all; an entity that is new is not a difference.               *)
DiffOf(e, contextDiffers) == IF installed /\ contextDiffers THEN FieldsOf(e) ELSE None

(* Home Assistant calls the patched _state_diff_event for what it has not   *)
(* in its cache of differences, which knows nothing of the hooks.           *)
SendDiff(e, contextDiffers) ==
    /\ events[e].stateChange
    /\ \/ \E i \in At(diffs, e) :
             /\ Made(e, "kept", diffs[i].traceparent)
             /\ diffs' = HitAt(diffs, i)
       \/ /\ At(diffs, e) = {}
          /\ Made(e, "diff", DiffOf(e, contextDiffers))
          /\ diffs' = Miss(diffs, DiffCacheSize, e, DiffOf(e, contextDiffers))
    /\ said' = NothingSaid
    /\ UNCHANGED <<installed, contexts, spans, events, cache>>

-----------------------------------------------------------------------------
(* install_websocket_event_propagation: every installation has its cache.   *)
Install == /\ ~installed /\ installed' = TRUE
           /\ cache' = <<>>
           /\ sent' = NothingSent /\ said' = NothingSaid
           /\ UNCHANGED <<contexts, spans, events, diffs>>

Uninstall == /\ installed /\ installed' = FALSE
             /\ cache' = <<>>
             /\ sent' = NothingSent /\ said' = NothingSaid
             /\ UNCHANGED <<contexts, spans, events, diffs>>

Next == \/ \E parent \in {None} \cup DOMAIN contexts : NewContext(parent)
        \/ \E kind \in Kinds : FireContextless(kind) \/ \E c \in DOMAIN contexts : Fire(kind, c)
        \/ \E msg \in Calls, c \in DOMAIN contexts : CallService(msg, c)
        \/ \E e \in DOMAIN events :
              \/ SendPlain(e) \/ SendCached(e)
              \/ \E contextDiffers \in BOOLEAN : SendDiff(e, contextDiffers)
        \/ Install \/ Uninstall

Spec == Init /\ [][Next]_vars

-----------------------------------------------------------------------------
(* Types.                                                                   *)
TypeOK ==
    /\ installed \in BOOLEAN
    /\ contexts \in Seq([parent : 0 .. MaxContexts, traceparent : 0 .. MaxSpans])
    /\ spans \in Seq(0 .. MaxContexts)
    /\ events \in Seq(Fired)
    /\ cache \in Seq([event : 1 .. MaxEvents, traceparent : 0 .. MaxSpans])
    /\ Len(cache) <= CacheSize
    /\ diffs \in Seq([event : 1 .. MaxEvents, traceparent : 0 .. MaxSpans])
    /\ Len(diffs) <= DiffCacheSize
    /\ sent \in Sent

(* The fields a client is sent with an event name a span of that event's    *)
(* context, and none older than the event's own: neither a cache, be it one *)
(* that outlives the hooks, nor a context that went on to other events      *)
(* hands out another trace's fields or outdated ones.                       *)
SentNamesEvent ==
    sent.traceparent # None =>
        /\ spans[sent.traceparent] = events[sent.event].context
        /\ sent.traceparent >= events[sent.event].span

(* An event that was fired for a context while tracing was installed does   *)
(* not reach a client without its fields, while tracing is installed.       *)
TracedEventIsSentTraced ==
    (sent.hooked /\ sent.path \in {"plain", "cached"}) =>
        LET e == events[sent.event] IN
        (e.given /\ e.span # None) => sent.traceparent # None

(* After the hooks are removed no message is made with trace fields, of no  *)
(* event, also of those that were sent with fields before.  The one that    *)
(* still has them is a difference that Home Assistant had kept; so its cache*)
(* undoes what "Remove websocket event propagation hooks." did.             *)
NoFieldsWithoutHooks ==
    (~sent.hooked /\ sent.traceparent # None) => sent.path = "kept"

(* What comes from a message, an event or a call is bounded in an attribute.*)
BoundedAttributes ==
    \A attributes \in said.spans : \A k \in DOMAIN attributes :
        attributes[k].type = "str" => attributes[k].length <= MaxLength

(* A message can name the entity twice; the target then wins in the call.    *)
NamesTwice(msg) ==
    \A part \in {"service_data", "target"} :
        Is(Get(msg, part), "dict") /\ "entity_id" \in DOMAIN msg[part].of

(* Nothing in the message is written with capitals.                         *)
InLowerCase(msg) ==
    LET Lowered(value) == value = Lower(value) IN
    /\ Lowered(msg.domain) /\ Lowered(msg.service)
    /\ \A part \in {"service_data", "target"} : Is(Get(msg, part), "dict") =>
          LET entity == Get(msg[part].of, "entity_id") IN
          /\ Lowered(entity)
          /\ Is(entity, "list") => \A i \in DOMAIN entity.items : Lowered(entity.items[i])

(* The spans of one call, made in three places from a message, an event and *)
(* a call whose entities take different forms, do not contradict each other *)
(* - unless the client's message names the entity twice - but in what they  *)
(* write with capitals, if the client did.                                  *)
CallSpansAgree ==
    said.call # Absent /\ ~NamesTwice(said.call) =>
        \A one, other \in said.spans : \A k \in DOMAIN one \cap DOMAIN other :
            IF InLowerCase(said.call) THEN one[k] = other[k]
            ELSE Lower(one[k]) = Lower(other[k])
=============================================================================
