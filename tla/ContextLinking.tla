-------------------------- MODULE ContextLinking --------------------------
(* How spans find their parents (context_linking.py, propagation.py and the *)
(* wrappers of event_tracing.py and service_tracing.py that use them).      *)
(*                                                                          *)
(* Home Assistant runs its tasks on one event loop.  A task has a current   *)
(* span (a contextvar, copied when the task is created) and works for a     *)
(* Home Assistant context.  An event is dispatched synchronously: its span  *)
(* is closed before the task yields, so a task that a listener started goes *)
(* on with a current span that has ended.  What still ties it to its trace  *)
(* is the W3C carrier in the context's cache and the context registry.      *)
(*                                                                          *)
(* A cause is a request, or a context nobody handed on.  Causes are history *)
(* the code does not have: the properties say that traces follow them.  A   *)
(* tracestate is known by the cause whose message brought it.               *)
EXTENDS Naturals, Sequences, FiniteSets

CONSTANTS
    Task,           \* asyncio tasks
    Carriers,       \* which carriers requests bring, a subset of AllCarriers
    MaxSpans,       \* bound: spans in a behaviour, remote ones included
    MaxContexts,    \* bound: Home Assistant contexts in a behaviour
    MaxDepth        \* bound: spans one task has open at a time

(* The W3C fields of a message.  Its traceparent: none, an unreadable one, a *)
(* remote span that is sampled, one that is not; and whether it brings a     *)
(* tracestate.                                                              *)
AllCarriers == {"none", "bad", "sampled", "unsampled"} \X BOOLEAN
Remote      == {"sampled", "unsampled"}

ASSUME ContextLinkingAssumption ==
    /\ Carriers \subseteq AllCarriers
    /\ MaxSpans \in Nat /\ MaxContexts \in Nat /\ MaxDepth \in Nat

None == 0           \* no span, context or tracestate: None, the invalid span
Bad  == MaxSpans + 1    \* a traceparent no span context can be read from

VARIABLES
    spans,          \* every span started, and the remote ones callers named
    contexts,       \* every Home Assistant context, with its _cache
    registry,       \* hass.data[CONTEXT_REGISTRY_KEY]: context -> linked span
    task,           \* what each task is doing
    running,        \* the tasks on the Python call stack, the innermost last
    causes          \* history: how many causes there have been

vars == <<spans, contexts, registry, task, running, causes>>

SpanIds    == 1 .. MaxSpans
ContextIds == 1 .. MaxContexts

Span    == [trace : SpanIds, sampled : BOOLEAN, open : BOOLEAN,
            tracestate : Nat, cause : Nat, linked : BOOLEAN]
Context == [parent : ContextIds \cup {None}, traceparent : SpanIds \cup {None, Bad},
            tracestate : Nat, otel : SpanIds \cup {None}, carried : BOOLEAN,
            cause : Nat]
Frame   == [span : SpanIds, before : SpanIds \cup {None},
            context : ContextIds \cup {None}, sync : BOOLEAN]
TaskState == [status : {"unused", "running", "waiting", "done"},
              current : SpanIds \cup {None},        \* trace.get_current_span()
              context : ContextIds \cup {None},     \* the context it works for
              carrier : SpanIds \cup {None, Bad},   \* the traceparent of its request
              tracestate : Nat,                     \* the tracestate of its request
              request : BOOLEAN,                    \* may ask for its request's context
              open    : Seq(Frame)]                 \* its with-blocks, innermost last

Idle == [status |-> "unused", current |-> None, context |-> None,
         carrier |-> None, tracestate |-> None, request |-> FALSE, open |-> <<>>]

-----------------------------------------------------------------------------
(* Spans                                                                    *)

(* Definitions named ...Mutant are plausible faults of the definition that  *)
(* follows them; no specification uses them.                                *)

(* Span.is_recording(): a sampled span that has not ended.                  *)
Recording(s) == s # None /\ spans[s].sampled /\ spans[s].open

(* get_span_context().is_valid of what extract() reads from a traceparent.  *)
Readable(traceparent) == traceparent \in 1 .. Len(spans)

(* What a new span takes from its parent: a span, and a tracestate that may *)
(* have come from elsewhere than the span.                                  *)
From(parent, tracestate) == [span |-> parent, tracestate |-> tracestate]
Root                     == From(None, None)

(* tracer.start_span with the default sampler: a root is sampled, a child   *)
(* has its parent's trace, decision and tracestate.                         *)
ChildOf(known, parent, cause, linked) ==
    [trace      |-> IF parent.span = None THEN Len(known) + 1
                    ELSE known[parent.span].trace,
     sampled    |-> parent.span # None => known[parent.span].sampled,
     open       |-> TRUE,
     tracestate |-> parent.tracestate,
     cause      |-> cause,
     linked     |-> linked]

RemoteSpan(sampled, tracestate, cause) ==
    [trace |-> Len(spans) + 1, sampled |-> sampled, open |-> FALSE,
     tracestate |-> tracestate, cause |-> cause, linked |-> TRUE]

(* lookup_parent_span_context                                               *)
LookupParent(c) ==
    IF c \in DOMAIN registry THEN registry[c]
    ELSE IF contexts[c].parent \in DOMAIN registry THEN registry[contexts[c].parent]
    ELSE contexts[c].otel

SpanContext(s) == IF s = None THEN Root ELSE From(s, spans[s].tracestate)

ResolveEndedMutant(t, c) ==
    IF task[t].current # None THEN SpanContext(task[t].current)
    ELSE IF c = None THEN Root
    ELSE IF Readable(contexts[c].traceparent)
         THEN From(contexts[c].traceparent, contexts[c].tracestate)
    ELSE SpanContext(LookupParent(c))

ResolveTraceparentMutant(t, c) ==
    IF Recording(task[t].current) THEN SpanContext(task[t].current)
    ELSE IF c = None THEN Root
    ELSE IF Readable(contexts[c].traceparent) THEN From(contexts[c].traceparent, None)
    ELSE SpanContext(LookupParent(c))

(* resolve_span_creation_context: the parent of a span that task t starts   *)
(* for context c.                                                           *)
Resolve(t, c) ==
    IF Recording(task[t].current) THEN SpanContext(task[t].current)
    ELSE IF c = None THEN Root
    ELSE IF Readable(contexts[c].traceparent)
         THEN From(contexts[c].traceparent, contexts[c].tracestate)
    ELSE SpanContext(LookupParent(c))

-----------------------------------------------------------------------------
(* Contexts                                                                 *)

(* A field that is absent overwrites nothing.                               *)
Kept(field, old) == IF field = None THEN old ELSE field

(* store_linked_span_context: the span context and the carrier inject()     *)
(* makes of the span.                                                       *)
Linked(context, s, tracestate) ==
    [context EXCEPT !.otel        = s,
                    !.traceparent = s,
                    !.tracestate  = Kept(tracestate, @)]

Register(c, s) == [x \in DOMAIN registry \cup {c} |-> IF x = c THEN s ELSE registry[x]]

NewContext(parent, cause) ==
    [parent |-> parent, traceparent |-> None, tracestate |-> None, otel |-> None,
     carried |-> FALSE, cause |-> cause]

(* store_trace_carrier_on_context                                           *)
StoreCarrier(context, traceparent, tracestate) ==
    [context EXCEPT !.traceparent = Kept(traceparent, @),
                    !.tracestate  = Kept(tracestate, @)]

RequestCacheMutant(t, fresh) ==
    StoreCarrier(IF Recording(task[t].current)
                 THEN Linked(fresh, task[t].current, spans[task[t].current].tracestate)
                 ELSE fresh,
                 task[t].carrier, task[t].tracestate)

RequestCacheUncheckedMutant(t, fresh) ==
    [StoreCarrier(fresh, task[t].carrier, task[t].tracestate)
        EXCEPT !.otel = task[t].carrier]

(* traced_connection_context and traced_view_context: the message's carrier *)
(* is stored first, then the current span is linked over it if it records.  *)
RequestCache(t, fresh) ==
    LET stored == StoreCarrier(fresh, task[t].carrier, task[t].tracestate) IN
    IF Recording(task[t].current)
    THEN Linked(stored, task[t].current, spans[task[t].current].tracestate)
    ELSE stored

-----------------------------------------------------------------------------
(* The event loop                                                           *)

Runs(t) == running # <<>> /\ running[Len(running)] = t

Pop(stack) == SubSeq(stack, 1, Len(stack) - 1)

InSyncBlock(t) == \E i \in DOMAIN task[t].open : task[t].open[i].sync

Init == /\ spans = <<>>
        /\ contexts = <<>>
        /\ registry = [c \in {} |-> None]
        /\ task = [t \in Task |-> Idle]
        /\ running = <<>>
        /\ causes = 0

(* A WebSocket command or an HTTP request arrives and its handler runs in   *)
(* a span made from the carrier alone (span_creation_context_from_carrier). *)
Request(t, traceparent, brings) ==
    LET tracestate == IF brings THEN causes + 1 ELSE None
        named  == IF traceparent \in Remote
                  THEN Append(spans, RemoteSpan(traceparent = "sampled", tracestate,
                                                causes + 1))
                  ELSE spans
        parent == IF traceparent \in Remote THEN From(Len(named), tracestate) ELSE Root
        id     == Len(named) + 1
    IN  /\ running = <<>>
        /\ task[t].status = "unused"
        /\ id <= MaxSpans
        /\ spans' = Append(named, ChildOf(named, parent, causes + 1, TRUE))
        /\ task' = [task EXCEPT ![t] =
              [status  |-> "running", current |-> id, context |-> None,
               carrier |-> IF traceparent = "bad" THEN Bad ELSE parent.span,
               tracestate |-> tracestate,
               request |-> TRUE,
               open    |-> <<[span |-> id, before |-> None, context |-> None,
                              sync |-> FALSE]>>]]
        /\ running' = <<t>>
        /\ causes' = causes + 1
        /\ UNCHANGED <<contexts, registry>>

(* connection.context(msg) or self.context(request): a new context, which   *)
(* the handler works for from now on.                                       *)
RequestContext(t) ==
    LET c == Len(contexts) + 1 IN
    /\ Runs(t)
    /\ task[t].request /\ Len(task[t].open) = 1
    /\ c <= MaxContexts
    /\ contexts' = Append(contexts,
           RequestCache(t, NewContext(None, spans[task[t].open[1].span].cause)))
    /\ registry' = IF Recording(task[t].current)
                   THEN Register(c, task[t].current) ELSE registry
    /\ task' = [task EXCEPT ![t].context = c, ![t].request = FALSE]
    /\ UNCHANGED <<spans, running, causes>>

(* A timer or a device callback: a task with no span and a new context.     *)
Background(t) ==
    LET c == Len(contexts) + 1 IN
    /\ running = <<>>
    /\ task[t].status = "unused"
    /\ c <= MaxContexts
    /\ contexts' = Append(contexts, NewContext(None, causes + 1))
    /\ causes' = causes + 1
    /\ task' = [task EXCEPT ![t] = [Idle EXCEPT !.status = "running", !.context = c]]
    /\ running' = <<t>>
    /\ UNCHANGED <<spans, registry>>

(* A span for task t is entered and becomes current; inside it the task     *)
(* works for context c.                                                     *)
Enter(t, s, c, sync) ==
    task' = [task EXCEPT
        ![t].current = s,
        ![t].context = c,
        ![t].open = Append(@, [span |-> s, before |-> task[t].current,
                               context |-> task[t].context, sync |-> sync])]

(* Both wrappers resolve the parent, start the span and link the context.   *)
StartFor(t, c) ==
    LET s == Len(spans) + 1 IN
    /\ Runs(t)
    /\ c # None
    /\ s <= MaxSpans
    /\ Len(task[t].open) < MaxDepth
    /\ spans' = Append(spans, ChildOf(spans, Resolve(t, c), contexts[c].cause, TRUE))
    /\ registry' = Register(c, s)

(* traced_async_fire_internal for an event that has a context.              *)
FireEvent(t) ==
    LET c == task[t].context
        s == Len(spans) + 1
    IN  /\ StartFor(t, c)
        /\ contexts' = [contexts EXCEPT ![c] =
              [Linked(@, s, Resolve(t, c).tracestate) EXCEPT !.carried = TRUE]]
        /\ Enter(t, s, c, TRUE)
        /\ UNCHANGED <<running, causes>>

(* The same for an event without one: nothing is linked, and the listeners  *)
(* see a context that async_fire_internal makes up.                         *)
FireContextless(t) ==
    LET c == Len(contexts) + 1
        s == Len(spans) + 1
    IN  /\ Runs(t)
        /\ s <= MaxSpans /\ c <= MaxContexts
        /\ Len(task[t].open) < MaxDepth
        /\ spans' = Append(spans, ChildOf(spans, Resolve(t, None), None, FALSE))
        /\ contexts' = Append(contexts, NewContext(None, causes + 1))
        /\ causes' = causes + 1
        /\ Enter(t, s, c, TRUE)
        /\ UNCHANGED <<registry, running>>

(* traced_execute_service: the span stays open while the service awaits.    *)
CallService(t) ==
    LET c == task[t].context
        s == Len(spans) + 1
    IN  /\ StartFor(t, c)
        /\ contexts' = [contexts EXCEPT ![c] = Linked(@, s, Resolve(t, c).tracestate)]
        /\ Enter(t, s, c, FALSE)
        /\ UNCHANGED <<running, causes>>

(* The innermost with-block of the task is left.                            *)
EndSpan(t) ==
    LET frame == task[t].open[Len(task[t].open)] IN
    /\ Runs(t)
    /\ task[t].open # <<>>
    /\ spans' = [spans EXCEPT ![frame.span].open = FALSE]
    /\ task' = [task EXCEPT ![t].current = frame.before,
                            ![t].context = frame.context,
                            ![t].request = @ /\ Len(task[t].open) > 1,
                            ![t].open = Pop(@)]
    /\ UNCHANGED <<contexts, registry, running, causes>>

(* An automation answers what it was told with a context of its own, whose  *)
(* parent is the context of the event that triggered it.                    *)
ChildContext(t) ==
    LET c == Len(contexts) + 1
        p == task[t].context
    IN  /\ Runs(t)
        /\ p # None /\ c <= MaxContexts
        /\ contexts[p].carried
        /\ contexts' = Append(contexts, NewContext(p, contexts[p].cause))
        /\ task' = [task EXCEPT ![t].context = c]
        /\ UNCHANGED <<spans, registry, running, causes>>

(* A worker takes up a job somebody left for it, with the context that came *)
(* with the job.  What is current for the worker is whatever was current    *)
(* when the worker was started; a span that has ended, or none.             *)
TakeUp(t, c) ==
    /\ Runs(t)
    /\ task[t].open = <<>>
    /\ c # task[t].context
    /\ ~Recording(task[t].current)
    /\ task' = [task EXCEPT ![t].context = c]
    /\ UNCHANGED <<spans, contexts, registry, running, causes>>

(* A task is created eagerly: it inherits the current span and runs at once *)
(* on top of its creator.                                                   *)
Spawn(t, u) ==
    /\ Runs(t)
    /\ task[u].status = "unused"
    /\ task' = [task EXCEPT ![u] = [Idle EXCEPT !.status  = "running",
                                                !.current = task[t].current,
                                                !.context = task[t].context]]
    /\ running' = Append(running, u)
    /\ UNCHANGED <<spans, contexts, registry, causes>>

(* await: never inside the dispatch of an event.                            *)
Yield(t) ==
    /\ Runs(t)
    /\ ~InSyncBlock(t)
    /\ task' = [task EXCEPT ![t].status = "waiting"]
    /\ running' = Pop(running)
    /\ UNCHANGED <<spans, contexts, registry, causes>>

Resume(t) ==
    /\ running = <<>>
    /\ task[t].status = "waiting"
    /\ task' = [task EXCEPT ![t].status = "running"]
    /\ running' = <<t>>
    /\ UNCHANGED <<spans, contexts, registry, causes>>

Finish(t) ==
    /\ Runs(t)
    /\ task[t].open = <<>>
    /\ task' = [task EXCEPT ![t] = [Idle EXCEPT !.status = "done"]]
    /\ running' = Pop(running)
    /\ UNCHANGED <<spans, contexts, registry, causes>>

Next == \E t \in Task :
            \/ \E carrier \in Carriers : Request(t, carrier[1], carrier[2])
            \/ RequestContext(t)
            \/ Background(t)
            \/ FireEvent(t)
            \/ FireContextless(t)
            \/ CallService(t)
            \/ EndSpan(t)
            \/ ChildContext(t)
            \/ \E c \in DOMAIN contexts : TakeUp(t, c)
            \/ \E u \in Task : Spawn(t, u)
            \/ Yield(t)
            \/ Resume(t)
            \/ Finish(t)

Spec == Init /\ [][Next]_vars

-----------------------------------------------------------------------------
(* Types, and every reference names something that exists.                  *)
TypeOK ==
    /\ spans \in Seq(Span) /\ Len(spans) <= MaxSpans
    /\ contexts \in Seq(Context) /\ Len(contexts) <= MaxContexts
    /\ DOMAIN registry \subseteq DOMAIN contexts
    /\ \A c \in DOMAIN registry : registry[c] \in DOMAIN spans
    /\ task \in [Task -> TaskState]
    /\ running \in Seq(Task)
    /\ causes \in Nat

(* The three memories of a context agree: whoever asks the registry, the    *)
(* cached span context or the carrier that is sent to browsers with the     *)
(* events is told of the same span, in whatever order carriers were stored  *)
(* and spans were linked.                                                   *)
LinkAgreement ==
    \A c \in DOMAIN registry :
        /\ contexts[c].otel = registry[c]
        /\ contexts[c].traceparent = registry[c]

(* Everything done for one cause is in one trace: the spans of its request, *)
(* of the events and services of its contexts and of their child contexts,  *)
(* in whatever tasks they run and however long after the spans that started *)
(* these have ended.                                                        *)
TraceFollowsCause ==
    \A i, j \in DOMAIN spans :
        (spans[i].linked /\ spans[j].linked /\ spans[i].cause = spans[j].cause)
            => spans[i].trace = spans[j].trace

(* A tracestate goes with its trace: every span of a trace, and every       *)
(* carrier a context sends out, has the tracestate that the trace began     *)
(* with, although a carrier without one does not clear the one stored       *)
(* before it.  The one exception is a trace that had to begin without,      *)
(* because the traceparent of its request could not be read: it may take up *)
(* the tracestate of that request, never of another.                        *)
GoesWith(tracestate, trace) ==
    \/ tracestate = spans[trace].tracestate
    \/ spans[trace].tracestate = None /\ tracestate = spans[trace].cause

TracestateStays ==
    /\ \A i \in DOMAIN spans : GoesWith(spans[i].tracestate, spans[i].trace)
    /\ \A c \in DOMAIN contexts :
          Readable(contexts[c].traceparent)
              => GoesWith(contexts[c].tracestate, spans[contexts[c].traceparent].trace)
=============================================================================
