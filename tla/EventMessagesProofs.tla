------------------------ MODULE EventMessagesProofs ------------------------
(* Proofs about EventMessages for any events and calls, any number of       *)
(* contexts, spans and events, and every size of the two caches.            *)
EXTENDS EventMessages, SequenceTheorems, TLAPS

(* Fields that an event may be sent with: none, or those of a span of its   *)
(* context that is not older than the event's own span.                     *)
Naming(e, traceparent) ==
    /\ e \in DOMAIN events
    /\ traceparent # None =>
          /\ traceparent \in DOMAIN spans
          /\ spans[traceparent] = events[e].context
          /\ traceparent >= events[e].span

(* Fields that are right for an event: a traced one has some.               *)
RightFor(e, traceparent) ==
    /\ Naming(e, traceparent)
    /\ (events[e].given /\ events[e].span # None) => traceparent # None

Bounded == /\ Len(contexts) <= MaxContexts /\ Len(spans) <= MaxSpans
           /\ Len(events) <= MaxEvents

(* A context's fields name one of its spans.                                *)
ContextsNameSpans ==
    \A c \in DOMAIN contexts : contexts[c].traceparent # None =>
        /\ contexts[c].traceparent \in DOMAIN spans
        /\ spans[contexts[c].traceparent] = c

(* The fields of an event's context are right for it at any time, and the   *)
(* event's own dict never has any.                                          *)
EventsHaveFields ==
    \A e \in DOMAIN events : /\ events[e].context \in DOMAIN contexts
                             /\ events[e].dict = None
                             /\ RightFor(e, FieldsOf(e))
                             /\ events[e].span <= Len(spans)

(* What the cache keeps was right when it was made, and is still.           *)
CacheIsRight ==
    \A i \in DOMAIN cache : RightFor(cache[i].event, cache[i].traceparent)

(* What Home Assistant's cache keeps was made with or without hooks.        *)
DiffsNameEvents ==
    \A i \in DOMAIN diffs : Naming(diffs[i].event, diffs[i].traceparent)

SentIsRight ==
    /\ SentNamesEvent /\ TracedEventIsSentTraced /\ NoFieldsWithoutHooks

IInv == /\ TypeOK /\ Bounded
        /\ ContextsNameSpans /\ EventsHaveFields
        /\ CacheIsRight /\ DiffsNameEvents /\ SentIsRight

ContextType == [parent : 0 .. MaxContexts, traceparent : 0 .. MaxSpans]
CacheType   == [event : 1 .. MaxEvents, traceparent : 0 .. MaxSpans]

-----------------------------------------------------------------------------
(* What has happened, by number.                                            *)
LEMMA Lengths ==
    ASSUME TypeOK
    PROVE  /\ Len(contexts) \in Nat /\ DOMAIN contexts = 1 .. Len(contexts)
           /\ Len(spans) \in Nat /\ DOMAIN spans = 1 .. Len(spans)
           /\ Len(events) \in Nat /\ DOMAIN events = 1 .. Len(events)
           /\ Len(cache) \in Nat /\ DOMAIN cache = 1 .. Len(cache)
           /\ Len(diffs) \in Nat /\ DOMAIN diffs = 1 .. Len(diffs)
BY DEF TypeOK

LEMMA ElementTypes ==
    ASSUME TypeOK
    PROVE  /\ \A c \in DOMAIN contexts : contexts[c] \in ContextType
           /\ \A s \in DOMAIN spans : spans[s] \in 0 .. MaxContexts
           /\ \A e \in DOMAIN events : events[e] \in Fired
<1>1. contexts \in Seq(ContextType)
  BY DEF TypeOK, ContextType
<1>2. spans \in Seq(0 .. MaxContexts) /\ events \in Seq(Fired)
  BY DEF TypeOK
<1>3. \A c \in DOMAIN contexts : contexts[c] \in ContextType
  BY <1>1, ElementOfSeq
<1>4. \A e \in DOMAIN events : events[e] \in Fired
  BY <1>2, ElementOfSeq
<1>5. \A s \in DOMAIN spans : spans[s] \in 0 .. MaxContexts
  <2> DEFINE C == 0 .. MaxContexts
  <2>1. spans \in Seq(C)
    BY <1>2
  <2> HIDE DEF C
  <2>2. \A s \in DOMAIN spans : spans[s] \in C
    BY <2>1, ElementOfSeq
  <2> QED BY <2>2 DEF C
<1> QED BY <1>3, <1>4, <1>5

(* Nothing was sent by a step that is not a message.                        *)
LEMMA NothingSentIsRight ==
    NothingSent \in Sent
    /\ NothingSent.traceparent = None /\ NothingSent.path = "none"
BY EventMessagesAssumption DEF NothingSent, Sent, None

LEMMA InitIInv == Init => IInv
<1> SUFFICES ASSUME Init PROVE IInv
  OBVIOUS
<1>1. TypeOK /\ Bounded
  BY EventMessagesAssumption, NothingSentIsRight DEF Init, TypeOK, Bounded
<1>2. ContextsNameSpans /\ EventsHaveFields /\ CacheIsRight /\ DiffsNameEvents
  BY DEF Init, ContextsNameSpans, EventsHaveFields, CacheIsRight, DiffsNameEvents
<1>3. SentIsRight
  BY NothingSentIsRight
     DEF Init, SentIsRight, SentNamesEvent, TracedEventIsSentTraced, NoFieldsWithoutHooks
<1> QED BY <1>1, <1>2, <1>3 DEF IInv

-----------------------------------------------------------------------------
(* A history that goes on keeps what it has.                                *)
Grown(old, new) == \A i \in DOMAIN old : i \in DOMAIN new /\ new[i] = old[i]

LEMMA AppendGrows ==
    ASSUME NEW S, NEW seq \in Seq(S), NEW x \in S
    PROVE  /\ Append(seq, x) \in Seq(S) /\ Len(Append(seq, x)) = Len(seq) + 1
           /\ Grown(seq, Append(seq, x)) /\ Append(seq, x)[Len(seq) + 1] = x
           /\ DOMAIN Append(seq, x) = 1 .. Len(seq) + 1
BY AppendProperties DEF Grown

(* Fields that are right for an event stay right.                           *)
LEMMA RightStays ==
    ASSUME Grown(spans, spans'), Grown(events, events')
    PROVE  \A e, traceparent : /\ Naming(e, traceparent) => Naming(e, traceparent)'
                               /\ RightFor(e, traceparent) => RightFor(e, traceparent)'
BY DEF Naming, RightFor, Grown

(* So what the caches keep stays so, if they do not change.                 *)
LEMMA CachesStay ==
    ASSUME IInv, Grown(spans, spans'), Grown(events, events'), UNCHANGED <<cache, diffs>>
    PROVE  CacheIsRight' /\ DiffsNameEvents'
BY RightStays DEF IInv, CacheIsRight, DiffsNameEvents

(* A step that makes no message leaves nothing to be said of one.           *)
LEMMA NoMessageIsRight ==
    ASSUME sent' = NothingSent PROVE sent' \in Sent /\ SentIsRight'
BY NothingSentIsRight
   DEF SentIsRight, SentNamesEvent, TracedEventIsSentTraced, NoFieldsWithoutHooks

-----------------------------------------------------------------------------
(* A context that is new has no fields and no events.                       *)
LEMMA NewContextIInv ==
    ASSUME IInv, NEW parent \in {None} \cup DOMAIN contexts, NewContext(parent)
    PROVE  IInv'
<1> DEFINE new == [parent |-> parent, traceparent |-> None]
<1>1. /\ Len(contexts) < MaxContexts /\ contexts' = Append(contexts, new)
      /\ sent' = NothingSent
      /\ UNCHANGED <<installed, spans, events, cache, diffs>>
  BY DEF NewContext
<1>2. TypeOK /\ Len(contexts) \in Nat /\ DOMAIN contexts = 1 .. Len(contexts)
  BY Lengths DEF IInv
<1>3. new \in ContextType /\ new.traceparent = None
  <2>1. parent \in 0 .. MaxContexts
    BY <1>1, <1>2, EventMessagesAssumption DEF None
  <2> QED BY <2>1, EventMessagesAssumption DEF ContextType, None
<1> HIDE DEF new
<1>4. /\ contexts' \in Seq(ContextType) /\ Len(contexts') = Len(contexts) + 1
      /\ Grown(contexts, contexts') /\ contexts'[Len(contexts) + 1] = new
      /\ DOMAIN contexts' = 1 .. Len(contexts) + 1
  <2>1. contexts \in Seq(ContextType)
    BY <1>2 DEF TypeOK, ContextType
  <2> QED BY <1>1, <1>3, <2>1, AppendGrows
<1>5. TypeOK' /\ Bounded'
  BY <1>1, <1>2, <1>4, NoMessageIsRight, EventMessagesAssumption
     DEF IInv, TypeOK, Bounded, ContextType
<1>6. ContextsNameSpans'
  <2>1. \A c \in DOMAIN contexts' : c \in DOMAIN contexts \/ contexts'[c] = new
    BY <1>2, <1>4
  <2> QED BY <1>1, <1>3, <1>4, <2>1 DEF IInv, ContextsNameSpans, Grown
<1>7. \A e, traceparent : RightFor(e, traceparent) => RightFor(e, traceparent)'
  BY <1>1, RightStays DEF Grown
<1>8. EventsHaveFields'
  <2> SUFFICES ASSUME NEW e \in DOMAIN events
               PROVE  /\ events[e].context \in DOMAIN contexts' /\ events[e].dict = None
                      /\ RightFor(e, FieldsOf(e))' /\ events[e].span <= Len(spans)
    BY <1>1 DEF EventsHaveFields
  <2>1. FieldsOf(e)' = FieldsOf(e)
    BY <1>1, <1>4 DEF IInv, EventsHaveFields, FieldsOf, Grown
  <2> QED BY <1>4, <1>7, <2>1 DEF IInv, EventsHaveFields, Grown
<1>9. CacheIsRight' /\ DiffsNameEvents'
  BY <1>1, CachesStay DEF Grown
<1> QED BY <1>1, <1>5, <1>6, <1>8, <1>9, NoMessageIsRight DEF IInv

(* The event's span becomes the one its context names.                      *)
LEMMA LinkedFacts ==
    ASSUME TypeOK, NEW c \in DOMAIN contexts, NEW s \in 0 .. MaxSpans
    PROVE  /\ Linked(contexts, c, s) \in Seq(ContextType)
           /\ Len(Linked(contexts, c, s)) = Len(contexts)
           /\ DOMAIN Linked(contexts, c, s) = DOMAIN contexts
           /\ Linked(contexts, c, s)[c].traceparent = s
           /\ \A d \in DOMAIN contexts \ {c} : Linked(contexts, c, s)[d] = contexts[d]
<1> DEFINE new == [parent |-> contexts[c].parent, traceparent |-> s]
<1>1. contexts \in Seq(ContextType) /\ contexts[c] \in ContextType
  BY ElementTypes DEF TypeOK, ContextType
<1>2. new \in ContextType /\ new.traceparent = s
  BY <1>1 DEF ContextType
<1>3. Linked(contexts, c, s) = [contexts EXCEPT ![c] = new]
  BY DEF Linked
<1> HIDE DEF new
<1>4. c \in 1 .. Len(contexts) /\ DOMAIN contexts = 1 .. Len(contexts)
  BY <1>1
<1>5. /\ [contexts EXCEPT ![c] = new] \in Seq(ContextType)
      /\ Len([contexts EXCEPT ![c] = new]) = Len(contexts)
      /\ \A j \in 1 .. Len(contexts) :
            [contexts EXCEPT ![c] = new][j] = IF j = c THEN new ELSE contexts[j]
  BY <1>1, <1>2, <1>4, ExceptSeq
<1> QED BY <1>2, <1>3, <1>4, <1>5

(* Fire with tracing: the event's span and the context's fields are one     *)
(* step, the fields of other contexts and of earlier events stay.           *)
LEMMA TracedFireIInv ==
    ASSUME IInv, installed, NEW kind \in Kinds, NEW c \in DOMAIN contexts, Fire(kind, c)
    PROVE  IInv'
<1> DEFINE s == Len(spans) + 1
           new == [context |-> c, given |-> TRUE, span |-> s,
                   stateChange |-> StateChange(kind), dict |-> None]
<1>1. /\ Len(events) < MaxEvents /\ s <= MaxSpans
      /\ spans' = Append(spans, c) /\ contexts' = Linked(contexts, c, s)
      /\ events' = Append(events, new)
      /\ sent' = NothingSent /\ UNCHANGED <<installed, cache, diffs>>
  BY DEF Fire
<1>2. /\ TypeOK /\ Len(contexts) <= MaxContexts
      /\ Len(contexts) \in Nat /\ DOMAIN contexts = 1 .. Len(contexts)
      /\ Len(spans) \in Nat /\ DOMAIN spans = 1 .. Len(spans)
      /\ Len(events) \in Nat /\ DOMAIN events = 1 .. Len(events)
  BY Lengths DEF IInv, Bounded
<1>3. s \in 1 .. MaxSpans /\ c \in 1 .. MaxContexts
  BY <1>1, <1>2, EventMessagesAssumption
<1>4. /\ new \in Fired
      /\ new.context = c /\ new.given /\ new.span = s /\ new.dict = None
  BY <1>3, EventMessagesAssumption DEF Fired, None, StateChange, Named
<1> HIDE DEF new
<1>5. /\ contexts' \in Seq(ContextType) /\ Len(contexts') = Len(contexts)
      /\ DOMAIN contexts' = DOMAIN contexts
      /\ contexts'[c].traceparent = s
      /\ \A d \in DOMAIN contexts \ {c} : contexts'[d] = contexts[d]
  BY <1>1, <1>2, <1>3, LinkedFacts
<1>6. /\ spans' \in Seq(0 .. MaxContexts) /\ Len(spans') = s
      /\ Grown(spans, spans') /\ spans'[s] = c /\ DOMAIN spans' = 1 .. s
  <2>1. spans \in Seq(0 .. MaxContexts) /\ c \in 0 .. MaxContexts
    BY <1>2, <1>3 DEF TypeOK
  <2>2. /\ Append(spans, c) \in Seq(0 .. MaxContexts) /\ Len(Append(spans, c)) = s
        /\ Grown(spans, Append(spans, c)) /\ Append(spans, c)[s] = c
        /\ DOMAIN Append(spans, c) = 1 .. s
    BY <2>1, AppendGrows
  <2> HIDE DEF s
  <2> QED BY <1>1, <2>2
<1>7. /\ events' \in Seq(Fired) /\ Len(events') = Len(events) + 1
      /\ Grown(events, events') /\ events'[Len(events) + 1] = new
      /\ DOMAIN events' = 1 .. Len(events) + 1
  <2>1. events \in Seq(Fired)
    BY <1>2 DEF TypeOK
  <2> QED BY <1>1, <1>4, <2>1, AppendGrows
<1> HIDE DEF s
<1>8. TypeOK' /\ Bounded'
  BY <1>1, <1>2, <1>3, <1>5, <1>6, <1>7, NoMessageIsRight, EventMessagesAssumption
     DEF TypeOK, Bounded, ContextType
<1>9. ContextsNameSpans'
  BY <1>3, <1>5, <1>6 DEF IInv, ContextsNameSpans, Grown
<1>10. \A e, traceparent : RightFor(e, traceparent) => RightFor(e, traceparent)'
  BY <1>6, <1>7, RightStays
<1>11. EventsHaveFields'
  <2>1. ASSUME NEW e \in DOMAIN events
        PROVE  /\ events'[e].context \in DOMAIN contexts' /\ events'[e].dict = None
               /\ RightFor(e, FieldsOf(e))' /\ events'[e].span <= Len(spans')
    <3>1. /\ events'[e] = events[e] /\ e \in DOMAIN events'
          /\ events[e].context \in DOMAIN contexts /\ events[e].dict = None
          /\ RightFor(e, FieldsOf(e)) /\ events[e].span <= Len(spans)
          /\ events[e].span \in Nat
      BY <1>2, <1>7, ElementTypes DEF IInv, EventsHaveFields, Grown, Fired
    <3>2. CASE events[e].context = c
      <4>1. FieldsOf(e)' = s
        BY <1>5, <3>1, <3>2 DEF FieldsOf
      <4>2. s >= events[e].span /\ s # None
        BY <1>2, <1>3, <3>1 DEF s, None
      <4> QED BY <1>2, <1>3, <1>5, <1>6, <3>1, <3>2, <4>1, <4>2 DEF RightFor, Naming, s
    <3>3. CASE events[e].context # c
      <4>1. FieldsOf(e)' = FieldsOf(e)
        BY <1>5, <3>1, <3>3 DEF FieldsOf
      <4> QED BY <1>2, <1>5, <1>6, <1>10, <3>1, <4>1 DEF s
    <3> QED BY <3>2, <3>3
  <2>2. ASSUME NEW e \in DOMAIN events', e \notin DOMAIN events
        PROVE  /\ events'[e].context \in DOMAIN contexts' /\ events'[e].dict = None
               /\ RightFor(e, FieldsOf(e))' /\ events'[e].span <= Len(spans')
    <3>1. events'[e] = new
      BY <1>2, <1>7, <2>2
    <3>2. FieldsOf(e)' = s
      BY <1>4, <1>5, <3>1 DEF FieldsOf
    <3>3. s # None /\ s \in DOMAIN spans' /\ s >= s
      BY <1>3, <1>6 DEF None
    <3> QED BY <1>3, <1>4, <1>5, <1>6, <3>1, <3>2, <3>3 DEF RightFor, Naming
  <2> QED BY <2>1, <2>2 DEF EventsHaveFields
<1>12. CacheIsRight' /\ DiffsNameEvents'
  BY <1>1, <1>6, <1>7, CachesStay
<1> QED BY <1>1, <1>8, <1>9, <1>11, <1>12, NoMessageIsRight DEF IInv

(* An event that links nothing: one without a span, or one whose context is *)
(* its own and has no fields yet.                                           *)
LEMMA UnlinkedEventIInv ==
    ASSUME IInv, NEW new \in Fired, new.dict = None, new.given => new.span = None,
           Len(events) < MaxEvents, events' = Append(events, new),
           contexts' \in Seq(ContextType), Len(contexts') <= MaxContexts,
           spans' \in Seq(0 .. MaxContexts), Len(spans') <= MaxSpans,
           Grown(contexts, contexts'), Grown(spans, spans'), Len(spans) <= Len(spans'),
           ContextsNameSpans',
           new.context \in DOMAIN contexts', new.span <= Len(spans'),
           contexts'[new.context].traceparent = None \/ new.span = None,
           sent' = NothingSent, UNCHANGED <<installed, cache, diffs>>
    PROVE  IInv'
<1>1. /\ TypeOK
      /\ Len(spans) \in Nat /\ DOMAIN spans = 1 .. Len(spans)
      /\ Len(spans') \in Nat /\ DOMAIN spans' = 1 .. Len(spans')
      /\ Len(events) \in Nat /\ DOMAIN events = 1 .. Len(events)
  BY Lengths DEF IInv
<1>2. /\ events' \in Seq(Fired) /\ Len(events') = Len(events) + 1
      /\ Grown(events, events') /\ events'[Len(events) + 1] = new
      /\ DOMAIN events' = 1 .. Len(events) + 1
  <2>1. events \in Seq(Fired)
    BY <1>1 DEF TypeOK
  <2> QED BY <2>1, AppendGrows
<1>3. TypeOK' /\ Bounded'
  BY <1>1, <1>2, NoMessageIsRight, EventMessagesAssumption DEF TypeOK, Bounded, ContextType
<1>4. \A e, traceparent : RightFor(e, traceparent) => RightFor(e, traceparent)'
  BY <1>2, RightStays
<1>5. EventsHaveFields'
  <2>1. ASSUME NEW e \in DOMAIN events
        PROVE  /\ events'[e].context \in DOMAIN contexts' /\ events'[e].dict = None
               /\ RightFor(e, FieldsOf(e))' /\ events'[e].span <= Len(spans')
    <3>1. /\ events'[e] = events[e] /\ e \in DOMAIN events'
          /\ events[e].context \in DOMAIN contexts /\ events[e].dict = None
          /\ RightFor(e, FieldsOf(e)) /\ events[e].span <= Len(spans)
          /\ events[e].span \in Nat
      BY <1>1, <1>2, ElementTypes DEF IInv, EventsHaveFields, Grown, Fired
    <3>2. FieldsOf(e)' = FieldsOf(e) /\ events[e].context \in DOMAIN contexts'
      BY <3>1 DEF FieldsOf, Grown
    <3> QED BY <1>1, <1>4, <3>1, <3>2
  <2>2. ASSUME NEW e \in DOMAIN events', e \notin DOMAIN events
        PROVE  /\ events'[e].context \in DOMAIN contexts' /\ events'[e].dict = None
               /\ RightFor(e, FieldsOf(e))' /\ events'[e].span <= Len(spans')
    <3>1. events'[e] = new
      BY <1>1, <1>2, <2>2
    <3>2. FieldsOf(e)' = contexts'[new.context].traceparent
      BY <3>1 DEF FieldsOf
    <3>3. contexts'[new.context].traceparent \in Nat
      <4>1. contexts'[new.context] \in ContextType
        BY ElementOfSeq
      <4> QED BY <4>1, EventMessagesAssumption DEF ContextType
    <3>4. RightFor(e, FieldsOf(e))'
      BY <3>1, <3>2, <3>3 DEF RightFor, Naming, ContextsNameSpans, None
    <3> QED BY <3>1, <3>4
  <2> QED BY <2>1, <2>2 DEF EventsHaveFields
<1>6. CacheIsRight' /\ DiffsNameEvents'
  BY <1>2, CachesStay
<1> QED BY <1>3, <1>5, <1>6, NoMessageIsRight DEF IInv

(* Without tracing an event leaves its context's fields as they are.        *)
LEMMA UntracedFireIInv ==
    ASSUME IInv, ~installed, NEW kind \in Kinds, NEW c \in DOMAIN contexts, Fire(kind, c)
    PROVE  IInv'
<1> DEFINE new == [context |-> c, given |-> TRUE, span |-> None,
                   stateChange |-> StateChange(kind), dict |-> None]
<1>1. /\ Len(events) < MaxEvents /\ spans' = spans /\ contexts' = contexts
      /\ events' = Append(events, new)
      /\ sent' = NothingSent /\ UNCHANGED <<installed, cache, diffs>>
  BY DEF Fire
<1>2. /\ TypeOK /\ Len(contexts) <= MaxContexts /\ Len(spans) <= MaxSpans
      /\ Len(contexts) \in Nat /\ DOMAIN contexts = 1 .. Len(contexts)
      /\ Len(spans) \in Nat
  BY Lengths DEF IInv, Bounded
<1>3. /\ new \in Fired /\ new.context = c /\ new.span = None /\ new.dict = None
  BY <1>2, EventMessagesAssumption DEF Fired, None, StateChange, Named
<1> HIDE DEF new
<1>4. /\ contexts \in Seq(ContextType) /\ spans \in Seq(0 .. MaxContexts)
      /\ Grown(contexts, contexts) /\ Grown(spans, spans)
  BY <1>2 DEF TypeOK, ContextType, Grown
<1>5. ContextsNameSpans'
  BY <1>1 DEF IInv, ContextsNameSpans
<1> QED BY <1>1, <1>2, <1>3, <1>4, <1>5, UnlinkedEventIInv DEF None

(* An event that was fired without a context has one that is new.           *)
LEMMA FireContextlessIInv ==
    ASSUME IInv, NEW kind \in Kinds, FireContextless(kind) PROVE IInv'
<1> DEFINE s == IF installed THEN Len(spans) + 1 ELSE None
           c == Len(contexts) + 1
           fresh == [parent |-> None, traceparent |-> None]
           new == [context |-> c, given |-> FALSE, span |-> s,
                   stateChange |-> FALSE, dict |-> None]
<1>1. /\ Len(events) < MaxEvents /\ s <= MaxSpans /\ c <= MaxContexts
      /\ spans' = IF installed THEN Append(spans, None) ELSE spans
      /\ contexts' = Append(contexts, fresh)
      /\ events' = Append(events, new)
      /\ sent' = NothingSent /\ UNCHANGED <<installed, cache, diffs>>
  BY DEF FireContextless
<1>2. /\ TypeOK /\ Len(spans) <= MaxSpans /\ installed \in BOOLEAN
      /\ Len(contexts) \in Nat /\ DOMAIN contexts = 1 .. Len(contexts)
      /\ Len(spans) \in Nat /\ DOMAIN spans = 1 .. Len(spans)
  BY Lengths DEF IInv, Bounded, TypeOK
<1>3. s \in 0 .. MaxSpans /\ c \in 1 .. MaxContexts
  BY <1>1, <1>2, EventMessagesAssumption DEF None
<1>4. /\ new \in Fired /\ new.context = c /\ ~new.given /\ new.span = s /\ new.dict = None
  BY <1>3, EventMessagesAssumption DEF Fired, None
<1>5. fresh \in ContextType /\ fresh.traceparent = None
  BY EventMessagesAssumption DEF ContextType, None
<1> HIDE DEF new, fresh
<1>6. /\ contexts' \in Seq(ContextType) /\ Len(contexts') = Len(contexts) + 1
      /\ Grown(contexts, contexts') /\ contexts'[c] = fresh
      /\ DOMAIN contexts' = 1 .. Len(contexts) + 1
  <2>1. contexts \in Seq(ContextType)
    BY <1>2 DEF TypeOK, ContextType
  <2> QED BY <1>1, <1>5, <2>1, AppendGrows
<1>7. /\ spans' \in Seq(0 .. MaxContexts) /\ Grown(spans, spans')
      /\ Len(spans) <= Len(spans') /\ Len(spans') <= MaxSpans /\ s <= Len(spans')
  <2>1. spans \in Seq(0 .. MaxContexts) /\ None \in 0 .. MaxContexts
    BY <1>2, EventMessagesAssumption DEF TypeOK, None
  <2>2. CASE installed
    <3>1. /\ spans' \in Seq(0 .. MaxContexts) /\ Grown(spans, spans')
          /\ Len(spans') = Len(spans) + 1
      BY <1>1, <2>1, <2>2, AppendGrows
    <3> QED BY <1>1, <1>2, <2>2, <3>1
  <2>3. CASE ~installed
    BY <1>1, <1>2, <2>1, <2>3 DEF Grown, None
  <2> QED BY <1>2, <2>2, <2>3
<1>8. ContextsNameSpans'
  <2>1. \A d \in DOMAIN contexts' : d \in DOMAIN contexts \/ contexts'[d] = fresh
    BY <1>2, <1>6
  <2> QED BY <1>5, <1>6, <1>7, <2>1 DEF IInv, ContextsNameSpans, Grown
<1> HIDE DEF s
<1>9. new.context \in DOMAIN contexts' /\ contexts'[new.context].traceparent = None
  BY <1>2, <1>4, <1>5, <1>6
<1>10. Len(contexts') <= MaxContexts
  BY <1>1, <1>6
<1> QED BY <1>1, <1>4, <1>6, <1>7, <1>8, <1>9, <1>10, UnlinkedEventIInv

-----------------------------------------------------------------------------
(* A message that may be sent for its event: without hooks it is made       *)
(* without fields, with them the patched messages have those that are right.*)
LEMMA MessageIsRight ==
    ASSUME IInv, NEW e \in DOMAIN events, NEW path \in {"plain", "cached", "diff", "kept"},
           NEW traceparent, Made(e, path, traceparent), Naming(e, traceparent),
           installed /\ path \in {"plain", "cached"} => RightFor(e, traceparent),
           ~installed => traceparent = None \/ path = "kept",
           UNCHANGED <<spans, events>>
    PROVE  sent' \in Sent /\ SentIsRight'
<1>1. /\ sent' = [event |-> e, path |-> path, hooked |-> installed, traceparent |-> traceparent]
      /\ sent'.event = e /\ sent'.path = path /\ sent'.hooked = installed
      /\ sent'.traceparent = traceparent
  BY DEF Made
<1>2. /\ TypeOK /\ installed \in BOOLEAN /\ Len(spans) <= MaxSpans
      /\ Len(spans) \in Nat /\ DOMAIN spans = 1 .. Len(spans)
      /\ e \in 1 .. Len(events) /\ Len(events) <= MaxEvents /\ Len(events) \in Nat
  BY Lengths DEF IInv, TypeOK, Bounded
<1>3. traceparent \in 0 .. MaxSpans
  BY <1>2, EventMessagesAssumption DEF Naming, None
<1>4. sent' \in Sent
  BY <1>1, <1>2, <1>3, EventMessagesAssumption DEF Sent
<1>5. SentNamesEvent'
  BY <1>1 DEF SentNamesEvent, Naming
<1>6. TracedEventIsSentTraced'
  BY <1>1 DEF TracedEventIsSentTraced, RightFor
<1>7. NoFieldsWithoutHooks'
  BY <1>1 DEF NoFieldsWithoutHooks
<1> QED BY <1>4, <1>5, <1>6, <1>7 DEF SentIsRight

(* A step that leaves the contexts, spans and events as they are.           *)
LEMMA SameEventsIInv ==
    ASSUME IInv, UNCHANGED <<contexts, spans, events>>,
           installed' \in BOOLEAN, sent' \in Sent, SentIsRight',
           cache' \in Seq(CacheType), Len(cache') <= CacheSize, CacheIsRight',
           diffs' \in Seq(CacheType), Len(diffs') <= DiffCacheSize, DiffsNameEvents'
    PROVE  IInv'
<1>1. TypeOK' /\ Bounded'
  BY DEF IInv, TypeOK, Bounded, CacheType
<1>2. ContextsNameSpans' /\ EventsHaveFields'
  BY DEF IInv, ContextsNameSpans, EventsHaveFields, FieldsOf, RightFor, Naming
<1> QED BY <1>1, <1>2 DEF IInv

(* A cache that a step does not change, of events that it does not change.  *)
LEMMA SameCaches ==
    ASSUME IInv, UNCHANGED <<spans, events>>
    PROVE  /\ UNCHANGED cache => /\ cache' \in Seq(CacheType) /\ Len(cache') <= CacheSize
                                 /\ CacheIsRight'
           /\ UNCHANGED diffs => /\ diffs' \in Seq(CacheType) /\ Len(diffs') <= DiffCacheSize
                                 /\ DiffsNameEvents'
BY DEF IInv, TypeOK, CacheType, CacheIsRight, DiffsNameEvents, RightFor, Naming

(* The fields a message is made with now.                                   *)
LEMMA EnrichedIsRight ==
    ASSUME IInv, NEW e \in DOMAIN events
    PROVE  /\ RightFor(e, Enriched(e)) /\ RightFor(e, FieldsOf(e))
           /\ Naming(e, None) /\ events[e].dict = None
<1>1. RightFor(e, FieldsOf(e)) /\ events[e].dict = None
  BY DEF IInv, EventsHaveFields
<1>2. Enriched(e) = FieldsOf(e)
  BY <1>1 DEF Enriched
<1> QED BY <1>1, <1>2 DEF Naming

LEMMA SendPlainIInv == ASSUME IInv, NEW e \in DOMAIN events, SendPlain(e) PROVE IInv'
<1>1. /\ UNCHANGED <<installed, contexts, spans, events, cache, diffs>>
      /\ Made(e, "plain", IF installed THEN Enriched(e) ELSE events[e].dict)
      /\ installed \in BOOLEAN
  BY DEF SendPlain, EventsAfter, IInv, TypeOK
<1>2. sent' \in Sent /\ SentIsRight'
  <2>1. CASE installed
    <3>1. Made(e, "plain", Enriched(e)) /\ RightFor(e, Enriched(e)) /\ Naming(e, Enriched(e))
      BY <1>1, <2>1, EnrichedIsRight DEF RightFor
    <3> QED BY <1>1, <2>1, <3>1, MessageIsRight
  <2>2. CASE ~installed
    <3>1. Made(e, "plain", None) /\ Naming(e, None)
      BY <1>1, <2>2, EnrichedIsRight
    <3> QED BY <1>1, <2>2, <3>1, MessageIsRight
  <2> QED BY <2>1, <2>2
<1> QED BY <1>1, <1>2, SameCaches, SameEventsIInv

-----------------------------------------------------------------------------
(* The two caches.  A hit moves an entry to the end; nothing else is kept   *)
(* after it than before.                                                    *)
LEMMA HitKeeps ==
    ASSUME NEW S, NEW kept \in Seq(S), NEW i \in DOMAIN kept
    PROVE  /\ HitAt(kept, i) \in Seq(S) /\ Len(HitAt(kept, i)) = Len(kept)
           /\ \A j \in DOMAIN HitAt(kept, i) : \E k \in DOMAIN kept : HitAt(kept, i)[j] = kept[k]
<1> DEFINE front == SubSeq(kept, 1, i - 1)
           back  == SubSeq(kept, i + 1, Len(kept))
           hit   == HitAt(kept, i)
<1>1. /\ Len(kept) \in Nat /\ DOMAIN kept = 1 .. Len(kept) /\ i \in 1 .. Len(kept)
      /\ kept[i] \in S
  BY ElementOfSeq
<1>2. /\ front \in Seq(S) /\ Len(front) = i - 1
      /\ \A j \in 1 .. i - 1 : front[j] = kept[j]
  BY <1>1, SubSeqProperties
<1>3. /\ back \in Seq(S) /\ Len(back) = Len(kept) - i
      /\ \A j \in 1 .. Len(kept) - i : back[j] = kept[i + j]
  BY <1>1, SubSeqProperties
<1>4. hit = Append(front \o back, kept[i])
  BY DEF HitAt
<1> HIDE DEF front, back, hit
<1>5. /\ front \o back \in Seq(S) /\ Len(front \o back) = Len(kept) - 1
      /\ \A j \in 1 .. Len(kept) - 1 :
            (front \o back)[j] = IF j <= i - 1 THEN front[j] ELSE back[j - (i - 1)]
  <2>1. /\ front \o back \in Seq(S) /\ Len(front \o back) = Len(front) + Len(back)
        /\ \A j \in 1 .. Len(front) + Len(back) :
              (front \o back)[j] = IF j <= Len(front) THEN front[j] ELSE back[j - Len(front)]
    BY <1>2, <1>3, ConcatProperties
  <2> QED BY <1>1, <1>2, <1>3, <2>1
<1>6. \A j \in 1 .. Len(kept) - 1 : \E k \in DOMAIN kept : (front \o back)[j] = kept[k]
  <2> SUFFICES ASSUME NEW j \in 1 .. Len(kept) - 1
               PROVE  \E k \in DOMAIN kept : (front \o back)[j] = kept[k]
    OBVIOUS
  <2>1. CASE j <= i - 1
    <3>1. j \in 1 .. i - 1 /\ j \in DOMAIN kept
      BY <1>1, <2>1
    <3>2. (front \o back)[j] = kept[j]
      BY <1>2, <1>5, <2>1, <3>1
    <3> QED BY <3>1, <3>2
  <2>2. CASE ~(j <= i - 1)
    <3>1. j - (i - 1) \in 1 .. Len(kept) - i /\ i + (j - (i - 1)) = j + 1
      BY <1>1, <2>2
    <3>2. (front \o back)[j] = kept[j + 1]
      BY <1>3, <1>5, <2>2, <3>1
    <3> QED BY <1>1, <3>2
  <2> QED BY <2>1, <2>2
<1>7. /\ hit \in Seq(S) /\ Len(hit) = Len(kept) /\ DOMAIN hit = 1 .. Len(kept)
      /\ \A j \in 1 .. Len(kept) - 1 : hit[j] = (front \o back)[j]
      /\ hit[Len(kept)] = kept[i]
  <2> DEFINE rest == front \o back
             last == kept[i]
  <2>1. /\ rest \in Seq(S) /\ last \in S /\ Len(rest) = Len(kept) - 1
        /\ hit = Append(rest, last)
    BY <1>1, <1>4, <1>5
  <2> HIDE DEF rest, last
  <2>2. /\ hit \in Seq(S) /\ Len(hit) = Len(rest) + 1 /\ DOMAIN hit = 1 .. Len(rest) + 1
        /\ Grown(rest, hit) /\ hit[Len(rest) + 1] = last
    BY <2>1, AppendGrows
  <2>3. Len(rest) + 1 = Len(kept)
    <3>1. Len(kept) \in Nat /\ Len(rest) = Len(kept) - 1
      BY <1>1, <2>1
    <3> QED BY <3>1
  <2>4. \A j \in 1 .. Len(rest) : hit[j] = rest[j]
    BY <2>1, <2>2 DEF Grown
  <2> QED BY <2>1, <2>2, <2>3, <2>4 DEF rest, last
<1>8. ASSUME NEW j \in DOMAIN hit PROVE \E k \in DOMAIN kept : hit[j] = kept[k]
  <2>1. j \in 1 .. Len(kept) - 1 \/ j = Len(kept)
    BY <1>1, <1>7
  <2> QED BY <1>6, <1>7, <2>1
<1> QED BY <1>7, <1>8 DEF hit

(* A miss adds an entry and keeps to the size.                              *)
LEMMA MissKeeps ==
    ASSUME NEW kept \in Seq(CacheType), NEW size \in Nat \ {0}, Len(kept) <= size,
           NEW e \in 1 .. MaxEvents, NEW traceparent \in 0 .. MaxSpans
    PROVE  /\ Miss(kept, size, e, traceparent) \in Seq(CacheType)
           /\ Len(Miss(kept, size, e, traceparent)) <= size
           /\ \A j \in DOMAIN Miss(kept, size, e, traceparent) :
                 \/ Miss(kept, size, e, traceparent)[j] = [event |-> e, traceparent |-> traceparent]
                 \/ \E k \in DOMAIN kept : Miss(kept, size, e, traceparent)[j] = kept[k]
<1> DEFINE entry == [event |-> e, traceparent |-> traceparent]
           room  == IF Len(kept) = size THEN Tail(kept) ELSE kept
           miss  == Miss(kept, size, e, traceparent)
<1>0. Len(kept) \in Nat /\ (Len(kept) # size => Len(kept) < size)
  OBVIOUS
<1>1. Len(kept) \in Nat /\ DOMAIN kept = 1 .. Len(kept) /\ entry \in CacheType
  BY DEF CacheType
<1>2. miss = Append(room, entry)
  BY DEF Miss
<1> HIDE DEF entry, miss
<1>3. /\ room \in Seq(CacheType) /\ Len(room) < size /\ Len(room) \in Nat
      /\ \A j \in 1 .. Len(room) : \E k \in DOMAIN kept : room[j] = kept[k]
  <2>1. CASE Len(kept) = size
    <3>1. kept # <<>>
      BY <1>1, <2>1
    <3>2. /\ Tail(kept) \in Seq(CacheType) /\ Len(Tail(kept)) = Len(kept) - 1
          /\ \A j \in 1 .. Len(kept) - 1 : Tail(kept)[j] = kept[j + 1]
      BY <1>1, <3>1, HeadTailProperties
    <3>3. \A j \in 1 .. Len(kept) - 1 : j + 1 \in DOMAIN kept
      BY <1>1
    <3> QED BY <1>1, <2>1, <3>2, <3>3
  <2>2. CASE Len(kept) # size
    <3>1. room = kept
      BY <2>2
    <3>2. Len(kept) < size
      BY <1>0, <2>2
    <3> HIDE DEF room
    <3> QED BY <1>1, <3>1, <3>2
  <2> QED BY <2>1, <2>2
<1> HIDE DEF room
<1>4. /\ miss \in Seq(CacheType) /\ Len(miss) = Len(room) + 1
      /\ DOMAIN miss = 1 .. Len(room) + 1
      /\ \A j \in 1 .. Len(room) : miss[j] = room[j]
      /\ miss[Len(room) + 1] = entry
  BY <1>1, <1>2, <1>3, AppendProperties
<1>5. ASSUME NEW j \in DOMAIN miss
      PROVE  miss[j] = entry \/ \E k \in DOMAIN kept : miss[j] = kept[k]
  <2>1. j \in 1 .. Len(room) \/ j = Len(room) + 1
    BY <1>3, <1>4
  <2> QED BY <1>3, <1>4, <2>1
<1>6. Len(miss) <= size
  BY <1>3, <1>4
<1> QED BY <1>4, <1>5, <1>6 DEF entry, miss

(* Fields that an event may be sent with are of the types of an entry.      *)
LEMMA EntryTypes ==
    ASSUME IInv, NEW e \in DOMAIN events, NEW traceparent, Naming(e, traceparent)
    PROVE  e \in 1 .. MaxEvents /\ traceparent \in 0 .. MaxSpans
<1>1. /\ e \in 1 .. Len(events) /\ Len(events) <= MaxEvents /\ Len(events) \in Nat
      /\ Len(spans) <= MaxSpans /\ Len(spans) \in Nat /\ DOMAIN spans = 1 .. Len(spans)
  BY Lengths DEF IInv, Bounded
<1> QED BY <1>1, EventMessagesAssumption DEF Naming, None

(* A hit of the one cache or of the other.                                  *)
LEMMA HitIsRight ==
    ASSUME IInv, UNCHANGED <<spans, events>>
    PROVE  /\ \A i \in DOMAIN cache : cache' = HitAt(cache, i) =>
                 cache' \in Seq(CacheType) /\ Len(cache') <= CacheSize /\ CacheIsRight'
           /\ \A i \in DOMAIN diffs : diffs' = HitAt(diffs, i) =>
                 diffs' \in Seq(CacheType) /\ Len(diffs') <= DiffCacheSize /\ DiffsNameEvents'
<1>1. /\ cache \in Seq(CacheType) /\ Len(cache) <= CacheSize
      /\ diffs \in Seq(CacheType) /\ Len(diffs) <= DiffCacheSize
  BY DEF IInv, TypeOK, CacheType
<1>2. ASSUME NEW i \in DOMAIN cache, cache' = HitAt(cache, i)
      PROVE  cache' \in Seq(CacheType) /\ Len(cache') <= CacheSize /\ CacheIsRight'
  <2>1. /\ cache' \in Seq(CacheType) /\ Len(cache') <= CacheSize
        /\ \A j \in DOMAIN cache' : \E k \in DOMAIN cache : cache'[j] = cache[k]
    BY <1>1, <1>2, HitKeeps
  <2> QED BY <2>1 DEF IInv, CacheIsRight, RightFor, Naming
<1>3. ASSUME NEW i \in DOMAIN diffs, diffs' = HitAt(diffs, i)
      PROVE  diffs' \in Seq(CacheType) /\ Len(diffs') <= DiffCacheSize /\ DiffsNameEvents'
  <2>1. /\ diffs' \in Seq(CacheType) /\ Len(diffs') <= DiffCacheSize
        /\ \A j \in DOMAIN diffs' : \E k \in DOMAIN diffs : diffs'[j] = diffs[k]
    BY <1>1, <1>3, HitKeeps
  <2> QED BY <2>1 DEF IInv, DiffsNameEvents, Naming
<1> QED BY <1>2, <1>3

(* A miss.                                                                  *)
LEMMA MissIsRight ==
    ASSUME IInv, UNCHANGED <<spans, events>>, NEW e \in DOMAIN events, NEW traceparent
    PROVE  /\ RightFor(e, traceparent) /\ cache' = Miss(cache, CacheSize, e, traceparent) =>
                 cache' \in Seq(CacheType) /\ Len(cache') <= CacheSize /\ CacheIsRight'
           /\ Naming(e, traceparent) /\ diffs' = Miss(diffs, DiffCacheSize, e, traceparent) =>
                 diffs' \in Seq(CacheType) /\ Len(diffs') <= DiffCacheSize /\ DiffsNameEvents'
<1> DEFINE entry == [event |-> e, traceparent |-> traceparent]
<1>1. /\ cache \in Seq(CacheType) /\ Len(cache) <= CacheSize
      /\ diffs \in Seq(CacheType) /\ Len(diffs) <= DiffCacheSize
      /\ CacheSize \in Nat \ {0} /\ DiffCacheSize \in Nat \ {0}
  BY EventMessagesAssumption DEF IInv, TypeOK, CacheType
<1>2. entry.event = e /\ entry.traceparent = traceparent
  OBVIOUS
<1>3. ASSUME RightFor(e, traceparent), cache' = Miss(cache, CacheSize, e, traceparent)
      PROVE  cache' \in Seq(CacheType) /\ Len(cache') <= CacheSize /\ CacheIsRight'
  <2>1. e \in 1 .. MaxEvents /\ traceparent \in 0 .. MaxSpans
    BY <1>3, EntryTypes DEF RightFor
  <2>2. /\ cache' \in Seq(CacheType) /\ Len(cache') <= CacheSize
        /\ \A j \in DOMAIN cache' : cache'[j] = entry \/ \E k \in DOMAIN cache : cache'[j] = cache[k]
    BY <1>1, <1>3, <2>1, MissKeeps
  <2> HIDE DEF entry
  <2> QED BY <1>2, <1>3, <2>2 DEF IInv, CacheIsRight, RightFor, Naming
<1>4. ASSUME Naming(e, traceparent), diffs' = Miss(diffs, DiffCacheSize, e, traceparent)
      PROVE  diffs' \in Seq(CacheType) /\ Len(diffs') <= DiffCacheSize /\ DiffsNameEvents'
  <2>1. e \in 1 .. MaxEvents /\ traceparent \in 0 .. MaxSpans
    BY <1>4, EntryTypes
  <2>2. /\ diffs' \in Seq(CacheType) /\ Len(diffs') <= DiffCacheSize
        /\ \A j \in DOMAIN diffs' : diffs'[j] = entry \/ \E k \in DOMAIN diffs : diffs'[j] = diffs[k]
    BY <1>1, <1>4, <2>1, MissKeeps
  <2> HIDE DEF entry
  <2> QED BY <1>2, <1>4, <2>2 DEF IInv, DiffsNameEvents, Naming
<1> QED BY <1>3, <1>4

LEMMA SendCachedIInv == ASSUME IInv, NEW e \in DOMAIN events, SendCached(e) PROVE IInv'
<1>1. /\ UNCHANGED <<installed, contexts, spans, diffs>> /\ events' = events
      /\ installed \in BOOLEAN
  BY DEF SendCached, EventsAfter, IInv, TypeOK
<1>2. ASSUME installed, NEW i \in At(cache, e), Made(e, "cached", cache[i].traceparent),
             cache' = HitAt(cache, i)
      PROVE  IInv'
  <2>1. /\ i \in DOMAIN cache
        /\ RightFor(e, cache[i].traceparent) /\ Naming(e, cache[i].traceparent)
    BY DEF At, IInv, CacheIsRight, RightFor
  <2>2. sent' \in Sent /\ SentIsRight'
    BY <1>1, <1>2, <2>1, MessageIsRight
  <2>3. cache' \in Seq(CacheType) /\ Len(cache') <= CacheSize /\ CacheIsRight'
    BY <1>1, <1>2, <2>1, HitIsRight
  <2> QED BY <1>1, <2>2, <2>3, SameCaches, SameEventsIInv
<1>3. ASSUME installed, Made(e, "cached", Enriched(e)),
             cache' = Miss(cache, CacheSize, e, Enriched(e))
      PROVE  IInv'
  <2>1. RightFor(e, Enriched(e)) /\ Naming(e, Enriched(e))
    BY EnrichedIsRight DEF RightFor
  <2>2. sent' \in Sent /\ SentIsRight'
    BY <1>1, <1>3, <2>1, MessageIsRight
  <2>3. cache' \in Seq(CacheType) /\ Len(cache') <= CacheSize /\ CacheIsRight'
    BY <1>1, <1>3, <2>1, MissIsRight
  <2> QED BY <1>1, <2>2, <2>3, SameCaches, SameEventsIInv
<1>4. ASSUME ~installed, Made(e, "cached", events[e].dict), cache' = cache
      PROVE  IInv'
  <2>1. Made(e, "cached", None) /\ Naming(e, None)
    BY <1>4, EnrichedIsRight
  <2>2. sent' \in Sent /\ SentIsRight'
    BY <1>1, <1>4, <2>1, MessageIsRight
  <2> QED BY <1>1, <1>4, <2>2, SameCaches, SameEventsIInv
<1> QED BY <1>2, <1>3, <1>4 DEF SendCached

LEMMA SendDiffIInv ==
    ASSUME IInv, NEW e \in DOMAIN events, NEW contextDiffers \in BOOLEAN,
           SendDiff(e, contextDiffers)
    PROVE  IInv'
<1>1. UNCHANGED <<installed, contexts, spans, events, cache>> /\ installed \in BOOLEAN
  BY DEF SendDiff, IInv, TypeOK
<1>2. ASSUME NEW i \in At(diffs, e), Made(e, "kept", diffs[i].traceparent),
             diffs' = HitAt(diffs, i)
      PROVE  IInv'
  <2>1. i \in DOMAIN diffs /\ Naming(e, diffs[i].traceparent)
    BY DEF At, IInv, DiffsNameEvents
  <2>2. sent' \in Sent /\ SentIsRight'
    BY <1>1, <1>2, <2>1, MessageIsRight
  <2>3. diffs' \in Seq(CacheType) /\ Len(diffs') <= DiffCacheSize /\ DiffsNameEvents'
    BY <1>1, <1>2, <2>1, HitIsRight
  <2> QED BY <1>1, <2>2, <2>3, SameCaches, SameEventsIInv
<1>3. ASSUME Made(e, "diff", DiffOf(e, contextDiffers)),
             diffs' = Miss(diffs, DiffCacheSize, e, DiffOf(e, contextDiffers))
      PROVE  IInv'
  <2>1. /\ Naming(e, DiffOf(e, contextDiffers))
        /\ ~installed => DiffOf(e, contextDiffers) = None
    BY EnrichedIsRight DEF DiffOf, RightFor
  <2>2. sent' \in Sent /\ SentIsRight'
    BY <1>1, <1>3, <2>1, MessageIsRight
  <2>3. diffs' \in Seq(CacheType) /\ Len(diffs') <= DiffCacheSize /\ DiffsNameEvents'
    BY <1>1, <1>3, <2>1, MissIsRight
  <2> QED BY <1>1, <2>2, <2>3, SameCaches, SameEventsIInv
<1> QED BY <1>2, <1>3 DEF SendDiff

-----------------------------------------------------------------------------
(* Every installation begins with an empty cache of its own.                *)
LEMMA EmptyCache ==
    ASSUME cache' = <<>>
    PROVE  cache' \in Seq(CacheType) /\ Len(cache') <= CacheSize /\ CacheIsRight'
BY EventMessagesAssumption DEF CacheIsRight

LEMMA HooksIInv == ASSUME IInv, Install \/ Uninstall PROVE IInv'
<1>1. /\ installed' \in BOOLEAN /\ cache' = <<>> /\ sent' = NothingSent
      /\ UNCHANGED <<contexts, spans, events, diffs>>
  BY DEF Install, Uninstall
<1> QED BY <1>1, EmptyCache, SameCaches, NoMessageIsRight, SameEventsIInv

LEMMA NextIInv == IInv /\ [Next]_vars => IInv'
<1> SUFFICES ASSUME IInv, [Next]_vars PROVE IInv'
  OBVIOUS
<1>1. ASSUME NEW parent \in {None} \cup DOMAIN contexts, NewContext(parent) PROVE IInv'
  BY <1>1, NewContextIInv
<1>2. ASSUME NEW kind \in Kinds, FireContextless(kind) PROVE IInv'
  BY <1>2, FireContextlessIInv
<1>3. ASSUME NEW kind \in Kinds, NEW c \in DOMAIN contexts, Fire(kind, c) PROVE IInv'
  BY <1>3, TracedFireIInv, UntracedFireIInv
<1>4. ASSUME NEW msg \in Calls, NEW c \in DOMAIN contexts, CallService(msg, c) PROVE IInv'
  <2>1. UNCHANGED <<installed, contexts, spans, events, cache, diffs>> /\ sent' = NothingSent
    BY <1>4 DEF CallService
  <2>2. installed' \in BOOLEAN
    BY <2>1 DEF IInv, TypeOK
  <2> QED BY <2>1, <2>2, SameCaches, NoMessageIsRight, SameEventsIInv
<1>5. ASSUME NEW e \in DOMAIN events, SendPlain(e) PROVE IInv'
  BY <1>5, SendPlainIInv
<1>6. ASSUME NEW e \in DOMAIN events, SendCached(e) PROVE IInv'
  BY <1>6, SendCachedIInv
<1>7. ASSUME NEW e \in DOMAIN events, NEW contextDiffers \in BOOLEAN,
             SendDiff(e, contextDiffers)
      PROVE  IInv'
  BY <1>7, SendDiffIInv
<1>8. CASE Install \/ Uninstall
  BY <1>8, HooksIInv
<1>9. CASE UNCHANGED vars
  <2>1. UNCHANGED <<installed, contexts, spans, events, cache, diffs, sent>>
    BY <1>9 DEF vars
  <2>2. installed' \in BOOLEAN /\ sent' \in Sent
    BY <2>1 DEF IInv, TypeOK
  <2>3. SentIsRight'
    BY <2>1 DEF IInv, SentIsRight, SentNamesEvent, TracedEventIsSentTraced,
                NoFieldsWithoutHooks
  <2> QED BY <2>1, <2>2, <2>3, SameCaches, SameEventsIInv
<1> QED BY <1>1, <1>2, <1>3, <1>4, <1>5, <1>6, <1>7, <1>8, <1>9 DEF Next

LEMMA Invariance == Spec => []IInv
BY InitIInv, NextIInv, PTL DEF Spec

-----------------------------------------------------------------------------
(* The types of the history, of the cache and of what is sent.              *)
THEOREM TypeCorrect == Spec => []TypeOK
<1>1. IInv => TypeOK
  BY DEF IInv
<1> QED BY <1>1, Invariance, PTL

(* No client is ever sent another event's fields, or outdated ones.         *)
THEOREM FieldsAreTheEvents == Spec => []SentNamesEvent
<1>1. IInv => SentNamesEvent
  BY DEF IInv, SentIsRight
<1> QED BY <1>1, Invariance, PTL

(* No traced event with a context reaches a client without its fields.      *)
THEOREM TracedEventsAreSentTraced == Spec => []TracedEventIsSentTraced
<1>1. IInv => TracedEventIsSentTraced
  BY DEF IInv, SentIsRight
<1> QED BY <1>1, Invariance, PTL

(* Without hooks no message is made with fields, for any sizes of the caches*)
(* and any installations in between: only what Home Assistant's own cache   *)
(* keeps from before has some.                                              *)
THEOREM UntracedWithoutHooks == Spec => []NoFieldsWithoutHooks
<1>1. IInv => NoFieldsWithoutHooks
  BY DEF IInv, SentIsRight
<1> QED BY <1>1, Invariance, PTL

-----------------------------------------------------------------------------
(* What the spans say.                                                      *)

(* No string in a set of attributes is longer than an attribute may be.     *)
Limited(attributes) ==
    \A k \in DOMAIN attributes : attributes[k].type = "str" => attributes[k].length <= MaxLength

LEMMA TruncateLimits ==
    ASSUME NEW value PROVE Truncate(value).length <= MaxLength
<1>1. CASE value.length <= MaxLength
  BY <1>1 DEF Truncate
<1>2. CASE ~(value.length <= MaxLength)
  BY <1>2, LengthAssumption DEF Truncate, Cut, String
<1> QED BY <1>1, <1>2

(* One more attribute, of a value that is limited.                          *)
LEMMA PutLimited ==
    ASSUME NEW attributes, Limited(attributes), NEW key, NEW value,
           value.type = "str" => value.length <= MaxLength
    PROVE  Limited(Put(attributes, key, value))
BY DEF Limited, Put

(* _set_attribute limits what it sets, whatever it is given.                *)
LEMMA SetAttributeLimited ==
    ASSUME NEW attributes, Limited(attributes), NEW key, NEW value
    PROVE  Limited(SetAttribute(attributes, key, value))
<1>1. CASE Is(value, "str") /\ value.length > 0
  <2>1. Limited(Put(attributes, key, Truncate(value)))
    BY TruncateLimits, PutLimited
  <2> QED BY <1>1, <2>1 DEF SetAttribute
<1>2. CASE Is(value, "bool") \/ Is(value, "int")
  <2>1. value.type # "str"
    BY <1>2 DEF Is
  <2>2. ~(Is(value, "str") /\ value.length > 0)
    BY <2>1 DEF Is
  <2>3. Limited(Put(attributes, key, value))
    BY <2>1, PutLimited
  <2> QED BY <1>2, <2>2, <2>3 DEF SetAttribute
<1> QED BY <1>1, <1>2 DEF SetAttribute

LEMMA UpdateLimited ==
    ASSUME NEW attributes, NEW new, Limited(attributes), Limited(new)
    PROVE  Limited(Update(attributes, new))
BY DEF Limited, Update

LEMMA NoneLimited == Limited(NoAttributes)
BY DEF Limited, NoAttributes

LEMMA SetEntityLimited ==
    ASSUME NEW attributes, Limited(attributes), NEW value
    PROVE  Limited(SetEntity(attributes, value))
BY SetAttributeLimited DEF SetEntity, SetEntityDomain

LEMMA ServiceLimited ==
    ASSUME NEW attributes, Limited(attributes), NEW domain, NEW service, NEW data
    PROVE  /\ Limited(ServiceAttributes(attributes, domain, service))
           /\ Limited(OfServiceData(attributes, data))
<1>1. Limited(ServiceAttributes(attributes, domain, service))
  BY SetAttributeLimited DEF ServiceAttributes
<1>2. Limited(OfServiceData(attributes, data))
  BY SetEntityLimited DEF OfServiceData
<1> QED BY <1>1, <1>2

(* The span of a message that calls a service.                              *)
LEMMA WebsocketCallLimited == ASSUME NEW msg PROVE Limited(WebsocketCallAttributes(msg))
<1> DEFINE named  == OfServiceData(ServiceAttributes(NoAttributes, Get(msg, "domain"),
                                                     Get(msg, "service")),
                                   Get(msg, "service_data"))
           target == Get(msg, "target")
           Target(attributes, key, attribute) ==
               IF ~Is(target, "dict") THEN attributes
               ELSE SetAttribute(attributes, attribute, TargetValue(Get(target.of, key)))
<1>1. Limited(named)
  <2>1. Limited(ServiceAttributes(NoAttributes, Get(msg, "domain"), Get(msg, "service")))
    BY NoneLimited, ServiceLimited
  <2> QED BY <2>1, ServiceLimited
<1>2. ASSUME NEW attributes, Limited(attributes), NEW key, NEW attribute
      PROVE  Limited(Target(attributes, key, attribute))
  BY <1>2, SetAttributeLimited
<1>3. WebsocketCallAttributes(msg) =
        Target(Target(Target(named, "entity_id", "service.target.entity_id"),
                      "device_id", "service.target.device_id"),
               "area_id", "service.target.area_id")
  BY DEF WebsocketCallAttributes
<1> HIDE DEF named, Target
<1> QED BY <1>1, <1>2, <1>3

(* What is said of a context are its id and its parent's, which are not cut.*)
LEMMA ContextLimited ==
    /\ Limited(ContextAttributes(Absent))
    /\ \A c : Limited(ContextAttributes(ContextOf(c)))
<1>1. Limited(ContextAttributes(Absent))
  BY NoneLimited DEF ContextAttributes
<1>2. ASSUME NEW c PROVE Limited(ContextAttributes(ContextOf(c)))
  <2> DEFINE own == Put(NoAttributes, "context.id", Ulid(c))
             of  == ContextOf(c)
  <2>1. \A n : Ulid(n).length <= MaxLength
    BY LengthAssumption DEF Ulid, Str, String, MaxEventType
  <2>2. Limited(own)
    BY <2>1, NoneLimited, PutLimited
  <2>3. Limited(Put(own, "context.parent_id", Ulid(contexts[c].parent)))
    BY <2>1, <2>2, PutLimited
  <2>4. /\ of.id = Ulid(c) /\ of.user = Absent
        /\ of.parent = Absent \/ of.parent = Ulid(contexts[c].parent)
    BY DEF ContextOf
  <2> HIDE DEF own, of
  <2>5. ContextAttributes(of) \in
            {NoAttributes, own, Put(own, "context.parent_id", Ulid(contexts[c].parent))}
    BY <2>4 DEF ContextAttributes, own
  <2> QED BY <2>2, <2>3, <2>5, NoneLimited DEF of
<1> QED BY <1>1, <1>2

(* The data of a change of state.                                           *)
LEMMA StateChangedLimited == ASSUME NEW data PROVE Limited(StateChangedAttributes(data))
<1>1. \A attributes, key, state : Limited(attributes) =>
          Limited(StateAttribute(attributes, key, state))
  BY SetAttributeLimited DEF StateAttribute
<1>2. \A names : Limited(ChangedAttributes(names))
  <2> SUFFICES ASSUME NEW names PROVE Limited(ChangedAttributes(names))
    OBVIOUS
  <2> DEFINE n      == Cardinality(names)
             listed == IF n < MaxChanged THEN n ELSE MaxChanged
             joined == SetAttribute(NoAttributes, "entity.attributes.changed",
                                    Str("names", Absent, 5 * listed - 1))
  <2>1. Limited(joined)
    BY NoneLimited, SetAttributeLimited
  <2>2. Number(n).type # "str"
    BY DEF Number
  <2>3. Limited(Put(joined, "entity.attributes.changed_count", Number(n)))
    BY <2>1, <2>2, PutLimited
  <2>4. ChangedAttributes(names) =
          IF n > MaxChanged THEN Put(joined, "entity.attributes.changed_count", Number(n))
          ELSE IF n > 0 THEN joined ELSE NoAttributes
    BY DEF ChangedAttributes
  <2> HIDE DEF n, joined
  <2> QED BY <2>1, <2>3, <2>4, NoneLimited
<1>3. Limited(SetEntity(NoAttributes, Get(data, "entity_id")))
  BY NoneLimited, SetEntityLimited
<1> DEFINE old    == Get(data, "old_state")
           new    == Get(data, "new_state")
           states == StateAttribute(StateAttribute(
                         SetEntity(NoAttributes, Get(data, "entity_id")),
                         "entity.state.old", old), "entity.state.new", new)
<1>4. Limited(states)
  BY <1>1, <1>3
<1>5. Limited(Update(states, ChangedAttributes(ChangedNames(old, new))))
  BY <1>2, <1>4, UpdateLimited
<1>6. StateChangedAttributes(data) \in
        {states, Update(states, ChangedAttributes(ChangedNames(old, new)))}
  BY DEF StateChangedAttributes
<1> HIDE DEF states, old, new
<1> QED BY <1>4, <1>5, <1>6

(* The data of a trigger or of a script.                                    *)
LEMMA TriggerLimited ==
    ASSUME NEW data, NEW named \in BOOLEAN PROVE Limited(TriggerAttributes(data, named))
<1>1. Limited(SetAttribute(NoAttributes, "event.name", Get(data, "name")))
  BY NoneLimited, SetAttributeLimited
<1>2. Limited(SetAttribute(SetAttribute(NoAttributes, "event.name", Get(data, "name")),
                           "event.source", Get(data, "source")))
  BY <1>1, SetAttributeLimited
<1> QED BY <1>1, <1>2, SetEntityLimited DEF TriggerAttributes

(* The only attribute that two generic keys set is the command.             *)
LEMMA KeysApart ==
    /\ DOMAIN GenericKeys = 1 .. 14
    /\ \A i, j \in 1 .. 14 : i # j /\ GenericKeys[i][2] = GenericKeys[j][2]
                                => i \in {4, 13} /\ j \in {4, 13}
<1> DEFINE names == <<"device.ieee", "device.id", "device.unique_id", "event.command",
                      "zha.cluster_id", "zha.cluster_name", "zha.endpoint_id", "node.id",
                      "event.name", "event.source", "device.manufacturer", "device.model",
                      "event.command", "event.args">>
<1>1. DOMAIN GenericKeys = 1 .. 14
  BY DEF GenericKeys
<1>2. \A i \in 1 .. 14 : GenericKeys[i][2] = names[i]
  BY DEF GenericKeys
<1>3. \A i, j \in 1 .. 14 : i # j /\ names[i] = names[j] => i \in {4, 13} /\ j \in {4, 13}
  OBVIOUS
<1> HIDE DEF names
<1> QED BY <1>1, <1>2, <1>3

(* Of the keys that set an attribute there is a last one.                   *)
LEMMA LastKey ==
    ASSUME NEW setting \in SUBSET DOMAIN GenericKeys, NEW i \in setting
    PROVE  \E l \in setting :
              /\ GenericKeys[l][2] = GenericKeys[i][2]
              /\ \A j \in setting : GenericKeys[j][2] = GenericKeys[i][2] => j <= l
<1>1. \A j \in setting : j \in 1 .. 14
  BY KeysApart
<1>2. CASE i = 4 /\ 13 \in setting /\ GenericKeys[13][2] = GenericKeys[4][2]
  <2>1. \A j \in setting : GenericKeys[j][2] = GenericKeys[i][2] => j <= 13
    BY <1>1, <1>2, KeysApart
  <2> QED BY <1>2, <2>1
<1>3. CASE ~(i = 4 /\ 13 \in setting /\ GenericKeys[13][2] = GenericKeys[4][2])
  <2>1. \A j \in setting : GenericKeys[j][2] = GenericKeys[i][2] => j <= i
    BY <1>1, <1>3, KeysApart
  <2> QED BY <2>1
<1> QED BY <1>2, <1>3

(* The data of any other event.                                             *)
LEMMA GenericLimited == ASSUME NEW data PROVE Limited(GenericAttributes(data))
<1> DEFINE One(i)  == SetAttribute(NoAttributes, GenericKeys[i][2], Get(data, GenericKeys[i][1]))
           setting == {i \in DOMAIN GenericKeys : DOMAIN One(i) # {}}
           Last(k) == CHOOSE i \in setting : /\ GenericKeys[i][2] = k
                                             /\ \A j \in setting : GenericKeys[j][2] = k => j <= i
           named   == [k \in {GenericKeys[i][2] : i \in setting} |-> One(Last(k))[k]]
<1>1. \A i : Limited(One(i)) /\ DOMAIN One(i) \in SUBSET {GenericKeys[i][2]}
  <2>1. ASSUME NEW key, NEW value
        PROVE  DOMAIN SetAttribute(NoAttributes, key, value) \in SUBSET {key}
    BY DEF SetAttribute, Put, NoAttributes
  <2>2. ASSUME NEW key, NEW value PROVE Limited(SetAttribute(NoAttributes, key, value))
    BY NoneLimited, SetAttributeLimited
  <2> QED BY <2>1, <2>2
<1>2. ASSUME NEW k \in DOMAIN named
      PROVE  Last(k) \in setting /\ GenericKeys[Last(k)][2] = k
  <2>1. PICK i \in setting : GenericKeys[i][2] = k
    OBVIOUS
  <2>2. setting \in SUBSET DOMAIN GenericKeys
    OBVIOUS
  <2> HIDE DEF setting
  <2>3. \E l \in setting : /\ GenericKeys[l][2] = k
                           /\ \A j \in setting : GenericKeys[j][2] = k => j <= l
    BY <2>1, <2>2, LastKey
  <2> QED BY <2>3
<1>3. ASSUME NEW k \in DOMAIN named, named[k].type = "str"
      PROVE  named[k].length <= MaxLength
  <2>1. Last(k) \in setting /\ GenericKeys[Last(k)][2] = k
    BY <1>2
  <2>2. named[k] = One(Last(k))[k]
    OBVIOUS
  <2>3. \A i \in setting : DOMAIN One(i) # {}
    OBVIOUS
  <2> HIDE DEF named, setting, One, Last
  <2>4. k \in DOMAIN One(Last(k))
    BY <1>1, <2>1, <2>3
  <2> QED BY <1>1, <1>3, <2>2, <2>4 DEF Limited
<1>4. Limited(named)
  BY <1>3 DEF Limited
<1>5. GenericAttributes(data) = SetEntity(named, Get(data, "entity_id"))
  BY DEF GenericAttributes
<1> HIDE DEF named
<1> QED BY <1>4, <1>5, SetEntityLimited

(* An event's span, of any data; its type is set as it is.                  *)
LEMMA EventLimited ==
    ASSUME NEW type, NEW context, NEW data, Limited(ContextAttributes(context)),
           type.length <= MaxLength
    PROVE  Limited(EventAttributes(type, context, data))
<1>1. \A of : Limited(OfEventData(type, of))
  <2> SUFFICES ASSUME NEW of PROVE Limited(OfEventData(type, of))
    OBVIOUS
  <2>1. Limited(CallServiceEventAttributes(of))
    <3>1. Limited(ServiceAttributes(NoAttributes, Get(of, "domain"), Get(of, "service")))
      BY NoneLimited, ServiceLimited
    <3> QED BY <3>1, ServiceLimited DEF CallServiceEventAttributes
  <2> QED BY <2>1, StateChangedLimited, TriggerLimited, GenericLimited DEF OfEventData
<1>2. Limited(Put(ContextAttributes(context), "event.type", type))
  BY PutLimited
<1> QED BY <1>1, <1>2, NoneLimited, UpdateLimited DEF EventAttributes

(* The span of a service, whose domain and name are not cut.                *)
LEMMA ServiceCallLimited ==
    ASSUME NEW context, Limited(ContextAttributes(context)), NEW call,
           call.domain.length <= MaxLength, call.service.length <= MaxLength
    PROVE  Limited(ServiceCallAttributes(context, call))
<1> DEFINE named == [k \in {"service.domain", "service.name"} |->
                        IF k = "service.domain" THEN call.domain ELSE call.service]
<1>1. Limited(named)
  BY DEF Limited
<1>2. ServiceCallAttributes(context, call) =
        SetEntity(Update(ContextAttributes(context), named), Get(call.data, "entity_id"))
  BY DEF ServiceCallAttributes
<1> HIDE DEF named
<1> QED BY <1>1, <1>2, UpdateLimited, SetEntityLimited

(* The types that Home Assistant lets be fired, and those of its own calls. *)
LEMMA TypesLimited ==
    /\ \A kind \in Kinds : kind.type.length <= MaxLength
    /\ Str("call_service", Absent, 12).length <= MaxLength
<1>1. ASSUME NEW n \in 0 .. MaxEventType PROVE n <= MaxLength
  BY <1>1, LengthAssumption DEF MaxEventType
<1>2. \A kind \in Kinds : kind.type.length \in 0 .. MaxEventType
  BY KindsAssumption
<1>3. Str("call_service", Absent, 12).length = 12
  BY DEF Str, String
<1> QED BY <1>1, <1>2, <1>3, LengthAssumption DEF MaxEventType

(* Lower case changes neither type nor length.                              *)
LEMMA LowerKeeps ==
    ASSUME NEW value PROVE Lower(value).type = value.type
                           /\ (Is(value, "str") => Lower(value).length = value.length)
BY DEF Lower, Is, String

(* What every step's spans say is limited, whatever the step before did.    *)
LEMMA NextLimited == BoundedAttributes /\ [Next]_vars => BoundedAttributes'
<1> SUFFICES ASSUME BoundedAttributes, [Next]_vars PROVE BoundedAttributes'
  OBVIOUS
<1>1. ASSUME NEW S, said' = Said(Absent, S), \A attributes \in S : Limited(attributes)
      PROVE  BoundedAttributes'
  <2>1. said'.spans = S
    BY <1>1 DEF Said
  <2> QED BY <1>1, <2>1 DEF BoundedAttributes, Limited
<1>2. ASSUME said' = NothingSaid PROVE BoundedAttributes'
  BY <1>2, <1>1 DEF NothingSaid
<1>3. ASSUME NEW kind \in Kinds, NEW c \in DOMAIN contexts, Fire(kind, c) PROVE BoundedAttributes'
  <2>1. Limited(EventAttributes(kind.type, ContextOf(c), kind.data))
    BY ContextLimited, EventLimited, TypesLimited
  <2>2. said' = Said(Absent, IF installed THEN {EventAttributes(kind.type, ContextOf(c), kind.data)}
                             ELSE {})
    BY <1>3 DEF Fire
  <2> QED BY <1>1, <2>1, <2>2
<1>4. ASSUME NEW kind \in Kinds, FireContextless(kind) PROVE BoundedAttributes'
  <2>1. Limited(EventAttributes(kind.type, Absent, kind.data))
    BY ContextLimited, EventLimited, TypesLimited
  <2>2. said' = Said(Absent, IF installed THEN {EventAttributes(kind.type, Absent, kind.data)}
                             ELSE {})
    BY <1>4 DEF FireContextless
  <2> QED BY <1>1, <2>1, <2>2
<1>5. ASSUME NEW msg \in Calls, NEW c \in DOMAIN contexts, CallService(msg, c)
      PROVE  BoundedAttributes'
  <2> DEFINE type == Str("call_service", Absent, 12)
  <2>1. PICK data, call :
          /\ call.domain = Lower(msg.domain) /\ call.service = Lower(msg.service)
          /\ said' = Said(msg, {WebsocketCallAttributes(msg),
                                EventAttributes(type, ContextOf(c), data),
                                ServiceCallAttributes(ContextOf(c), call)})
    BY <1>5 DEF CallService
  <2>2. type.length <= MaxLength
    BY TypesLimited
  <2> HIDE DEF type
  <2>3. /\ Limited(WebsocketCallAttributes(msg))
        /\ Limited(EventAttributes(type, ContextOf(c), data))
    BY <2>2, WebsocketCallLimited, ContextLimited, EventLimited
  <2>4. Limited(ServiceCallAttributes(ContextOf(c), call))
    BY <2>1, CallsAssumption, LowerKeeps, ContextLimited, ServiceCallLimited
  <2>5. said'.spans = {WebsocketCallAttributes(msg),
                       EventAttributes(type, ContextOf(c), data),
                       ServiceCallAttributes(ContextOf(c), call)}
    BY <2>1 DEF Said
  <2> QED BY <2>3, <2>4, <2>5 DEF BoundedAttributes, Limited
<1>6. ASSUME UNCHANGED said PROVE BoundedAttributes'
  BY <1>6 DEF BoundedAttributes
<1> QED BY <1>2, <1>3, <1>4, <1>5, <1>6
        DEF Next, vars, NewContext, SendPlain, SendCached, SendDiff, Install, Uninstall

(* Nothing that a message, an event or a call brings makes a long attribute.*)
THEOREM AttributesAreLimited == Spec => []BoundedAttributes
<1>1. Init => BoundedAttributes
  BY DEF Init, NothingSaid, Said, BoundedAttributes
<1> QED BY <1>1, NextLimited, PTL DEF Spec

-----------------------------------------------------------------------------
(* The three spans of a call.  What each of them says is compared with one  *)
(* account of the call, as it is or in lower case; so they cannot contradict*)
(* each other.                                                              *)
Settable(value) == Is(value, "str") \/ Is(value, "bool") \/ Is(value, "int")

SetTo(value) == IF Is(value, "str") THEN Truncate(value) ELSE value

As(exact, value) == IF exact THEN value ELSE Lower(value)

AgreesWith(attributes, account, exact) ==
    \A k \in DOMAIN attributes : As(exact, attributes[k]) = account[k]

LEMMA PutAgrees ==
    ASSUME NEW exact, NEW account, NEW attributes, AgreesWith(attributes, account, exact), NEW key,
           NEW value, account[key] = As(exact, value)
    PROVE  AgreesWith(Put(attributes, key, value), account, exact)
BY DEF AgreesWith, Put

LEMMA SetAttributeAgrees ==
    ASSUME NEW exact, NEW account, NEW attributes, AgreesWith(attributes, account, exact), NEW key,
           NEW value, Settable(value) => account[key] = As(exact, SetTo(value))
    PROVE  AgreesWith(SetAttribute(attributes, key, value), account, exact)
<1>1. CASE Is(value, "str") /\ value.length > 0
  <2>1. AgreesWith(Put(attributes, key, Truncate(value)), account, exact)
    BY <1>1, PutAgrees DEF Settable, SetTo
  <2> QED BY <1>1, <2>1 DEF SetAttribute
<1>2. CASE Is(value, "bool") \/ Is(value, "int")
  <2>1. ~Is(value, "str")
    BY <1>2 DEF Is
  <2>2. AgreesWith(Put(attributes, key, value), account, exact)
    BY <1>2, <2>1, PutAgrees DEF Settable, SetTo
  <2> QED BY <1>2, <2>1, <2>2 DEF SetAttribute
<1> QED BY <1>1, <1>2 DEF SetAttribute

LEMMA UpdateAgrees ==
    ASSUME NEW exact, NEW account, NEW attributes, AgreesWith(attributes, account, exact),
           NEW new, AgreesWith(new, account, exact)
    PROVE  AgreesWith(Update(attributes, new), account, exact)
BY DEF AgreesWith, Update

LEMMA NoneAgrees == ASSUME NEW exact, NEW account PROVE AgreesWith(NoAttributes, account, exact)
BY DEF AgreesWith, NoAttributes

LEMMA SetEntityAgrees ==
    ASSUME NEW exact, NEW account, NEW attributes, AgreesWith(attributes, account, exact), NEW value,
           Settable(value) => account["entity.id"] = As(exact, SetTo(value)),
           EntityOf(value) # Absent =>
               account["entity.domain"] = As(exact, SetTo(EntityOf(value).domain))
    PROVE  AgreesWith(SetEntity(attributes, value), account, exact)
<1> DEFINE set == SetAttribute(attributes, "entity.id", value)
<1>1. AgreesWith(set, account, exact)
  BY SetAttributeAgrees
<1> HIDE DEF set
<1>2. AgreesWith(SetEntityDomain(set, value), account, exact)
  <2>1. CASE EntityOf(value) = Absent \/ EntityOf(value).domain = Absent
    BY <1>1, <2>1 DEF SetEntityDomain
  <2>2. CASE EntityOf(value) # Absent /\ EntityOf(value).domain # Absent
    <3>1. SetEntityDomain(set, value) =
            SetAttribute(set, "entity.domain", EntityOf(value).domain)
      BY <2>2 DEF SetEntityDomain
    <3> QED BY <1>1, <2>2, <3>1, SetAttributeAgrees
  <2> QED BY <2>1, <2>2
<1> QED BY <1>2 DEF SetEntity, set

(* A value that is not there names no entity.                               *)
LEMMA NoEntity == ~Settable(Absent) /\ EntityOf(Absent) = Absent /\ Lower(Absent) = Absent
BY DEF Settable, EntityOf, Lower, Is, Absent

LEMMA LowerTwice == ASSUME NEW value PROVE Lower(Lower(value)) = Lower(value)
BY DEF Lower, Is, String

(* Lower case and the limit of an attribute do not disturb each other, nor  *)
(* does the lower case of an entity that of its domain.                     *)
LEMMA LowerSetTo ==
    ASSUME NEW value, Is(value, "str")
    PROVE  /\ Lower(SetTo(Lower(value))) = Lower(SetTo(value))
           /\ Lower(SetTo(Lower(value).domain)) = Lower(SetTo(value.domain))
<1>1. ASSUME NEW v, Is(v, "str")
      PROVE  /\ Lower(v) = String(v.name, FALSE, Lower(v).domain, v.length)
             /\ Lower(SetTo(v)) = String(v.name, FALSE, Lower(v).domain, SetTo(v).length)
             /\ SetTo(Lower(v)).length = SetTo(v).length
  BY <1>1 DEF Lower, SetTo, Truncate, Cut, Is, String
<1>2. Lower(SetTo(Lower(value))) = Lower(SetTo(value))
  <2>1. Is(Lower(value), "str") /\ Lower(Lower(value)) = Lower(value)
    BY LowerKeeps, LowerTwice DEF Is
  <2>2. Lower(value).name = value.name
    BY <1>1 DEF String
  <2> QED BY <1>1, <2>1, <2>2
<1>3. Lower(SetTo(Lower(value).domain)) = Lower(SetTo(value.domain))
  <2>1. CASE Is(value.domain, "str")
    <3> DEFINE d == value.domain
               l == Lower(value).domain
    <3>1. /\ l = String(d.name, FALSE, d.domain, d.length)
          /\ Is(l, "str") /\ l.name = d.name /\ l.length = d.length /\ l.domain = d.domain
      BY <2>1 DEF Lower, Is, String
    <3>2. Lower(l).domain = Lower(d).domain
      BY <2>1, <3>1 DEF Lower, Is, String
    <3>3. SetTo(l).length = SetTo(d).length
      BY <2>1, <3>1 DEF SetTo, Truncate, Cut, String
    <3> HIDE DEF d, l
    <3> QED BY <1>1, <2>1, <3>1, <3>2, <3>3 DEF d, l
  <2>2. CASE ~Is(value.domain, "str")
    BY <2>2 DEF Lower, Is, String
  <2> QED BY <2>1, <2>2
<1> QED BY <1>2, <1>3

(* The first string of a list is one, and in lower case it is still first.  *)
LEMMA FirstOfLowered ==
    ASSUME NEW items
    PROVE  /\ FirstString([i \in DOMAIN items |-> Lower(items[i])]) = Lower(FirstString(items))
           /\ \/ FirstString(items) = Absent
              \/ /\ Is(FirstString(items), "str")
                 /\ \E i \in DOMAIN items : FirstString(items) = items[i]
<1> DEFINE lowered  == [i \in DOMAIN items |-> Lower(items[i])]
           First(s) == {i \in DOMAIN s : /\ Is(s[i], "str")
                                         /\ \A j \in DOMAIN s : Is(s[j], "str") => i <= j}
           first    == CHOOSE i \in First(items) : TRUE
<1>1. DOMAIN lowered = DOMAIN items /\ \A i \in DOMAIN items : lowered[i] = Lower(items[i])
  OBVIOUS
<1>2. \A i \in DOMAIN items : Is(lowered[i], "str") <=> Is(items[i], "str")
  BY <1>1, LowerKeeps DEF Is
<1> HIDE DEF lowered
<1>3. First(lowered) = First(items)
  BY <1>1, <1>2
<1>4. First(items) # {} => first \in DOMAIN items /\ Is(items[first], "str")
  OBVIOUS
<1>5. FirstString(lowered) = IF First(items) = {} THEN Absent ELSE lowered[first]
  <2>1. FirstString(lowered) = IF First(lowered) = {} THEN Absent
                               ELSE lowered[CHOOSE i \in First(lowered) : TRUE]
    BY DEF FirstString
  <2> HIDE DEF First
  <2> QED BY <1>3, <2>1
<1>6. FirstString(items) = IF First(items) = {} THEN Absent ELSE items[first]
  BY DEF FirstString
<1> HIDE DEF First, first
<1> QED BY <1>1, <1>4, <1>5, <1>6, NoEntity DEF lowered

(* An entity by itself and in a list of its own is looked at alike.         *)
LEMMA EntityInList ==
    ASSUME NEW value, Is(value, "str")
    PROVE  EntityOf(value) = value /\ EntityOf(List(<<value>>)) = value
<1>1. FirstString(<<value>>) = value
  <2> DEFINE items == <<value>>
             first == {i \in DOMAIN items :
                         /\ Is(items[i], "str")
                         /\ \A j \in DOMAIN items : Is(items[j], "str") => i <= j}
  <2>1. first = {1} /\ items[1] = value
    OBVIOUS
  <2>2. FirstString(items) = IF first = {} THEN Absent ELSE items[CHOOSE i \in first : TRUE]
    BY DEF FirstString
  <2> HIDE DEF items, first
  <2> QED BY <2>1, <2>2 DEF items
<1>2. EntityOf(value) = value
  BY DEF EntityOf
<1>3. EntityOf(List(<<value>>)) = FirstString(<<value>>)
  BY DEF EntityOf, List, Is
<1> QED BY <1>1, <1>2, <1>3

(* If an entity is looked at, it is a string.                               *)
LEMMA EntityIsString ==
    ASSUME NEW value PROVE EntityOf(value) = Absent \/ Is(EntityOf(value), "str")
<1>1. CASE Is(value, "str")
  BY <1>1 DEF EntityOf
<1>2. CASE ~Is(value, "str")
  <2>1. EntityOf(value) \in {FirstString(value.items), Absent}
    BY <1>2 DEF EntityOf
  <2> QED BY <2>1, FirstOfLowered
<1> QED BY <1>1, <1>2

(* What a schema makes of an entity is looked at like the entity itself.    *)
LEMMA ProcessedIsLooked ==
    ASSUME NEW entity, NEW processed \in Processed(entity)
    PROVE  /\ Settable(processed) => processed \in {entity, Lower(entity)}
           /\ EntityOf(processed) \in {EntityOf(entity), Lower(EntityOf(entity))}
<1>1. ASSUME NEW items
      PROVE  ~Settable(List(items)) /\ EntityOf(List(items)) = FirstString(items)
  BY DEF Settable, EntityOf, List, Is
<1>2. CASE processed = entity
  BY <1>2
<1>3. CASE Is(entity, "str") /\ processed \in {Lower(entity), List(<<Lower(entity)>>)}
  <2>1. Is(Lower(entity), "str")
    BY <1>3, LowerKeeps DEF Is
  <2>2. EntityOf(entity) = entity /\ EntityOf(processed) = Lower(entity)
    BY <1>3, <2>1, EntityInList
  <2> QED BY <1>1, <1>3, <2>2
<1>4. CASE /\ Is(entity, "list")
           /\ processed = List([i \in DOMAIN entity.items |-> Lower(entity.items[i])])
  <2>1. EntityOf(entity) = FirstString(entity.items)
    BY <1>4 DEF EntityOf, Is
  <2>2. EntityOf(processed) = Lower(FirstString(entity.items))
    BY <1>1, <1>4, FirstOfLowered
  <2> QED BY <1>1, <1>4, <2>1, <2>2
<1> QED BY <1>2, <1>3, <1>4 DEF Processed

(* What Home Assistant makes of the data and the target of a message.       *)
Merged(msg) ==
    Update(IF Is(Get(msg, "service_data"), "dict") THEN msg["service_data"].of ELSE NoAttributes,
           IF Is(Get(msg, "target"), "dict") THEN msg["target"].of ELSE NoAttributes)

Entity(msg) == Get(Merged(msg), "entity_id")

CallType == Str("call_service", Absent, 12)

TargetId(msg, key) == TargetValue(Get(Get(msg, "target").of, key))

ContextKeys == {"context.id", "context.parent_id", "enduser.id"}

(* The account of a call that its spans are compared with.                  *)
Account(msg, context, exact) ==
    [k \in ContextKeys \cup
           {"event.type", "service.domain", "service.name", "entity.id", "entity.domain",
            "service.target.entity_id", "service.target.device_id", "service.target.area_id"} |->
        CASE k = "event.type"     -> As(exact, CallType)
          [] k = "service.domain" -> As(exact, msg.domain)
          [] k = "service.name"   -> As(exact, msg.service)
          [] k = "entity.id"      -> As(exact, SetTo(Entity(msg)))
          [] k = "entity.domain"  -> As(exact, SetTo(EntityOf(Entity(msg)).domain))
          [] k = "service.target.entity_id" -> As(exact, SetTo(TargetId(msg, "entity_id")))
          [] k = "service.target.device_id" -> As(exact, SetTo(TargetId(msg, "device_id")))
          [] k = "service.target.area_id"   -> As(exact, SetTo(TargetId(msg, "area_id")))
          [] k \in ContextKeys -> As(exact, ContextAttributes(context)[k])]

LEMMA AccountSays ==
    ASSUME NEW msg, NEW context, NEW exact, NEW account, account = Account(msg, context, exact)
    PROVE  /\ account["event.type"] = As(exact, CallType)
           /\ account["service.domain"] = As(exact, msg.domain)
           /\ account["service.name"] = As(exact, msg.service)
           /\ account["entity.id"] = As(exact, SetTo(Entity(msg)))
           /\ account["entity.domain"] = As(exact, SetTo(EntityOf(Entity(msg)).domain))
           /\ account["service.target.entity_id"] = As(exact, SetTo(TargetId(msg, "entity_id")))
           /\ account["service.target.device_id"] = As(exact, SetTo(TargetId(msg, "device_id")))
           /\ account["service.target.area_id"] = As(exact, SetTo(TargetId(msg, "area_id")))
           /\ \A k \in ContextKeys : account[k] = As(exact, ContextAttributes(context)[k])
<1>1. /\ account["event.type"] = As(exact, CallType)
      /\ account["service.domain"] = As(exact, msg.domain)
      /\ account["service.name"] = As(exact, msg.service)
  BY DEF Account, ContextKeys
<1>2. /\ account["entity.id"] = As(exact, SetTo(Entity(msg)))
      /\ account["entity.domain"] = As(exact, SetTo(EntityOf(Entity(msg)).domain))
  BY DEF Account, ContextKeys
<1>3. /\ account["service.target.entity_id"] = As(exact, SetTo(TargetId(msg, "entity_id")))
      /\ account["service.target.device_id"] = As(exact, SetTo(TargetId(msg, "device_id")))
      /\ account["service.target.area_id"] = As(exact, SetTo(TargetId(msg, "area_id")))
  BY DEF Account, ContextKeys
<1>4. \A k \in ContextKeys : account[k] = As(exact, ContextAttributes(context)[k])
  BY DEF Account, ContextKeys
<1> QED BY <1>1, <1>2, <1>3, <1>4

(* The service's domain and name are not cut, in lower case or not.         *)
LEMMA NamesAsGiven ==
    ASSUME NEW msg \in Calls, NEW exact, exact => InLowerCase(msg),
           NEW name \in {msg.domain, msg.service}
    PROVE  /\ SetTo(name) = name /\ SetTo(Lower(name)) = Lower(name)
           /\ As(exact, Lower(name)) = As(exact, name)
<1>1. /\ SetTo(name) = name /\ SetTo(Lower(name)) = Lower(name)
  BY CallsAssumption, LowerKeeps DEF SetTo, Truncate, Is
<1>2. exact => Lower(name) = name
  BY DEF InLowerCase
<1> QED BY <1>1, <1>2, LowerTwice DEF As

(* A context's span attributes are those of the account.                    *)
LEMMA ContextAgrees ==
    ASSUME NEW msg, NEW context, NEW exact
    PROVE  AgreesWith(ContextAttributes(context), Account(msg, context, exact), exact)
<1>1. DOMAIN ContextAttributes(context) \in SUBSET ContextKeys
  BY DEF ContextAttributes, NoAttributes, Put, ContextKeys
<1> QED BY <1>1, AccountSays DEF AgreesWith

(* Domain, name and entity of a message, or of the event's data.            *)
LEMMA NamedAgrees ==
    ASSUME NEW exact, NEW account, NEW domain, NEW service, NEW service_data,
           Settable(domain) => account["service.domain"] = As(exact, SetTo(domain)),
           Settable(service) => account["service.name"] = As(exact, SetTo(service)),
           Is(service_data, "dict") =>
              LET entity == Get(service_data.of, "entity_id")
              IN  /\ Settable(entity) => account["entity.id"] = As(exact, SetTo(entity))
                  /\ EntityOf(entity) # Absent =>
                        account["entity.domain"] = As(exact, SetTo(EntityOf(entity).domain))
    PROVE  AgreesWith(OfServiceData(ServiceAttributes(NoAttributes, domain, service),
                                    service_data), account, exact)
<1> DEFINE named == ServiceAttributes(NoAttributes, domain, service)
<1>1. AgreesWith(SetAttribute(NoAttributes, "service.domain", domain), account, exact)
  BY NoneAgrees, SetAttributeAgrees
<1>2. AgreesWith(named, account, exact)
  BY <1>1, SetAttributeAgrees DEF ServiceAttributes
<1> HIDE DEF named
<1>3. CASE Is(service_data, "dict")
  <2>1. AgreesWith(SetEntity(named, Get(service_data.of, "entity_id")), account, exact)
    BY <1>2, <1>3, SetEntityAgrees
  <2> QED BY <1>3, <2>1 DEF OfServiceData, named
<1>4. CASE ~Is(service_data, "dict")
  BY <1>2, <1>4 DEF OfServiceData, named
<1> QED BY <1>3, <1>4

(* An entity in the data of a message is the call's, if the target names    *)
(* none.                                                                    *)
LEMMA EntityOfData ==
    ASSUME NEW msg, ~NamesTwice(msg), Is(Get(msg, "service_data"), "dict"),
           NEW entity, entity = Get(Get(msg, "service_data").of, "entity_id"), entity # Absent
    PROVE  entity = Entity(msg)
<1>1. Get(msg, "service_data") = msg["service_data"]
  BY DEF Get, Is, Absent
<1>2. /\ "entity_id" \in DOMAIN msg["service_data"].of
      /\ entity = msg["service_data"].of["entity_id"]
  BY <1>1 DEF Get
<1> DEFINE target == IF Is(Get(msg, "target"), "dict") THEN msg["target"].of ELSE NoAttributes
<1>3. "entity_id" \notin DOMAIN target
  BY <1>1, <1>2 DEF NamesTwice, NoAttributes
<1>4. Merged(msg) = Update(msg["service_data"].of, target)
  BY DEF Merged
<1> HIDE DEF target
<1>5. "entity_id" \in DOMAIN Merged(msg) /\ Merged(msg)["entity_id"] = entity
  BY <1>2, <1>3, <1>4 DEF Update
<1> QED BY <1>5 DEF Entity, Get

(* The span of the message.                                                 *)
LEMMA MessageAgrees ==
    ASSUME NEW msg \in Calls, ~NamesTwice(msg), NEW context,
           NEW exact, exact => InLowerCase(msg)
    PROVE  AgreesWith(WebsocketCallAttributes(msg), Account(msg, context, exact), exact)
<1> PICK account : account = Account(msg, context, exact)
  OBVIOUS
<1> DEFINE named  == OfServiceData(ServiceAttributes(NoAttributes, Get(msg, "domain"),
                                                     Get(msg, "service")),
                                   Get(msg, "service_data"))
           target == Get(msg, "target")
           Target(attributes, key, attribute) ==
               IF ~Is(target, "dict") THEN attributes
               ELSE SetAttribute(attributes, attribute, TargetValue(Get(target.of, key)))
<1>1. AgreesWith(named, account, exact)
  <2>1. Settable(Get(msg, "domain")) =>
            account["service.domain"] = As(exact, SetTo(Get(msg, "domain")))
    BY AccountSays, NamesAsGiven, NoEntity DEF Get
  <2>2. Settable(Get(msg, "service")) =>
            account["service.name"] = As(exact, SetTo(Get(msg, "service")))
    BY AccountSays, NamesAsGiven, NoEntity DEF Get
  <2>3. ASSUME Is(Get(msg, "service_data"), "dict"),
               NEW entity, entity = Get(Get(msg, "service_data").of, "entity_id")
        PROVE  /\ Settable(entity) => account["entity.id"] = As(exact, SetTo(entity))
               /\ EntityOf(entity) # Absent =>
                     account["entity.domain"] = As(exact, SetTo(EntityOf(entity).domain))
    <3>1. CASE entity = Absent
      BY <3>1, NoEntity
    <3>2. CASE entity # Absent
      <4>1. entity = Entity(msg)
        BY <2>3, <3>2, EntityOfData
      <4> QED BY <4>1, AccountSays
    <3> QED BY <3>1, <3>2
  <2> QED BY <2>1, <2>2, <2>3, NamedAgrees
<1>2. ASSUME NEW attributes, AgreesWith(attributes, account, exact), NEW key, NEW attribute,
             account[attribute] = As(exact, SetTo(TargetValue(Get(target.of, key))))
      PROVE  AgreesWith(Target(attributes, key, attribute), account, exact)
  BY <1>2, SetAttributeAgrees
<1>3. /\ account["service.target.entity_id"] =
            As(exact, SetTo(TargetValue(Get(target.of, "entity_id"))))
      /\ account["service.target.device_id"] =
            As(exact, SetTo(TargetValue(Get(target.of, "device_id"))))
      /\ account["service.target.area_id"] =
            As(exact, SetTo(TargetValue(Get(target.of, "area_id"))))
  BY AccountSays DEF TargetId
<1>4. WebsocketCallAttributes(msg) =
        Target(Target(Target(named, "entity_id", "service.target.entity_id"),
                      "device_id", "service.target.device_id"),
               "area_id", "service.target.area_id")
  BY DEF WebsocketCallAttributes
<1> HIDE DEF named, target, Target
<1> QED BY <1>1, <1>2, <1>3, <1>4

(* The span of the event, whose data has the message's merged.              *)
LEMMA EventAgrees ==
    ASSUME NEW msg \in Calls, NEW context, NEW exact, exact => InLowerCase(msg), NEW data,
           data = [domain |-> Lower(msg.domain), service |-> Lower(msg.service),
                   service_data |-> Dict(Merged(msg))]
    PROVE  AgreesWith(EventAttributes(CallType, context, Dict(data)),
                      Account(msg, context, exact), exact)
<1> PICK account : account = Account(msg, context, exact)
  OBVIOUS
<1>1. /\ Get(data, "domain") = Lower(msg.domain) /\ Get(data, "service") = Lower(msg.service)
      /\ Get(data, "service_data") = Dict(Merged(msg))
      /\ Dict(Merged(msg)).of = Merged(msg) /\ Dict(data).of = data
  BY DEF Get, Dict
<1>2. AgreesWith(CallServiceEventAttributes(data), account, exact)
  <2>1. /\ account["service.domain"] = As(exact, SetTo(Get(data, "domain")))
        /\ account["service.name"] = As(exact, SetTo(Get(data, "service")))
    BY <1>1, AccountSays, NamesAsGiven
  <2>2. Get(Get(data, "service_data").of, "entity_id") = Entity(msg)
    BY <1>1 DEF Entity
  <2>3. /\ account["entity.id"] = As(exact, SetTo(Entity(msg)))
        /\ account["entity.domain"] = As(exact, SetTo(EntityOf(Entity(msg)).domain))
    BY AccountSays
  <2> QED BY <2>1, <2>2, <2>3, NamedAgrees DEF CallServiceEventAttributes
<1>3. AgreesWith(Put(ContextAttributes(context), "event.type", CallType), account, exact)
  BY ContextAgrees, AccountSays, PutAgrees
<1>4. OfEventData(CallType, data) = CallServiceEventAttributes(data)
  BY DEF OfEventData, Named, CallType, Str, String
<1> QED BY <1>1, <1>2, <1>3, <1>4, NoneAgrees, UpdateAgrees DEF EventAttributes

(* The entity of a message in lower case is the same in lower case.         *)
LEMMA EntityInLowerCase ==
    ASSUME NEW msg, InLowerCase(msg)
    PROVE  /\ Lower(Entity(msg)) = Entity(msg)
           /\ Lower(EntityOf(Entity(msg))) = EntityOf(Entity(msg))
<1> DEFINE data   == IF Is(Get(msg, "service_data"), "dict") THEN msg["service_data"].of
                     ELSE NoAttributes
           target == IF Is(Get(msg, "target"), "dict") THEN msg["target"].of ELSE NoAttributes
           InLower(entity) ==
              /\ entity = Lower(entity)
              /\ Is(entity, "list") => \A i \in DOMAIN entity.items :
                                          entity.items[i] = Lower(entity.items[i])
<1>1. InLower(Absent)
  BY NoEntity DEF Is, Absent
<1>2. InLower(Get(data, "entity_id")) /\ InLower(Get(target, "entity_id"))
  <2>1. InLower(Get(NoAttributes, "entity_id"))
    BY <1>1 DEF Get, NoAttributes
  <2> QED BY <2>1 DEF InLowerCase
<1>3. Entity(msg) \in {Get(data, "entity_id"), Get(target, "entity_id"), Absent}
  <2>1. Merged(msg) = Update(data, target)
    BY DEF Merged
  <2> HIDE DEF data, target
  <2> QED BY <2>1 DEF Entity, Get, Update
<1>4. InLower(Entity(msg))
  BY <1>1, <1>2, <1>3
<1>5. ASSUME NEW entity, InLower(entity) PROVE Lower(EntityOf(entity)) = EntityOf(entity)
  <2>1. CASE Is(entity, "str")
    BY <1>5, <2>1 DEF EntityOf
  <2>2. CASE Is(entity, "list")
    <3>1. EntityOf(entity) = FirstString(entity.items)
      BY <2>2 DEF EntityOf, Is
    <3> QED BY <1>5, <2>2, <3>1, FirstOfLowered, NoEntity
  <2>3. CASE ~Is(entity, "str") /\ ~Is(entity, "list")
    BY <2>3, NoEntity DEF EntityOf
  <2> QED BY <2>1, <2>2, <2>3
<1> QED BY <1>4, <1>5

(* The span of the service, which is given its entity processed.            *)
LEMMA ServiceAgrees ==
    ASSUME NEW msg \in Calls, NEW context, NEW exact, exact => InLowerCase(msg), NEW call,
           call.domain = Lower(msg.domain), call.service = Lower(msg.service),
           NEW entity \in Processed(Entity(msg)),
           call.data = Put(Merged(msg), "entity_id", entity)
    PROVE  AgreesWith(ServiceCallAttributes(context, call), Account(msg, context, exact), exact)
<1> PICK account : account = Account(msg, context, exact)
  OBVIOUS
<1> DEFINE named  == [k \in {"service.domain", "service.name"} |->
                         IF k = "service.domain" THEN call.domain ELSE call.service]
<1>1. AgreesWith(named, account, exact)
  <2>1. /\ account["service.domain"] = As(exact, Lower(msg.domain))
        /\ account["service.name"] = As(exact, Lower(msg.service))
    BY AccountSays, NamesAsGiven
  <2> QED BY <2>1 DEF AgreesWith
<1>2. ServiceCallAttributes(context, call) =
        SetEntity(Update(ContextAttributes(context), named), Get(call.data, "entity_id"))
  BY DEF ServiceCallAttributes
<1>3. Get(call.data, "entity_id") = entity
  BY DEF Get, Put
<1> HIDE DEF named
<1>4. /\ Settable(entity) => account["entity.id"] = As(exact, SetTo(entity))
      /\ EntityOf(entity) # Absent =>
            account["entity.domain"] = As(exact, SetTo(EntityOf(entity).domain))
  <2>1. /\ account["entity.id"] = As(exact, SetTo(Entity(msg)))
        /\ account["entity.domain"] = As(exact, SetTo(EntityOf(Entity(msg)).domain))
    BY AccountSays
  <2>2. /\ Settable(entity) => entity \in {Entity(msg), Lower(Entity(msg))}
        /\ EntityOf(entity) \in {EntityOf(Entity(msg)), Lower(EntityOf(Entity(msg)))}
    BY ProcessedIsLooked
  <2>3. CASE exact
    BY <2>1, <2>2, <2>3, EntityInLowerCase
  <2>4. CASE ~exact
    <3>1. ASSUME NEW value
          PROVE  /\ As(exact, SetTo(Lower(value))) = As(exact, SetTo(value))
                 /\ Is(value, "str") => As(exact, SetTo(Lower(value).domain))
                                        = As(exact, SetTo(value.domain))
      <4>1. CASE Is(value, "str")
        BY <2>4, <4>1, LowerSetTo DEF As
      <4>2. CASE ~Is(value, "str")
        BY <4>2 DEF Lower
      <4> QED BY <4>1, <4>2
    <3>2. EntityOf(Entity(msg)) = Absent \/ Is(EntityOf(Entity(msg)), "str")
      BY EntityIsString
    <3>3. EntityOf(entity) # Absent => Is(EntityOf(Entity(msg)), "str")
      BY <2>2, <3>2, NoEntity
    <3> QED BY <2>1, <2>2, <3>1, <3>3
  <2> QED BY <2>3, <2>4
<1>5. AgreesWith(Update(ContextAttributes(context), named), account, exact)
  BY <1>1, ContextAgrees, UpdateAgrees
<1> QED BY <1>2, <1>3, <1>4, <1>5, SetEntityAgrees

(* The spans of a call agree; no other step has spans of a call.            *)
LEMMA NextAgrees == CallSpansAgree /\ [Next]_vars => CallSpansAgree'
<1> SUFFICES ASSUME CallSpansAgree, [Next]_vars PROVE CallSpansAgree'
  OBVIOUS
<1>1. ASSUME NEW S, said' = Said(Absent, S) PROVE CallSpansAgree'
  BY <1>1 DEF CallSpansAgree, Said
<1>2. ASSUME said' = NothingSaid PROVE CallSpansAgree'
  BY <1>1, <1>2 DEF NothingSaid
<1>3. ASSUME NEW msg \in Calls, NEW c \in DOMAIN contexts, CallService(msg, c)
      PROVE  CallSpansAgree'
  <2> DEFINE exact == InLowerCase(msg)
             data  == [domain |-> Lower(msg.domain), service |-> Lower(msg.service),
                       service_data |-> Dict(Merged(msg))]
             call(entity) == [domain |-> Lower(msg.domain), service |-> Lower(msg.service),
                              data   |-> Put(Merged(msg), "entity_id", entity)]
             account == Account(msg, ContextOf(c), exact)
             S(entity) == {WebsocketCallAttributes(msg),
                           EventAttributes(CallType, ContextOf(c), Dict(data)),
                           ServiceCallAttributes(ContextOf(c), call(entity))}
  <2>1. PICK entity \in Processed(Entity(msg)) : said' = Said(msg, S(entity))
    BY <1>3 DEF CallService, Merged, Entity, CallType
  <2>2. ASSUME ~NamesTwice(msg), NEW one \in S(entity) PROVE AgreesWith(one, account, exact)
    <3>1. AgreesWith(WebsocketCallAttributes(msg), account, exact)
      BY <2>2, MessageAgrees
    <3>2. AgreesWith(EventAttributes(CallType, ContextOf(c), Dict(data)), account, exact)
      BY EventAgrees
    <3>3. AgreesWith(ServiceCallAttributes(ContextOf(c), call(entity)), account, exact)
      BY ServiceAgrees
    <3> HIDE DEF data, call, account, exact
    <3> QED BY <2>2, <3>1, <3>2, <3>3
  <2>3. said'.call = msg /\ said'.spans = S(entity)
    BY <2>1 DEF Said
  <2> HIDE DEF S, account
  <2> QED BY <2>2, <2>3 DEF CallSpansAgree, AgreesWith, As
<1>4. ASSUME UNCHANGED said PROVE CallSpansAgree'
  BY <1>4 DEF CallSpansAgree
<1> QED BY <1>1, <1>2, <1>3, <1>4
        DEF Next, vars, Fire, FireContextless, NewContext, SendPlain, SendCached, SendDiff,
            Install, Uninstall

(* The three spans of one call never contradict each other, whatever form   *)
(* its entities are given in and whatever its service's schema makes of     *)
(* them, unless the message names the entity twice; only in what the client *)
(* wrote with capitals they may differ, by the case of the letters.         *)
THEOREM SpansOfACallAgree == Spec => []CallSpansAgree
<1>1. Init => CallSpansAgree
  BY DEF Init, NothingSaid, Said, CallSpansAgree
<1> QED BY <1>1, NextAgrees, PTL DEF Spec
=============================================================================
