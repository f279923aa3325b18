------------------------ MODULE ContextLinkingProofs -----------------------
(* Proofs about ContextLinking for any tasks, any carriers and every bound  *)
(* on spans, contexts and depth.                                            *)
(*                                                                          *)
(* The argument for TraceFollowsCause: a cause is claimed for a trace by    *)
(* its linked spans and by every recording span that is current, or will be *)
(* again, for a context of the cause, since a child of that span would be   *)
(* in its trace.  Claims agree.  A new trace for a cause would need that    *)
(* nothing claims the cause: linked spans leave a carrier on the context,   *)
(* and a recording span of no linked cause is a contextless event's, below  *)
(* whose dispatch everything records and no new trace begins.               *)
EXTENDS ContextLinking, SequenceTheorems, TLAPS

Open(t)   == task[t].open
Top       == running[Len(running)]

-----------------------------------------------------------------------------
(* References                                                               *)

SpansRefer ==
    \A i \in DOMAIN spans : /\ spans[i].trace \in DOMAIN spans
                            /\ spans[i].cause <= causes
                            /\ ~spans[i].linked => spans[i].sampled

ContextsRefer ==
    \A c \in DOMAIN contexts :
        /\ contexts[c].cause \in 1 .. causes
        /\ contexts[c].parent # None =>
              /\ contexts[c].parent \in DOMAIN registry
              /\ contexts[contexts[c].parent].cause = contexts[c].cause
        /\ (contexts[c].otel # None \/ contexts[c].carried) => c \in DOMAIN registry
        /\ contexts[c].traceparent \in (0 .. Len(spans)) \cup {Bad}
        /\ Readable(contexts[c].traceparent) =>
              /\ spans[contexts[c].traceparent].linked
              /\ spans[contexts[c].traceparent].cause = contexts[c].cause

TasksRefer ==
    \A t \in Task :
        /\ task[t].current \in 0 .. Len(spans)
        /\ task[t].context \in 0 .. Len(contexts)
        /\ \A j \in DOMAIN Open(t) : /\ Open(t)[j].span \in 1 .. Len(spans)
                                     /\ Open(t)[j].before \in 0 .. Len(spans)
                                     /\ Open(t)[j].context \in 0 .. Len(contexts)

-----------------------------------------------------------------------------
(* The with-blocks and the call stack                                       *)

Unlinked(s) == s \in DOMAIN spans /\ ~spans[s].linked

FramesNest ==
    /\ \A t \in Task : \A j \in DOMAIN Open(t) :
          /\ spans[Open(t)[j].span].open
          /\ j > 1 => Open(t)[j].before = Open(t)[j - 1].span
          /\ Unlinked(Open(t)[j].span) => Open(t)[j].sync
    /\ \A t \in Task : Open(t) # <<>> => task[t].current = Open(t)[Len(Open(t))].span
    /\ \A t, u \in Task : \A j \in DOMAIN Open(t) : \A k \in DOMAIN Open(u) :
          Open(t)[j].span = Open(u)[k].span => t = u /\ j = k

StackIsRunning ==
    /\ \A i \in DOMAIN running : task[running[i]].status = "running"
    /\ \A i, j \in DOMAIN running : running[i] = running[j] => i = j
    /\ \A t \in Task : InSyncBlock(t) => \E i \in DOMAIN running : running[i] = t

(* Span s is one that the task at place i of the stack has open.            *)
OpenAt(i, s) ==
    \E j \in DOMAIN Open(running[i]) : Open(running[i])[j].span = s

UnlinkedAreOpen ==
    \A s \in DOMAIN spans :
        Unlinked(s) /\ spans[s].open => \E i \in DOMAIN running : OpenAt(i, s)

(* What was current for the task when it was started.                       *)
Inherited(t) == IF Open(t) = <<>> THEN task[t].current ELSE Open(t)[1].before

(* Above the dispatch of a contextless event everything records.            *)
Sheltered ==
    \A i \in DOMAIN running : \A j \in DOMAIN Open(running[i]) :
        Unlinked(Open(running[i])[j].span) =>
            /\ \A k \in j .. Len(Open(running[i])) :
                  spans[Open(running[i])[k].span].sampled
            /\ \A m \in DOMAIN running : m > i =>
                  /\ \A k \in DOMAIN Open(running[m]) :
                        spans[Open(running[m])[k].span].sampled
                  /\ spans[Inherited(running[m])].sampled
                  /\ \E l \in DOMAIN running : l < m /\ OpenAt(l, Inherited(running[m]))

-----------------------------------------------------------------------------
(* Causes and traces                                                        *)

(* Span s is, or will be again, current for a task that works for c then.   *)
Current(s, c) ==
    \E t \in Task :
        \/ task[t].current = s /\ task[t].context = c
        \/ \E j \in DOMAIN Open(t) : Open(t)[j].before = s /\ Open(t)[j].context = c

LinkedTo(i, cause) == i \in DOMAIN spans /\ spans[i].linked /\ spans[i].cause = cause

Claims(cause, trace) ==
    \/ \E i \in DOMAIN spans : LinkedTo(i, cause) /\ spans[i].trace = trace
    \/ \E s \in DOMAIN spans, c \in DOMAIN contexts :
          /\ Current(s, c) /\ Recording(s)
          /\ contexts[c].cause = cause /\ spans[s].trace = trace

ClaimsAgree == \A cause, v, w \in Nat : Claims(cause, v) /\ Claims(cause, w) => v = w

(* Only a contextless event's span claims a cause that is not linked yet.   *)
UnlinkedClaims ==
    \A s \in DOMAIN spans, c \in DOMAIN contexts :
        Current(s, c) /\ Recording(s) /\ spans[s].linked =>
            \E i \in DOMAIN spans : LinkedTo(i, contexts[c].cause)

Parentless(c) == contexts[c].parent = None

LinkedIsCarried ==
    \A c \in DOMAIN contexts, i \in DOMAIN spans :
        Parentless(c) /\ LinkedTo(i, contexts[c].cause)
            => Readable(contexts[c].traceparent)

OneParentless ==
    \A c, d \in DOMAIN contexts :
        Parentless(c) /\ Parentless(d) /\ contexts[c].cause = contexts[d].cause => c = d

RequestSpan(t) == Open(t)[1].span

RequestIsNew(t) ==
    /\ Open(t) # <<>>
    /\ spans[RequestSpan(t)].linked /\ spans[RequestSpan(t)].cause >= 1
    /\ \A c \in DOMAIN contexts : contexts[c].cause # spans[RequestSpan(t)].cause
    /\ task[t].carrier \in (0 .. Len(spans)) \cup {Bad}
    /\ spans[RequestSpan(t)].sampled \/ Readable(task[t].carrier)
    /\ Readable(task[t].carrier) =>
          /\ LinkedTo(task[t].carrier, spans[RequestSpan(t)].cause)
          /\ spans[task[t].carrier].tracestate = task[t].tracestate
    /\ task[t].tracestate # None =>
          GoesWith(task[t].tracestate, spans[RequestSpan(t)].trace)

RequestsAreNew ==
    /\ \A t \in Task : task[t].request => RequestIsNew(t)
    /\ \A t, u \in Task :
          (task[t].request /\ task[u].request
             /\ spans[RequestSpan(t)].cause = spans[RequestSpan(u)].cause) => t = u

(* The tracestate of a context is that of its cause's trace.                *)
ContextTracestates ==
    \A c \in DOMAIN contexts : contexts[c].tracestate # None =>
        \E i \in DOMAIN spans : /\ LinkedTo(i, contexts[c].cause)
                                /\ GoesWith(contexts[c].tracestate, spans[i].trace)

IInv == /\ TypeOK /\ SpansRefer /\ ContextsRefer /\ TasksRefer /\ LinkAgreement
        /\ FramesNest /\ StackIsRunning /\ UnlinkedAreOpen /\ Sheltered
        /\ ClaimsAgree /\ UnlinkedClaims /\ LinkedIsCarried /\ OneParentless
        /\ RequestsAreNew /\ ContextTracestates /\ TracestateStays

-----------------------------------------------------------------------------
(* Sequences that grow and stacks that shrink.                              *)
Grown(old, new) == \A i \in DOMAIN old : i \in DOMAIN new /\ new[i] = old[i]

LEMMA AppendGrows ==
    ASSUME NEW S, NEW seq \in Seq(S), NEW x \in S
    PROVE  /\ Append(seq, x) \in Seq(S) /\ Len(Append(seq, x)) = Len(seq) + 1
           /\ Grown(seq, Append(seq, x)) /\ Append(seq, x)[Len(seq) + 1] = x
           /\ DOMAIN Append(seq, x) = 1 .. Len(seq) + 1
BY AppendProperties DEF Grown

LEMMA PopShrinks ==
    ASSUME NEW S, NEW seq \in Seq(S), seq # <<>>
    PROVE  /\ Pop(seq) \in Seq(S) /\ Len(Pop(seq)) = Len(seq) - 1
           /\ DOMAIN Pop(seq) = 1 .. Len(seq) - 1
           /\ \A i \in 1 .. Len(seq) - 1 : Pop(seq)[i] = seq[i]
<1>1. Len(seq) \in Nat /\ Len(seq) >= 1
  BY EmptySeq
<1> DEFINE n == Len(seq) - 1
<1>2. n \in Nat /\ \A i \in 1 .. n : seq[i] \in S
  BY <1>1, ElementOfSeq
<1> HIDE DEF n
<1>3. /\ SubSeq(seq, 1, n) \in Seq(S)
      /\ Len(SubSeq(seq, 1, n)) = IF 1 <= n THEN n - 1 + 1 ELSE 0
      /\ \A i \in 1 .. n - 1 + 1 : SubSeq(seq, 1, n)[i] = seq[1 + i - 1]
  BY <1>2, SubSeqProperties
<1>4. Len(SubSeq(seq, 1, n)) = n /\ \A i \in 1 .. n : SubSeq(seq, 1, n)[i] = seq[i]
  BY <1>2, <1>3
<1>5. DOMAIN SubSeq(seq, 1, n) = 1 .. n
  BY <1>3, <1>4
<1> QED BY <1>3, <1>4, <1>5 DEF Pop, n

-----------------------------------------------------------------------------
(* Types                                                                    *)
LEMMA Lengths ==
    ASSUME TypeOK
    PROVE  /\ Len(spans) \in Nat /\ DOMAIN spans = 1 .. Len(spans)
           /\ Len(contexts) \in Nat /\ DOMAIN contexts = 1 .. Len(contexts)
           /\ Len(running) \in Nat /\ DOMAIN running = 1 .. Len(running)
BY DEF TypeOK

LEMMA ElementTypes ==
    ASSUME TypeOK
    PROVE  /\ \A i \in DOMAIN spans : spans[i] \in Span
           /\ \A c \in DOMAIN contexts : contexts[c] \in Context
           /\ \A t \in Task : /\ task[t] \in TaskState
                              /\ Open(t) \in Seq(Frame)
                              /\ Len(Open(t)) \in Nat
                              /\ DOMAIN Open(t) = 1 .. Len(Open(t))
                              /\ \A j \in DOMAIN Open(t) : Open(t)[j] \in Frame
           /\ \A i \in DOMAIN running : running[i] \in Task
<1>1. \A i \in DOMAIN spans : spans[i] \in Span
  BY ElementOfSeq DEF TypeOK
<1>2. \A c \in DOMAIN contexts : contexts[c] \in Context
  BY ElementOfSeq DEF TypeOK
<1>3. \A i \in DOMAIN running : running[i] \in Task
  BY ElementOfSeq DEF TypeOK
<1>4. ASSUME NEW t \in Task
      PROVE  /\ task[t] \in TaskState
             /\ Open(t) \in Seq(Frame)
             /\ Len(Open(t)) \in Nat
             /\ DOMAIN Open(t) = 1 .. Len(Open(t))
             /\ \A j \in DOMAIN Open(t) : Open(t)[j] \in Frame
  <2>1. task[t] \in TaskState
    BY DEF TypeOK
  <2>2. Open(t) \in Seq(Frame)
    BY <2>1 DEF TaskState, Open
  <2> QED BY <2>1, <2>2, ElementOfSeq
<1> QED BY <1>1, <1>2, <1>3, <1>4

LEMMA TopRuns ==
    ASSUME TypeOK, NEW t, Runs(t)
    PROVE  /\ t \in Task /\ t = Top /\ running # <<>>
           /\ Len(running) >= 1 /\ Len(running) \in DOMAIN running
<1>1. Len(running) \in Nat /\ running # <<>>
  BY Lengths DEF Runs
<1>2. Len(running) >= 1
  BY <1>1, EmptySeq DEF TypeOK
<1> QED BY <1>1, <1>2, Lengths, ElementTypes DEF Runs, Top

(* What a recording span is.                                                *)
LEMMA RecordingIs ==
    ASSUME NEW s \in 0 .. Len(spans)
    PROVE  Recording(s) <=> s \in 1 .. Len(spans) /\ spans[s].sampled /\ spans[s].open
BY DEF Recording, None

-----------------------------------------------------------------------------
(* What the parts of an action do                                           *)

(* Only task t changes.                                                     *)
Only(t) == /\ task' \in [Task -> TaskState]
           /\ \A u \in Task \ {t} : task'[u] = task[u]

LEMMA OnlyOne ==
    ASSUME TypeOK, NEW t \in Task, NEW new \in TaskState,
           task' = [task EXCEPT ![t] = new]
    PROVE  Only(t) /\ task'[t] = new
BY DEF TypeOK, Only

(* A span is entered.                                                       *)
Entered(t, s, c, sync) ==
    /\ Only(t)
    /\ task'[t].current = s /\ task'[t].context = c
    /\ task'[t].status = task[t].status /\ task'[t].carrier = task[t].carrier
    /\ task'[t].request = task[t].request
    /\ task'[t].tracestate = task[t].tracestate
    /\ Len(Open(t)') = Len(Open(t)) + 1
    /\ DOMAIN Open(t)' = 1 .. Len(Open(t)) + 1
    /\ \A j \in DOMAIN Open(t) : Open(t)'[j] = Open(t)[j]
    /\ Open(t)'[Len(Open(t)) + 1] =
          [span |-> s, before |-> task[t].current,
           context |-> task[t].context, sync |-> sync]

LEMMA EnterFacts ==
    ASSUME TypeOK, NEW t \in Task, NEW s \in SpanIds, NEW c \in ContextIds \cup {None},
           NEW sync \in BOOLEAN, Enter(t, s, c, sync)
    PROVE  Entered(t, s, c, sync)
<1> DEFINE frame == [span |-> s, before |-> task[t].current,
                     context |-> task[t].context, sync |-> sync]
           new == [status |-> task[t].status, current |-> s, context |-> c,
                   carrier |-> task[t].carrier, tracestate |-> task[t].tracestate,
                   request |-> task[t].request, open |-> Append(Open(t), frame)]
<1>1. task[t] \in TaskState /\ Open(t) \in Seq(Frame)
  BY ElementTypes
<1>2. frame \in Frame
  BY <1>1 DEF Frame, TaskState
<1>3. task' = [task EXCEPT ![t] = new]
  <2>1. task \in [Task -> TaskState]
    BY DEF TypeOK
  <2> QED BY <1>1, <2>1 DEF Enter, TaskState, Open
<1> HIDE DEF frame
<1>4. /\ Append(Open(t), frame) \in Seq(Frame)
      /\ Len(Append(Open(t), frame)) = Len(Open(t)) + 1
      /\ Grown(Open(t), Append(Open(t), frame))
      /\ Append(Open(t), frame)[Len(Open(t)) + 1] = frame
      /\ DOMAIN Append(Open(t), frame) = 1 .. Len(Open(t)) + 1
  BY <1>1, <1>2, AppendGrows
<1>5. new \in TaskState
  BY <1>1, <1>4 DEF TaskState
<1>6. /\ new.current = s /\ new.context = c /\ new.status = task[t].status
      /\ new.carrier = task[t].carrier /\ new.request = task[t].request
      /\ new.tracestate = task[t].tracestate /\ new.open = Append(Open(t), frame)
  OBVIOUS
<1> HIDE DEF new
<1>7. Only(t) /\ task'[t] = new
  BY <1>3, <1>5, OnlyOne
<1>8. Open(t)' = Append(Open(t), frame)
  BY <1>6, <1>7 DEF Open
<1> QED BY <1>4, <1>6, <1>7, <1>8 DEF frame, Entered, Grown

(* A span is started.                                                       *)
Begun(s, parent, cause, linked) ==
    /\ s = Len(spans) + 1
    /\ spans' \in Seq(Span) /\ Len(spans') = s /\ DOMAIN spans' = 1 .. s
    /\ \A i \in DOMAIN spans : spans'[i] = spans[i]
    /\ spans'[s].trace = IF parent.span = None THEN s ELSE spans[parent.span].trace
    /\ spans'[s].sampled = (parent.span # None => spans[parent.span].sampled)
    /\ spans'[s].open
    /\ spans'[s].tracestate = parent.tracestate
    /\ spans'[s].cause = cause
    /\ spans'[s].linked = linked

LEMMA ChildFacts ==
    ASSUME TypeOK, SpansRefer, NEW parent \in [span : 0 .. Len(spans), tracestate : Nat],
           NEW cause \in Nat, NEW linked \in BOOLEAN,
           Len(spans) + 1 <= MaxSpans,
           spans' = Append(spans, ChildOf(spans, parent, cause, linked))
    PROVE  Begun(Len(spans) + 1, parent, cause, linked)
<1> DEFINE new == ChildOf(spans, parent, cause, linked)
<1>1. /\ new.trace = IF parent.span = None THEN Len(spans) + 1 ELSE spans[parent.span].trace
      /\ new.sampled = (parent.span # None => spans[parent.span].sampled)
      /\ new.open /\ new.tracestate = parent.tracestate
      /\ new.cause = cause /\ new.linked = linked
  BY DEF ChildOf
<1>2. Len(spans) \in Nat /\ DOMAIN spans = 1 .. Len(spans) /\ spans \in Seq(Span)
  BY Lengths DEF TypeOK
<1>3. new \in Span
  <2>1. parent.span \in 0 .. Len(spans) /\ parent.tracestate \in Nat
    OBVIOUS
  <2>2. Len(spans) + 1 \in SpanIds
    BY <1>2, ContextLinkingAssumption DEF SpanIds
  <2>3. parent.span # None => spans[parent.span] \in Span
    BY <1>2, <2>1, ElementTypes DEF None
  <2> QED BY <2>1, <2>2, <2>3 DEF ChildOf, Span
<1> HIDE DEF new
<1>4. /\ Append(spans, new) \in Seq(Span) /\ Len(Append(spans, new)) = Len(spans) + 1
      /\ Grown(spans, Append(spans, new)) /\ Append(spans, new)[Len(spans) + 1] = new
      /\ DOMAIN Append(spans, new) = 1 .. Len(spans) + 1
  BY <1>2, <1>3, AppendGrows
<1>5. spans' = Append(spans, new)
  BY DEF new
<1> QED BY <1>1, <1>4, <1>5 DEF Begun, Grown

(* Everything that Resolve may find.                                        *)
LEMMA ResolveFacts ==
    ASSUME TypeOK, TasksRefer, ContextsRefer, LinkAgreement,
           NEW t \in Task, NEW c \in 0 .. Len(contexts)
    PROVE  /\ Resolve(t, c) \in [span : 0 .. Len(spans), tracestate : Nat]
           /\ Recording(task[t].current) =>
                 Resolve(t, c) = [span |-> task[t].current,
                                  tracestate |-> spans[task[t].current].tracestate]
<1>1. /\ Len(spans) \in Nat /\ DOMAIN spans = 1 .. Len(spans)
      /\ Len(contexts) \in Nat /\ DOMAIN contexts = 1 .. Len(contexts)
  BY Lengths
<1>2. ASSUME NEW s \in 0 .. Len(spans)
      PROVE  SpanContext(s) \in [span : 0 .. Len(spans), tracestate : Nat]
  <2>1. s # None => spans[s] \in Span
    BY <1>1, ElementTypes DEF None
  <2> QED BY <1>1, <2>1 DEF SpanContext, Root, From, None, Span
<1>3. task[t].current \in 0 .. Len(spans)
  BY DEF TasksRefer
<1>4. ASSUME c # None PROVE LookupParent(c) \in 0 .. Len(spans)
  <2>1. c \in DOMAIN contexts
    BY <1>1, <1>4 DEF None
  <2>2. contexts[c].otel = None \/ c \in DOMAIN registry
    BY <2>1 DEF ContextsRefer
  <2>3. \A d \in DOMAIN registry : registry[d] \in 1 .. Len(spans)
    BY <1>1 DEF TypeOK
  <2> QED BY <1>1, <2>2, <2>3 DEF LookupParent, None
<1>5. ASSUME c # None, Readable(contexts[c].traceparent)
      PROVE  From(contexts[c].traceparent, contexts[c].tracestate)
                \in [span : 0 .. Len(spans), tracestate : Nat]
  <2>1. contexts[c].tracestate \in Nat
    BY <1>1, <1>5, ElementTypes DEF None, Context
  <2> QED BY <1>1, <1>5, <2>1 DEF From, Readable
<1>6. Root \in [span : 0 .. Len(spans), tracestate : Nat]
  BY <1>1 DEF Root, From, None
<1>7. Resolve(t, c) \in [span : 0 .. Len(spans), tracestate : Nat]
  BY <1>2, <1>3, <1>4, <1>5, <1>6 DEF Resolve
<1>8. Recording(task[t].current) =>
         Resolve(t, c) = [span |-> task[t].current,
                          tracestate |-> spans[task[t].current].tracestate]
  BY DEF Resolve, SpanContext, From, Recording
<1> QED BY <1>7, <1>8

-----------------------------------------------------------------------------
(* The with-blocks and the call stack                                       *)
Struct == /\ TypeOK /\ SpansRefer /\ TasksRefer
          /\ FramesNest /\ StackIsRunning /\ UnlinkedAreOpen /\ Sheltered

(* While the span of a contextless event is open, the running task records  *)
(* in a span that a task on the stack has open.                             *)
LEMMA TopRecords ==
    ASSUME Struct, NEW t, Runs(t), NEW s, Unlinked(s), spans[s].open
    PROVE  /\ Recording(task[t].current)
           /\ \E l \in DOMAIN running : OpenAt(l, task[t].current)
<1>1. /\ t \in Task /\ t = Top /\ Len(running) \in DOMAIN running
      /\ DOMAIN running = 1 .. Len(running) /\ Len(running) \in Nat
      /\ DOMAIN spans = 1 .. Len(spans) /\ Len(spans) \in Nat
  BY TopRuns, Lengths DEF Struct
<1> DEFINE n == Len(running)
<1>2. running[n] = t
  BY <1>1 DEF Top
<1>3. PICK i \in DOMAIN running : OpenAt(i, s)
  BY DEF Struct, UnlinkedAreOpen, Unlinked
<1>4. PICK j \in DOMAIN Open(running[i]) : Open(running[i])[j].span = s
  BY <1>3 DEF OpenAt
<1>5. /\ \A k \in j .. Len(Open(running[i])) : spans[Open(running[i])[k].span].sampled
      /\ \A m \in DOMAIN running : m > i =>
            /\ \A k \in DOMAIN Open(running[m]) : spans[Open(running[m])[k].span].sampled
            /\ spans[Inherited(running[m])].sampled
            /\ \E l \in DOMAIN running : l < m /\ OpenAt(l, Inherited(running[m]))
  BY <1>4 DEF Struct, Sheltered
<1>6. \A u \in Task : /\ Len(Open(u)) \in Nat /\ DOMAIN Open(u) = 1 .. Len(Open(u))
                      /\ Open(u) \in Seq(Frame)
  BY ElementTypes DEF Struct
<1>7. \A l \in DOMAIN running : \A x : OpenAt(l, x) => x \in DOMAIN spans /\ spans[x].open
  <2>1. \A l \in DOMAIN running : running[l] \in Task
    BY ElementTypes DEF Struct
  <2> QED BY <1>1, <2>1 DEF OpenAt, Struct, TasksRefer, FramesNest
<1>8. CASE Open(t) # <<>>
  <2> DEFINE last == Len(Open(t))
  <2>1. last \in DOMAIN Open(t) /\ task[t].current = Open(t)[last].span
    <3>1. Len(Open(t)) >= 1
      BY <1>1, <1>6, <1>8, EmptySeq
    <3> QED BY <1>1, <1>6, <1>8, <3>1 DEF Struct, FramesNest
  <2>2. OpenAt(n, task[t].current)
    BY <1>1, <1>2, <2>1 DEF OpenAt
  <2>3. spans[task[t].current].sampled
    <3>1. CASE i = n
      <4>1. last \in j .. Len(Open(running[i]))
        BY <1>1, <1>2, <1>4, <1>6, <2>1, <3>1
      <4> QED BY <1>2, <1>5, <2>1, <3>1, <4>1
    <3>2. CASE i # n
      <4>1. n \in DOMAIN running /\ n > i
        BY <1>1, <1>3, <3>2
      <4> QED BY <1>2, <1>5, <2>1, <4>1
    <3> QED BY <3>1, <3>2
  <2> QED BY <1>1, <1>7, <2>2, <2>3 DEF Recording, None
<1>9. CASE Open(t) = <<>>
  <2>1. i # n
    BY <1>2, <1>4, <1>9
  <2>2. n \in DOMAIN running /\ n > i
    BY <1>1, <1>3, <2>1
  <2>3. Inherited(running[n]) = task[t].current
    BY <1>2, <1>9 DEF Inherited
  <2>4. PICK l \in DOMAIN running : OpenAt(l, task[t].current)
    BY <1>5, <2>2, <2>3
  <2>5. spans[task[t].current].sampled
    BY <1>5, <2>2, <2>3
  <2> QED BY <1>1, <1>7, <2>4, <2>5 DEF Recording, None
<1> QED BY <1>8, <1>9

(* A span is entered by the running task.                                   *)
LEMMA PushStruct ==
    ASSUME Struct, NEW t, Runs(t), NEW s, NEW c, NEW sync \in BOOLEAN,
           NEW parent, NEW cause \in Nat, NEW linked \in BOOLEAN,
           Begun(s, parent, cause, linked), Entered(t, s, c, sync),
           running' = running, TypeOK',
           parent.span \in 0 .. Len(spans),
           Recording(task[t].current) => parent.span = task[t].current,
           c \in 0 .. Len(contexts'), Len(contexts) <= Len(contexts'),
           cause <= causes', causes <= causes',
           linked \/ (sync /\ (parent.span # None => Recording(parent.span)))
    PROVE  Struct'
<1>1. /\ t \in Task /\ t = Top /\ Len(running) \in DOMAIN running
      /\ DOMAIN running = 1 .. Len(running) /\ Len(running) \in Nat
      /\ DOMAIN spans = 1 .. Len(spans) /\ Len(spans) \in Nat
      /\ Len(contexts) \in Nat /\ Len(contexts') \in Nat
  BY TopRuns, Lengths DEF Struct, TypeOK
<1>2. /\ s = Len(spans) + 1 /\ Len(spans') = s /\ DOMAIN spans' = 1 .. s
      /\ \A i \in DOMAIN spans : spans'[i] = spans[i]
      /\ spans'[s].open /\ spans'[s].linked = linked /\ spans'[s].cause = cause
  BY DEF Begun
<1> DEFINE n == Len(Open(t)) + 1
<1>3. /\ \A u \in Task : /\ Len(Open(u)) \in Nat /\ DOMAIN Open(u) = 1 .. Len(Open(u))
                         /\ Open(u) \in Seq(Frame)
      /\ \A i \in DOMAIN running : running[i] \in Task
      /\ causes \in Nat /\ causes' \in Nat
  BY ElementTypes DEF Struct, TypeOK
<1>4. /\ \A u \in Task \ {t} : task'[u] = task[u] /\ Open(u)' = Open(u)
      /\ DOMAIN Open(t)' = 1 .. n /\ Len(Open(t)') = n /\ n \in Nat /\ n >= 1
      /\ \A j \in DOMAIN Open(t) : Open(t)'[j] = Open(t)[j]
      /\ Open(t)'[n].span = s /\ Open(t)'[n].before = task[t].current
      /\ Open(t)'[n].context = task[t].context /\ Open(t)'[n].sync = sync
      /\ task'[t].current = s /\ task'[t].context = c /\ task'[t].status = task[t].status
  BY <1>1, <1>3, SMTT(40) DEF Entered, Only, Open
<1> HIDE DEF n
<1>5. n = Len(Open(t)) + 1 /\ DOMAIN Open(t) = 1 .. n - 1
  BY <1>1, <1>3 DEF n
<1>6. SpansRefer'
  <2>1. spans'[s].trace \in DOMAIN spans'
    BY <1>1, <1>2 DEF Begun, Struct, SpansRefer, None
  <2>2. ~linked => spans'[s].sampled
    BY DEF Begun, Recording
  <2>3. ASSUME NEW i \in DOMAIN spans
        PROVE  /\ spans'[i].trace \in DOMAIN spans' /\ spans'[i].cause <= causes'
               /\ ~spans'[i].linked => spans'[i].sampled
    <3>1. spans[i].cause \in Nat /\ spans[i].cause <= causes
      BY ElementTypes DEF Struct, SpansRefer, Span
    <3> QED BY <1>1, <1>2, <1>3, <3>1, SMTT(40) DEF Struct, SpansRefer
  <2>4. \A i \in DOMAIN spans' : i = s \/ i \in DOMAIN spans
    BY <1>1, <1>2
  <2> QED BY <1>2, <2>1, <2>2, <2>3, <2>4 DEF SpansRefer
<1>7. TasksRefer'
  <2>1. ASSUME NEW u \in Task PROVE task'[u].current \in 0 .. s /\ task'[u].context \in 0 .. Len(contexts')
    BY <1>1, <1>2, <1>4, SMTT(40) DEF Struct, TasksRefer
  <2>2. ASSUME NEW u \in Task, NEW j \in DOMAIN Open(u)'
        PROVE  /\ Open(u)'[j].span \in 1 .. s /\ Open(u)'[j].before \in 0 .. s
               /\ Open(u)'[j].context \in 0 .. Len(contexts')
    <3>1. CASE u = t /\ j = n
      BY <1>1, <1>2, <1>4, <3>1 DEF Struct, TasksRefer
    <3>2. CASE ~(u = t /\ j = n)
      <4>1. j \in DOMAIN Open(u) /\ Open(u)'[j] = Open(u)[j]
        BY <1>4, <1>5, <3>2
      <4> QED BY <1>1, <1>2, <4>1 DEF Struct, TasksRefer
    <3> QED BY <3>1, <3>2
  <2> QED BY <1>2, <2>1, <2>2 DEF TasksRefer
<1>8. \A u \in Task : \A j \in DOMAIN Open(u)' :
         \/ u = t /\ j = n
         \/ j \in DOMAIN Open(u) /\ Open(u)'[j] = Open(u)[j] /\ Open(u)[j].span \in DOMAIN spans
  <2> SUFFICES ASSUME NEW u \in Task, NEW j \in DOMAIN Open(u)', ~(u = t /\ j = n)
               PROVE  /\ j \in DOMAIN Open(u) /\ Open(u)'[j] = Open(u)[j]
                      /\ Open(u)[j].span \in DOMAIN spans
    OBVIOUS
  <2>1. j \in DOMAIN Open(u) /\ Open(u)'[j] = Open(u)[j]
    BY <1>4, <1>5
  <2> QED BY <1>1, <2>1 DEF Struct, TasksRefer
<1>9. FramesNest'
  <2>1. ASSUME NEW u \in Task, NEW j \in DOMAIN Open(u)'
        PROVE  /\ spans'[Open(u)'[j].span].open
               /\ j > 1 => Open(u)'[j].before = Open(u)'[j - 1].span
               /\ Unlinked(Open(u)[j].span)' => Open(u)'[j].sync
    <3>1. CASE u = t /\ j = n
      <4>1. n > 1 => Open(t)'[n - 1] = Open(t)[n - 1] /\ Open(t) # <<>>
        BY <1>4, <1>5
      <4>2. n > 1 => task[t].current = Open(t)[n - 1].span
        BY <1>1, <1>5, <4>1 DEF Struct, FramesNest
      <4> QED BY <1>2, <1>4, <3>1, <4>1, <4>2 DEF Unlinked
    <3>2. CASE ~(u = t /\ j = n)
      <4>1. /\ j \in DOMAIN Open(u) /\ Open(u)'[j] = Open(u)[j] /\ j \in Nat
            /\ Open(u)[j].span \in DOMAIN spans
        BY <1>3, <1>8, <3>2
      <4>2. j > 1 => Open(u)'[j - 1] = Open(u)[j - 1]
        <5>1. j > 1 => j - 1 \in DOMAIN Open(u)
          BY <1>3, <4>1
        <5> QED BY <1>4, <5>1
      <4> QED BY <1>2, <4>1, <4>2, SMTT(40) DEF Struct, FramesNest, Unlinked
    <3> QED BY <3>1, <3>2
  <2>2. ASSUME NEW u \in Task, Open(u)' # <<>>
        PROVE  task'[u].current = Open(u)'[Len(Open(u)')].span
    BY <1>4, <2>2 DEF Struct, FramesNest
  <2>3. ASSUME NEW u \in Task, NEW v \in Task,
               NEW j \in DOMAIN Open(u)', NEW k \in DOMAIN Open(v)',
               Open(u)'[j].span = Open(v)'[k].span
        PROVE  u = v /\ j = k
    <3>1. s \notin DOMAIN spans
      BY <1>1, <1>2
    <3> QED BY <1>4, <1>8, <2>3, <3>1 DEF Struct, FramesNest
  <2> QED BY <2>1, <2>2, <2>3 DEF FramesNest
<1>10. StackIsRunning'
  <2>1. ASSUME NEW u \in Task, InSyncBlock(u)' PROVE \E i \in DOMAIN running : running[i] = u
    <3>1. CASE u = t
      BY <1>1, <3>1 DEF Top
    <3>2. CASE u # t
      <4>1. InSyncBlock(u)
        BY <1>4, <2>1, <3>2 DEF InSyncBlock, Open
      <4> QED BY <4>1 DEF Struct, StackIsRunning
    <3> QED BY <3>1, <3>2
  <2> QED BY <1>3, <1>4, <2>1 DEF Struct, StackIsRunning
<1>11. ASSUME NEW i \in DOMAIN running, NEW x, OpenAt(i, x) PROVE OpenAt(i, x)'
  <2> PICK u \in Task : u = running[i]
    BY <1>3
  <2>1. PICK j \in DOMAIN Open(u) : Open(u)[j].span = x
    BY <1>11 DEF OpenAt
  <2>2. j \in DOMAIN Open(u)' /\ Open(u)'[j] = Open(u)[j]
    <3>1. CASE u = t
      BY <1>3, <1>4, <1>5, <3>1
    <3>2. CASE u # t
      BY <1>4, <3>2
    <3> QED BY <3>1, <3>2
  <2> QED BY <2>1, <2>2 DEF OpenAt
<1>12. UnlinkedAreOpen'
  <2>1. ASSUME NEW x \in DOMAIN spans', Unlinked(x)', spans'[x].open
        PROVE  \E i \in DOMAIN running' : OpenAt(i, x)'
    <3>1. CASE x = s
      <4>1. OpenAt(Len(running), s)'
        BY <1>1, <1>4 DEF OpenAt, Top
      <4> QED BY <1>1, <3>1, <4>1
    <3>2. CASE x # s
      <4>1. x \in DOMAIN spans /\ Unlinked(x) /\ spans[x].open
        BY <1>1, <1>2, <2>1, <3>2 DEF Unlinked
      <4> QED BY <1>11, <4>1 DEF Struct, UnlinkedAreOpen
    <3> QED BY <3>1, <3>2
  <2> QED BY <2>1 DEF UnlinkedAreOpen
<1>13. Sheltered'
  <2> SUFFICES ASSUME NEW i \in DOMAIN running, NEW j \in DOMAIN Open(running[i])',
                      Unlinked(Open(running[i])[j].span)'
               PROVE
            /\ \A k \in j .. Len(Open(running[i])') :
                  spans'[Open(running[i])'[k].span].sampled
            /\ \A m \in DOMAIN running : m > i =>
                  /\ \A k \in DOMAIN Open(running[m])' :
                        spans'[Open(running[m])'[k].span].sampled
                  /\ spans'[Inherited(running[m])'].sampled
                  /\ \E l \in DOMAIN running : l < m /\ OpenAt(l, Inherited(running[m]))'
    BY DEF Sheltered
  <2>1. running[Len(running)] = t /\ running[i] \in Task
    BY <1>1, <1>3 DEF Top
  <2>2. CASE running[i] = t /\ j = n
    <3>1. i = Len(running)
      BY <1>1, <2>1, <2>2 DEF Struct, StackIsRunning
    <3>2. \A m \in DOMAIN running : ~(m > i)
      BY <1>1, <3>1
    <3>3. spans'[s].sampled
      BY <1>2, <1>4, <2>2 DEF Unlinked, Begun, Recording
    <3> QED BY <1>4, <2>2, <3>2, <3>3
  <2>3. CASE ~(running[i] = t /\ j = n)
    <3>1. /\ j \in DOMAIN Open(running[i]) /\ Open(running[i])'[j] = Open(running[i])[j]
          /\ Open(running[i])[j].span \in DOMAIN spans
      BY <1>8, <2>1, <2>3
    <3>2. Unlinked(Open(running[i])[j].span)
      BY <1>2, <3>1 DEF Unlinked
    <3>3. spans[Open(running[i])[j].span].open
      BY <2>1, <3>1 DEF Struct, FramesNest
    <3>4. Recording(task[t].current)
      BY <3>2, <3>3, TopRecords
    <3>5. spans'[s].sampled
      BY <3>4 DEF Begun, Recording
    <3>6. /\ \A k \in j .. Len(Open(running[i])) : spans[Open(running[i])[k].span].sampled
          /\ \A m \in DOMAIN running : m > i =>
                /\ \A k \in DOMAIN Open(running[m]) : spans[Open(running[m])[k].span].sampled
                /\ spans[Inherited(running[m])].sampled
                /\ \E l \in DOMAIN running : l < m /\ OpenAt(l, Inherited(running[m]))
      BY <3>1, <3>2 DEF Struct, Sheltered
    <3>7. \A u \in Task : Inherited(u)' = Inherited(u)
      <4>1. Inherited(t)' = Inherited(t)
        <5>1. Open(t)' # <<>>
          BY <1>4
        <5>2. CASE Open(t) = <<>>
          <6>1. n = 1
            BY <5>2 DEF n
          <6> QED BY <1>4, <5>1, <5>2, <6>1 DEF Inherited
        <5>3. CASE Open(t) # <<>>
          <6>1. 1 \in DOMAIN Open(t)
            BY <1>1, <1>3, <5>3, EmptySeq
          <6> QED BY <1>4, <5>1, <5>3, <6>1 DEF Inherited
        <5> QED BY <5>2, <5>3
      <4> QED BY <1>4, <4>1 DEF Inherited
    <3>8. ASSUME NEW k \in j .. Len(Open(running[i])')
          PROVE  spans'[Open(running[i])'[k].span].sampled
      <4>1. k \in DOMAIN Open(running[i])'
        BY <1>3, <1>4, <2>1, <3>1
      <4>2. CASE running[i] = t /\ k = n
        BY <1>4, <3>5, <4>2
      <4>3. CASE ~(running[i] = t /\ k = n)
        <5>1. /\ k \in DOMAIN Open(running[i]) /\ Open(running[i])'[k] = Open(running[i])[k]
              /\ Open(running[i])[k].span \in DOMAIN spans
          BY <1>8, <2>1, <4>1, <4>3
        <5>2. k \in j .. Len(Open(running[i]))
          BY <1>3, <2>1, <3>1, <3>8, <5>1
        <5> QED BY <1>2, <3>6, <5>1, <5>2
      <4> QED BY <4>2, <4>3
    <3>9. ASSUME NEW m \in DOMAIN running, m > i
          PROVE  /\ \A k \in DOMAIN Open(running[m])' :
                       spans'[Open(running[m])'[k].span].sampled
                 /\ spans'[Inherited(running[m])'].sampled
                 /\ \E l \in DOMAIN running : l < m /\ OpenAt(l, Inherited(running[m]))'
      <4>1. running[m] \in Task /\ Inherited(running[m])' = Inherited(running[m])
        BY <1>3, <3>7
      <4>2. PICK l \in DOMAIN running : l < m /\ OpenAt(l, Inherited(running[m]))
        BY <3>6, <3>9
      <4>3. Inherited(running[m]) \in DOMAIN spans
        BY <1>1, <1>3, <4>2 DEF OpenAt, Struct, TasksRefer
      <4>4. OpenAt(l, Inherited(running[m]))'
        BY <1>11, <4>1, <4>2
      <4>5. ASSUME NEW k \in DOMAIN Open(running[m])'
            PROVE  spans'[Open(running[m])'[k].span].sampled
        BY <1>2, <1>4, <1>8, <3>5, <3>6, <3>9, <4>1
      <4> QED BY <1>2, <3>6, <3>9, <4>1, <4>2, <4>3, <4>4, <4>5
    <3> QED BY <3>8, <3>9
  <2> QED BY <2>2, <2>3
<1> QED BY <1>6, <1>7, <1>9, <1>10, <1>12, <1>13 DEF Struct

(* The innermost with-block of the running task is left.                    *)
Ended(t, n, s) ==
    /\ n \in Nat /\ n = Len(Open(t)) /\ n >= 1 /\ s = Open(t)[n].span
    /\ s \in DOMAIN spans
    /\ spans' \in Seq(Span) /\ Len(spans') = Len(spans) /\ DOMAIN spans' = DOMAIN spans
    /\ \A i \in DOMAIN spans \ {s} : spans'[i] = spans[i]
    /\ spans'[s].trace = spans[s].trace /\ spans'[s].sampled = spans[s].sampled
    /\ spans'[s].cause = spans[s].cause /\ spans'[s].linked = spans[s].linked
    /\ spans'[s].tracestate = spans[s].tracestate /\ ~spans'[s].open
    /\ Only(t)
    /\ task'[t].current = Open(t)[n].before /\ task'[t].context = Open(t)[n].context
    /\ task'[t].status = task[t].status /\ task'[t].carrier = task[t].carrier
    /\ task'[t].tracestate = task[t].tracestate
    /\ task'[t].request = (task[t].request /\ n > 1)
    /\ Len(Open(t)') = n - 1 /\ DOMAIN Open(t)' = 1 .. n - 1
    /\ \A j \in 1 .. n - 1 : Open(t)'[j] = Open(t)[j]

(* The record of a span that ends.                                          *)
LEMMA SpanClosed ==
    ASSUME NEW span \in Span
    PROVE  LET new == [span EXCEPT !.open = FALSE] IN
           /\ new \in Span /\ ~new.open
           /\ new.trace = span.trace /\ new.sampled = span.sampled
           /\ new.cause = span.cause /\ new.linked = span.linked
           /\ new.tracestate = span.tracestate
BY DEF Span

LEMMA EndSpanFacts ==
    ASSUME Struct, NEW t \in Task, EndSpan(t)
    PROVE  Ended(t, Len(Open(t)), Open(t)[Len(Open(t))].span)
<1> DEFINE n == Len(Open(t))
           s == Open(t)[n].span
           q == task[t].request /\ n > 1
           closed == [spans[s] EXCEPT !.open = FALSE]
           new == [task[t] EXCEPT !.current = Open(t)[n].before,
                                  !.context = Open(t)[n].context,
                                  !.request = q, !.open = Pop(Open(t))]
<1>1. /\ TypeOK /\ task[t] \in TaskState /\ Open(t) \in Seq(Frame) /\ Len(Open(t)) \in Nat
      /\ DOMAIN Open(t) = 1 .. Len(Open(t)) /\ Open(t) # <<>>
  BY ElementTypes DEF Struct, EndSpan, Open
<1>2. n \in Nat /\ n >= 1 /\ n \in DOMAIN Open(t) /\ Open(t)[n] \in Frame
  <2>1. n >= 1
    BY <1>1, EmptySeq
  <2> QED BY <1>1, <2>1, ElementTypes
<1>3. /\ Pop(Open(t)) \in Seq(Frame) /\ Len(Pop(Open(t))) = n - 1
      /\ DOMAIN Pop(Open(t)) = 1 .. n - 1
      /\ \A j \in 1 .. n - 1 : Pop(Open(t))[j] = Open(t)[j]
  BY <1>1, PopShrinks
<1>4. s \in DOMAIN spans /\ spans[s] \in Span /\ spans \in Seq(Span) /\ DOMAIN spans = 1 .. Len(spans)
  <2>1. s \in 1 .. Len(spans)
    BY <1>2 DEF Struct, TasksRefer
  <2> QED BY <1>1, <2>1, Lengths, ElementTypes DEF TypeOK
<1>5. spans' = [spans EXCEPT ![s] = closed]
  BY <1>4 DEF EndSpan, Open
<1>6. /\ closed \in Span
      /\ closed.trace = spans[s].trace /\ closed.sampled = spans[s].sampled
      /\ closed.cause = spans[s].cause /\ closed.linked = spans[s].linked
      /\ closed.tracestate = spans[s].tracestate /\ ~closed.open
  BY <1>4, SpanClosed
<1>7. task' = [task EXCEPT ![t] = new]
  <2>1. task' = [task EXCEPT ![t].current = Open(t)[n].before,
                             ![t].context = Open(t)[n].context,
                             ![t].request = q, ![t].open = Pop(Open(t))]
    BY DEF EndSpan, Open
  <2>2. task \in [Task -> TaskState]
    BY <1>1 DEF TypeOK
  <2> HIDE DEF q
  <2> QED BY <2>1, <2>2
<1>8. Open(t)[n].before \in SpanIds \cup {None} /\ Open(t)[n].context \in ContextIds \cup {None}
  BY <1>2 DEF Frame
<1>9. q \in BOOLEAN /\ q = (task[t].request /\ n > 1)
  BY <1>1 DEF TaskState
<1>10. /\ new \in TaskState
       /\ new.current = Open(t)[n].before /\ new.context = Open(t)[n].context
       /\ new.status = task[t].status /\ new.carrier = task[t].carrier
       /\ new.tracestate = task[t].tracestate
       /\ new.request = q /\ new.open = Pop(Open(t))
  <2> DEFINE b == Open(t)[n].before
             c == Open(t)[n].context
             o == Pop(Open(t))
  <2>1. new = [task[t] EXCEPT !.current = b, !.context = c, !.request = q, !.open = o]
    OBVIOUS
  <2>2. b \in SpanIds \cup {None} /\ c \in ContextIds \cup {None} /\ o \in Seq(Frame)
    BY <1>3, <1>8
  <2> HIDE DEF q, b, c, o, new
  <2>3. /\ new \in TaskState
        /\ new.current = b /\ new.context = c /\ new.request = q /\ new.open = o
        /\ new.status = task[t].status /\ new.carrier = task[t].carrier
        /\ new.tracestate = task[t].tracestate
    <3>1. task[t] \in TaskState /\ q \in BOOLEAN
      BY <1>1, <1>9
    <3> QED BY <2>1, <2>2, <3>1 DEF TaskState
  <2> QED BY <2>3 DEF b, c, o
<1> HIDE DEF closed, new, s, n, q
<1>11. Only(t) /\ task'[t] = new
  BY <1>1, <1>7, <1>10, OnlyOne
<1>12. /\ spans' \in Seq(Span) /\ Len(spans') = Len(spans)
       /\ \A i \in 1 .. Len(spans) : spans'[i] = IF i = s THEN closed ELSE spans[i]
  BY <1>4, <1>5, <1>6, ExceptSeq
<1>13. DOMAIN spans' = DOMAIN spans
  BY <1>4, <1>12
<1>14. n = Len(Open(t)) /\ s = Open(t)[n].span
  BY DEF n, s
<1>15. Ended(t, n, s)
  <2>1. Open(t)' = Pop(Open(t))
    BY <1>10, <1>11 DEF Open
  <2> QED BY <1>2, <1>3, <1>4, <1>6, <1>9, <1>10, <1>11, <1>12, <1>13, <1>14, <2>1 DEF Ended
<1> QED BY <1>14, <1>15

(* The span is nobody's above, since nobody is above.                       *)
LEMMA PopStruct ==
    ASSUME Struct, NEW t, Runs(t), NEW n, NEW s, Ended(t, n, s), TypeOK',
           running' = running, contexts' = contexts, causes' = causes
    PROVE  Struct'
<1>1. /\ t \in Task /\ t = Top /\ Len(running) \in DOMAIN running
      /\ DOMAIN running = 1 .. Len(running) /\ Len(running) \in Nat
      /\ DOMAIN spans = 1 .. Len(spans) /\ Len(spans) \in Nat
      /\ running[Len(running)] = t
  BY TopRuns, Lengths DEF Struct, Top
<1>2. /\ \A u \in Task : /\ Len(Open(u)) \in Nat /\ DOMAIN Open(u) = 1 .. Len(Open(u))
                         /\ Open(u) \in Seq(Frame)
      /\ \A i \in DOMAIN running : running[i] \in Task
  BY ElementTypes DEF Struct
<1>3. /\ DOMAIN spans' = DOMAIN spans /\ Len(spans') = Len(spans) /\ s \in DOMAIN spans
      /\ \A i \in DOMAIN spans \ {s} : spans'[i] = spans[i]
      /\ \A i \in DOMAIN spans : /\ spans'[i].trace = spans[i].trace
                                 /\ spans'[i].sampled = spans[i].sampled
                                 /\ spans'[i].cause = spans[i].cause
                                 /\ spans'[i].linked = spans[i].linked
      /\ ~spans'[s].open
  BY DEF Ended
<1>4. /\ n \in Nat /\ n = Len(Open(t)) /\ n >= 1 /\ s = Open(t)[n].span
      /\ \A u \in Task \ {t} : task'[u] = task[u] /\ Open(u)' = Open(u)
      /\ DOMAIN Open(t)' = 1 .. n - 1 /\ Len(Open(t)') = n - 1
      /\ \A j \in 1 .. n - 1 : Open(t)'[j] = Open(t)[j]
      /\ task'[t].current = Open(t)[n].before /\ task'[t].context = Open(t)[n].context
      /\ task'[t].status = task[t].status
  BY <1>1 DEF Ended, Only, Open
<1>5. n \in DOMAIN Open(t) /\ DOMAIN Open(t) = 1 .. n
  BY <1>1, <1>2, <1>4
<1>6. ASSUME NEW u \in Task, NEW j \in DOMAIN Open(u)'
      PROVE  /\ j \in DOMAIN Open(u) /\ Open(u)'[j] = Open(u)[j]
             /\ Open(u)[j].span \in DOMAIN spans /\ Open(u)[j].span # s /\ j \in Nat
  <2>1. j \in DOMAIN Open(u) /\ Open(u)'[j] = Open(u)[j] /\ ~(u = t /\ j = n)
    BY <1>4, <1>5
  <2>2. Open(u)[j].span \in DOMAIN spans
    BY <1>1, <2>1 DEF Struct, TasksRefer
  <2>3. Open(u)[j].span # s
    BY <1>1, <1>4, <1>5, <2>1 DEF Struct, FramesNest
  <2> QED BY <1>2, <2>1, <2>2, <2>3
<1>7. SpansRefer'
  BY <1>3 DEF Struct, SpansRefer
<1>8. TasksRefer'
  <2>1. ASSUME NEW u \in Task
        PROVE  task'[u].current \in 0 .. Len(spans) /\ task'[u].context \in 0 .. Len(contexts)
    BY <1>1, <1>4, <1>5 DEF Struct, TasksRefer
  <2>2. ASSUME NEW u \in Task, NEW j \in DOMAIN Open(u)'
        PROVE  /\ Open(u)'[j].span \in 1 .. Len(spans) /\ Open(u)'[j].before \in 0 .. Len(spans)
               /\ Open(u)'[j].context \in 0 .. Len(contexts)
    BY <1>6 DEF Struct, TasksRefer
  <2> QED BY <1>3, <2>1, <2>2 DEF TasksRefer
<1>9. FramesNest'
  <2>1. ASSUME NEW u \in Task, NEW j \in DOMAIN Open(u)'
        PROVE  /\ spans'[Open(u)'[j].span].open
               /\ j > 1 => Open(u)'[j].before = Open(u)'[j - 1].span
               /\ Unlinked(Open(u)[j].span)' => Open(u)'[j].sync
    <3>1. /\ j \in DOMAIN Open(u) /\ Open(u)'[j] = Open(u)[j]
          /\ Open(u)[j].span \in DOMAIN spans \ {s} /\ j \in Nat
      BY <1>6
    <3>2. j > 1 => Open(u)'[j - 1] = Open(u)[j - 1]
      <4>1. j > 1 => j - 1 \in DOMAIN Open(u)'
        BY <1>2, <1>4, <3>1
      <4> QED BY <1>6, <4>1
    <3> QED BY <1>3, <3>1, <3>2 DEF Struct, FramesNest, Unlinked
  <2>2. ASSUME NEW u \in Task, Open(u)' # <<>>
        PROVE  task'[u].current = Open(u)'[Len(Open(u)')].span
    <3>1. CASE u = t
      <4>1. n - 1 >= 1
        <5>1. Open(t)' \in Seq(Frame)
          BY <1>1 DEF TypeOK, TaskState, Open
        <5> QED BY <1>4, <2>2, <3>1, <5>1, EmptySeq
      <4>2. Open(t)[n].before = Open(t)[n - 1].span
        BY <1>1, <1>4, <1>5, <4>1 DEF Struct, FramesNest
      <4> QED BY <1>4, <3>1, <4>1, <4>2
    <3>2. CASE u # t
      BY <1>4, <2>2, <3>2 DEF Struct, FramesNest
    <3> QED BY <3>1, <3>2
  <2>3. ASSUME NEW u \in Task, NEW v \in Task,
               NEW j \in DOMAIN Open(u)', NEW k \in DOMAIN Open(v)',
               Open(u)'[j].span = Open(v)'[k].span
        PROVE  u = v /\ j = k
    BY <1>6, <2>3 DEF Struct, FramesNest
  <2> QED BY <2>1, <2>2, <2>3 DEF FramesNest
<1>10. StackIsRunning'
  <2>1. ASSUME NEW u \in Task, InSyncBlock(u)' PROVE \E i \in DOMAIN running : running[i] = u
    <3>1. CASE u = t
      BY <1>1, <3>1
    <3>2. CASE u # t
      <4>1. InSyncBlock(u)
        BY <1>4, <2>1, <3>2 DEF InSyncBlock, Open
      <4> QED BY <4>1 DEF Struct, StackIsRunning
    <3> QED BY <3>1, <3>2
  <2> QED BY <1>2, <1>4, <2>1 DEF Struct, StackIsRunning
<1>11. UnlinkedAreOpen'
  <2>1. ASSUME NEW x \in DOMAIN spans', Unlinked(x)', spans'[x].open
        PROVE  \E i \in DOMAIN running' : OpenAt(i, x)'
    <3>1. x # s /\ x \in DOMAIN spans /\ Unlinked(x) /\ spans[x].open
      BY <1>3, <2>1 DEF Unlinked
    <3>2. PICK i \in DOMAIN running : OpenAt(i, x)
      BY <3>1 DEF Struct, UnlinkedAreOpen
    <3>3. PICK j \in DOMAIN Open(running[i]) : Open(running[i])[j].span = x
      BY <3>2 DEF OpenAt
    <3>4. ~(running[i] = t /\ j = n)
      BY <1>4, <3>1, <3>3
    <3>5. j \in DOMAIN Open(running[i])' /\ Open(running[i])'[j] = Open(running[i])[j]
      BY <1>2, <1>4, <1>5, <3>3, <3>4
    <3> QED BY <3>3, <3>5 DEF OpenAt
  <2> QED BY <2>1 DEF UnlinkedAreOpen
<1>12. \A u \in Task : Inherited(u)' = Inherited(u)
  <2>1. Inherited(t)' = Inherited(t)
    <3>1. Open(t) # <<>>
      BY <1>5
    <3>2. CASE n = 1
      <4>1. Open(t)' = <<>>
        <5>1. Open(t)' \in Seq(Frame) /\ Len(Open(t)') = 0
          BY <1>1, <1>4, <3>2 DEF TypeOK, TaskState, Open
        <5> QED BY <5>1, EmptySeq
      <4> QED BY <1>4, <3>1, <3>2, <4>1 DEF Inherited
    <3>3. CASE n # 1
      <4>1. 1 \in DOMAIN Open(t)' /\ Open(t)'[1] = Open(t)[1]
        BY <1>4, <3>3
      <4> QED BY <3>1, <4>1 DEF Inherited
    <3> QED BY <3>2, <3>3
  <2> QED BY <1>4, <2>1 DEF Inherited
<1>13. Sheltered'
  <2> SUFFICES ASSUME NEW i \in DOMAIN running, NEW j \in DOMAIN Open(running[i])',
                      Unlinked(Open(running[i])[j].span)'
               PROVE
            /\ \A k \in j .. Len(Open(running[i])') :
                  spans'[Open(running[i])'[k].span].sampled
            /\ \A m \in DOMAIN running : m > i =>
                  /\ \A k \in DOMAIN Open(running[m])' :
                        spans'[Open(running[m])'[k].span].sampled
                  /\ spans'[Inherited(running[m])'].sampled
                  /\ \E l \in DOMAIN running : l < m /\ OpenAt(l, Inherited(running[m]))'
    BY DEF Sheltered
  <2>1. /\ running[i] \in Task /\ j \in DOMAIN Open(running[i])
        /\ Unlinked(Open(running[i])[j].span)
    BY <1>2, <1>3, <1>6 DEF Unlinked
  <2>2. /\ \A k \in j .. Len(Open(running[i])) : spans[Open(running[i])[k].span].sampled
        /\ \A m \in DOMAIN running : m > i =>
              /\ \A k \in DOMAIN Open(running[m]) : spans[Open(running[m])[k].span].sampled
              /\ spans[Inherited(running[m])].sampled
              /\ \E l \in DOMAIN running : l < m /\ OpenAt(l, Inherited(running[m]))
    BY <2>1 DEF Struct, Sheltered
  <2>3. ASSUME NEW k \in j .. Len(Open(running[i])')
        PROVE  spans'[Open(running[i])'[k].span].sampled
    <3>1. k \in DOMAIN Open(running[i])'
      BY <1>2, <1>4, <2>1
    <3>2. k \in j .. Len(Open(running[i]))
      BY <1>2, <1>6, <2>1, <3>1
    <3> QED BY <1>3, <1>6, <2>1, <2>2, <3>1, <3>2
  <2>4. ASSUME NEW m \in DOMAIN running, m > i
        PROVE  /\ \A k \in DOMAIN Open(running[m])' :
                     spans'[Open(running[m])'[k].span].sampled
               /\ spans'[Inherited(running[m])'].sampled
               /\ \E l \in DOMAIN running : l < m /\ OpenAt(l, Inherited(running[m]))'
    <3>1. running[m] \in Task /\ Inherited(running[m])' = Inherited(running[m])
      BY <1>2, <1>12
    <3>2. PICK l \in DOMAIN running : l < m /\ OpenAt(l, Inherited(running[m]))
      BY <2>2, <2>4
    <3>3. Inherited(running[m]) \in DOMAIN spans
      BY <1>1, <1>2, <3>2 DEF OpenAt, Struct, TasksRefer
    <3>4. running[l] \in Task /\ running[l] # t
      <4>1. l # Len(running)
        BY <1>1, <3>2
      <4> QED BY <1>1, <1>2, <4>1 DEF Struct, StackIsRunning
    <3>5. OpenAt(l, Inherited(running[m]))'
      BY <1>4, <3>1, <3>2, <3>4 DEF OpenAt
    <3>6. ASSUME NEW k \in DOMAIN Open(running[m])'
          PROVE  spans'[Open(running[m])'[k].span].sampled
      BY <1>3, <1>6, <2>2, <2>4, <3>1
    <3> QED BY <1>3, <2>2, <2>4, <3>1, <3>2, <3>3, <3>5, <3>6
  <2> QED BY <2>3, <2>4
<1> QED BY <1>7, <1>8, <1>9, <1>10, <1>11, <1>13 DEF Struct

(* The stack and what is on it stay.                                        *)
LEMMA StayStruct ==
    ASSUME Struct, TypeOK', running' = running, spans' = spans,
           causes' \in Nat, causes <= causes', Len(contexts) <= Len(contexts'),
           \A u \in Task : /\ Open(u)' = Open(u) /\ task'[u].current = task[u].current
                           /\ task'[u].status = task[u].status
                           /\ task'[u].context \in 0 .. Len(contexts')
    PROVE  Struct'
<1>1. /\ \A u \in Task : /\ Len(Open(u)) \in Nat /\ DOMAIN Open(u) = 1 .. Len(Open(u))
      /\ \A i \in DOMAIN running : running[i] \in Task
      /\ \A i \in DOMAIN spans : spans[i].cause \in Nat
      /\ causes \in Nat /\ Len(contexts) \in Nat /\ Len(contexts') \in Nat
  BY ElementTypes DEF Struct, TypeOK, Span
<1>2. SpansRefer'
  BY <1>1 DEF Struct, SpansRefer
<1>3. TasksRefer'
  <2>1. ASSUME NEW u \in Task, NEW j \in DOMAIN Open(u)
        PROVE  /\ Open(u)[j].span \in 1 .. Len(spans) /\ Open(u)[j].before \in 0 .. Len(spans)
               /\ Open(u)[j].context \in 0 .. Len(contexts')
    BY <1>1 DEF Struct, TasksRefer
  <2> QED BY <2>1 DEF Struct, TasksRefer
<1>4. FramesNest'
  BY DEF Struct, FramesNest, Unlinked
<1>5. StackIsRunning'
  <2>1. ASSUME NEW u \in Task, InSyncBlock(u)' PROVE InSyncBlock(u)
    BY <2>1 DEF InSyncBlock, Open
  <2> QED BY <1>1, <2>1 DEF Struct, StackIsRunning
<1>6. \A i \in DOMAIN running : \A x : OpenAt(i, x)' <=> OpenAt(i, x)
  BY <1>1 DEF OpenAt
<1>7. UnlinkedAreOpen'
  BY <1>6 DEF Struct, UnlinkedAreOpen, Unlinked
<1>8. Sheltered'
  <2>1. \A u \in Task : Inherited(u)' = Inherited(u)
    BY DEF Inherited
  <2> QED BY <1>1, <1>6, <2>1 DEF Struct, Sheltered, Unlinked
<1> QED BY <1>2, <1>3, <1>4, <1>5, <1>7, <1>8 DEF Struct

(* A task runs when none did; it has no contextless event open.             *)
LEMMA BottomStruct ==
    ASSUME Struct, TypeOK', NEW t \in Task, running = <<>>, running' = <<t>>,
           Only(t), task'[t].status = "running",
           SpansRefer', TasksRefer', FramesNest',
           \A j \in DOMAIN Open(t)' : ~Unlinked(Open(t)[j].span)',
           \A x \in DOMAIN spans' : Unlinked(x)' /\ spans'[x].open
                                       => Unlinked(x) /\ spans[x].open
    PROVE  Struct'
<1>1. DOMAIN running = {} /\ DOMAIN running' = {1} /\ running'[1] = t
  BY DEF Struct, TypeOK
<1>2. StackIsRunning'
  <2>1. ASSUME NEW u \in Task, InSyncBlock(u)' PROVE u = t
    <3>1. SUFFICES ASSUME u # t PROVE FALSE
      OBVIOUS
    <3>2. InSyncBlock(u)
      BY <2>1, <3>1 DEF InSyncBlock, Only
    <3> QED BY <1>1, <3>2 DEF Struct, StackIsRunning
  <2> QED BY <1>1, <2>1 DEF StackIsRunning
<1>3. UnlinkedAreOpen'
  BY <1>1 DEF Struct, UnlinkedAreOpen, Unlinked
<1>4. Sheltered'
  BY <1>1 DEF Sheltered
<1> QED BY <1>2, <1>3, <1>4 DEF Struct

(* The running task leaves the stack, with no event's dispatch open.        *)
LEMMA LeaveStruct ==
    ASSUME Struct, TypeOK', NEW t, Runs(t), ~InSyncBlock(t),
           running' = Pop(running), Only(t), Open(t)' = Open(t),
           task'[t].current = task[t].current \/ Open(t) = <<>>,
           task'[t].current \in 0 .. Len(spans), task'[t].context \in 0 .. Len(contexts),
           spans' = spans, contexts' = contexts, causes' = causes
    PROVE  Struct'
<1> DEFINE n == Len(running)
<1>1. /\ t \in Task /\ t = Top /\ n \in DOMAIN running
      /\ DOMAIN running = 1 .. n /\ n \in Nat /\ n >= 1
      /\ running[n] = t /\ running # <<>>
  BY TopRuns, Lengths DEF Struct, Top
<1>2. /\ \A u \in Task : /\ Len(Open(u)) \in Nat /\ DOMAIN Open(u) = 1 .. Len(Open(u))
      /\ \A i \in DOMAIN running : running[i] \in Task
  BY ElementTypes DEF Struct
<1>3. /\ \A u \in Task : Open(u)' = Open(u)
      /\ \A u \in Task \ {t} : task'[u] = task[u]
  BY DEF Only, Open
<1>4. /\ DOMAIN running' = 1 .. n - 1
      /\ \A i \in DOMAIN running' : running'[i] = running[i] /\ i \in DOMAIN running
      /\ \A i \in DOMAIN running' : running[i] # t /\ running[i] \in Task
  <2>1. running \in Seq(Task)
    BY DEF Struct, TypeOK
  <2>2. DOMAIN running' = 1 .. n - 1 /\ \A i \in 1 .. n - 1 : running'[i] = running[i]
    BY <1>1, <2>1, PopShrinks
  <2>3. ASSUME NEW i \in 1 .. n - 1 PROVE i \in DOMAIN running /\ i # n
    <3> HIDE DEF n
    <3> QED BY <1>1
  <2> QED BY <1>1, <1>2, <2>2, <2>3 DEF Struct, StackIsRunning
<1>5. SpansRefer'
  BY DEF Struct, SpansRefer
<1>6. TasksRefer'
  BY <1>1, <1>3 DEF Struct, TasksRefer
<1>7. FramesNest'
  BY <1>1, <1>3 DEF Struct, FramesNest, Unlinked
<1>8. StackIsRunning'
  <2>1. ASSUME NEW u \in Task, InSyncBlock(u)' PROVE \E i \in DOMAIN running' : running'[i] = u
    <3>1. InSyncBlock(u)
      BY <1>3, <2>1 DEF InSyncBlock, Open
    <3>2. PICK i \in DOMAIN running : running[i] = u
      BY <3>1 DEF Struct, StackIsRunning
    <3>3. i # n
      BY <1>1, <3>1, <3>2
    <3> QED BY <1>1, <1>4, <3>2, <3>3
  <2> QED BY <1>3, <1>4, <2>1 DEF Struct, StackIsRunning
<1>9. ASSUME NEW i \in DOMAIN running', NEW x PROVE OpenAt(i, x)' <=> OpenAt(i, x)
  BY <1>3, <1>4 DEF OpenAt
<1>10. UnlinkedAreOpen'
  <2>1. ASSUME NEW x \in DOMAIN spans, Unlinked(x), spans[x].open
        PROVE  \E i \in DOMAIN running' : OpenAt(i, x)'
    <3>1. PICK i \in DOMAIN running : OpenAt(i, x)
      BY <2>1 DEF Struct, UnlinkedAreOpen
    <3>2. PICK j \in DOMAIN Open(running[i]) : Open(running[i])[j].span = x
      BY <3>1 DEF OpenAt
    <3>3. Open(running[i])[j].sync
      BY <1>2, <2>1, <3>2 DEF Struct, FramesNest
    <3>4. i # n
      BY <1>1, <3>2, <3>3 DEF InSyncBlock, Open
    <3>5. i \in DOMAIN running'
      BY <1>1, <1>4, <3>4
    <3> QED BY <1>9, <3>1, <3>5
  <2> QED BY <2>1 DEF UnlinkedAreOpen, Unlinked
<1>11. Sheltered'
  <2>1. /\ \A i \in DOMAIN running' : Open(running[i])' = Open(running[i])
        /\ \A i \in DOMAIN running' : Inherited(running[i])' = Inherited(running[i])
    BY <1>3, <1>4 DEF Inherited, Open
  <2> SUFFICES ASSUME NEW i \in DOMAIN running', NEW j \in DOMAIN Open(running[i]),
                      Unlinked(Open(running[i])[j].span)
               PROVE
            /\ \A k \in j .. Len(Open(running[i])) : spans[Open(running[i])[k].span].sampled
            /\ \A m \in DOMAIN running' : m > i =>
                  /\ \A k \in DOMAIN Open(running[m]) : spans[Open(running[m])[k].span].sampled
                  /\ spans[Inherited(running[m])].sampled
                  /\ \E l \in DOMAIN running' : l < m /\ OpenAt(l, Inherited(running[m]))'
    BY <1>4, <2>1, ZenonT(40) DEF Sheltered, Unlinked
  <2>2. /\ \A k \in j .. Len(Open(running[i])) : spans[Open(running[i])[k].span].sampled
        /\ \A m \in DOMAIN running : m > i =>
              /\ \A k \in DOMAIN Open(running[m]) : spans[Open(running[m])[k].span].sampled
              /\ spans[Inherited(running[m])].sampled
              /\ \E l \in DOMAIN running : l < m /\ OpenAt(l, Inherited(running[m]))
    BY <1>4 DEF Struct, Sheltered
  <2>3. ASSUME NEW m \in DOMAIN running', m > i
        PROVE  \E l \in DOMAIN running' : l < m /\ OpenAt(l, Inherited(running[m]))'
    <3>1. PICK l \in DOMAIN running : l < m /\ OpenAt(l, Inherited(running[m]))
      BY <1>4, <2>2, <2>3
    <3>2. l \in DOMAIN running'
      BY <1>1, <1>4, <3>1
    <3>3. OpenAt(l, Inherited(running[m]))' <=> OpenAt(l, Inherited(running[m]))
      BY <1>4, <2>1, <2>3, <3>2 DEF OpenAt
    <3> QED BY <3>1, <3>2, <3>3
  <2> QED BY <1>4, <2>2, <2>3
<1> QED BY <1>5, <1>6, <1>7, <1>8, <1>10, <1>11 DEF Struct

(* A task is created on top of the running one, inside the same span.       *)
LEMMA SpawnStruct ==
    ASSUME Struct, TypeOK', NEW t, Runs(t), NEW u \in Task, task[u].status = "unused",
           running' = Append(running, u), Only(u), task'[u].status = "running",
           Open(u)' = <<>>, task'[u].current = task[t].current,
           task'[u].context = task[t].context,
           spans' = spans, contexts' = contexts, causes' = causes
    PROVE  Struct'
<1> PICK n \in Nat : n = Len(running)
  BY Lengths DEF Struct
<1>1. /\ t \in Task /\ t = Top /\ n \in DOMAIN running
      /\ DOMAIN running = 1 .. n /\ n \in Nat /\ n >= 1
      /\ running[n] = t /\ running # <<>>
  BY TopRuns, Lengths DEF Struct, Top
<1>2. /\ \A v \in Task : /\ Len(Open(v)) \in Nat /\ DOMAIN Open(v) = 1 .. Len(Open(v))
      /\ \A i \in DOMAIN running : running[i] \in Task \ {u}
  <2>1. \A i \in DOMAIN running : running[i] # u
    BY DEF Struct, StackIsRunning
  <2> QED BY <2>1, ElementTypes DEF Struct
<1>3. /\ \A v \in Task \ {u} : Open(v)' = Open(v)
      /\ \A v \in Task \ {u} : task'[v] = task[v]
      /\ t # u
  BY <1>1, <1>2 DEF Only, Open
<1>4. /\ DOMAIN running' = 1 .. n + 1 /\ running'[n + 1] = u
      /\ \A i \in DOMAIN running : running'[i] = running[i]
  <2>1. running \in Seq(Task)
    BY DEF Struct, TypeOK
  <2> QED BY <2>1, AppendGrows DEF Grown
<1>5. \A i \in DOMAIN running' : i = n + 1 \/ i \in DOMAIN running
  BY <1>1, <1>4
<1>6. SpansRefer'
  BY DEF Struct, SpansRefer
<1>7. TasksRefer'
  BY <1>1, <1>3 DEF Struct, TasksRefer
<1>8. FramesNest'
  <2>1. DOMAIN Open(u)' = {}
    OBVIOUS
  <2> QED BY <1>3, <2>1 DEF Struct, FramesNest, Unlinked
<1>9. StackIsRunning'
  <2>1. ASSUME NEW v \in Task, InSyncBlock(v)' PROVE \E i \in DOMAIN running' : running'[i] = v
    <3>1. v # u
      BY <2>1 DEF InSyncBlock, Open
    <3>2. InSyncBlock(v)
      BY <1>3, <2>1, <3>1 DEF InSyncBlock, Open
    <3>3. PICK i \in DOMAIN running : running[i] = v
      BY <3>2 DEF Struct, StackIsRunning
    <3>4. i \in DOMAIN running'
      BY <1>1, <1>4
    <3> QED BY <1>4, <3>3, <3>4
  <2>2. ASSUME NEW i \in DOMAIN running', NEW j \in DOMAIN running', running'[i] = running'[j]
        PROVE  i = j
    BY <1>2, <1>4, <1>5, <2>2 DEF Struct, StackIsRunning
  <2>3. \A i \in DOMAIN running' : task'[running'[i]].status = "running"
    BY <1>2, <1>3, <1>4, <1>5 DEF Struct, StackIsRunning
  <2> QED BY <2>1, <2>2, <2>3 DEF StackIsRunning
<1>10. DOMAIN running \subseteq DOMAIN running'
  BY <1>1, <1>4
<1>11. ASSUME NEW i \in DOMAIN running, NEW x PROVE OpenAt(i, x)' <=> OpenAt(i, x)
  <2> PICK v \in Task \ {u} : v = running[i]
    BY <1>2
  <2>1. i \in DOMAIN running' /\ running'[i] = v /\ Open(v)' = Open(v)
    BY <1>3, <1>4, <1>10
  <2> QED BY <2>1 DEF OpenAt
<1>12. UnlinkedAreOpen'
  BY <1>10, <1>11 DEF Struct, UnlinkedAreOpen, Unlinked
<1>13. Sheltered'
  <2>1. /\ \A i \in DOMAIN running : Open(running[i])' = Open(running[i])
        /\ \A i \in DOMAIN running : Inherited(running[i])' = Inherited(running[i])
    BY <1>2, <1>3, <1>4 DEF Inherited, Open
  <2>2. Open(running[n + 1])' = <<>> /\ Inherited(running[n + 1])' = task[t].current
    BY <1>4 DEF Inherited, Open
  <2> SUFFICES ASSUME NEW i \in DOMAIN running', NEW j \in DOMAIN Open(running[i])',
                      Unlinked(Open(running[i])[j].span)'
               PROVE
            /\ \A k \in j .. Len(Open(running[i])') :
                  spans'[Open(running[i])'[k].span].sampled
            /\ \A m \in DOMAIN running' : m > i =>
                  /\ \A k \in DOMAIN Open(running[m])' :
                        spans'[Open(running[m])'[k].span].sampled
                  /\ spans'[Inherited(running[m])'].sampled
                  /\ \E l \in DOMAIN running' : l < m /\ OpenAt(l, Inherited(running[m]))'
    BY DEF Sheltered
  <2>3. i \in DOMAIN running
    BY <1>5, <2>2
  <2>4. /\ j \in DOMAIN Open(running[i]) /\ Unlinked(Open(running[i])[j].span)
        /\ Open(running[i])' = Open(running[i]) /\ running[i] \in Task
    BY <1>2, <2>1, <2>3 DEF Unlinked
  <2>5. /\ \A k \in j .. Len(Open(running[i])) : spans[Open(running[i])[k].span].sampled
        /\ \A m \in DOMAIN running : m > i =>
              /\ \A k \in DOMAIN Open(running[m]) : spans[Open(running[m])[k].span].sampled
              /\ spans[Inherited(running[m])].sampled
              /\ \E l \in DOMAIN running : l < m /\ OpenAt(l, Inherited(running[m]))
    BY <2>3, <2>4 DEF Struct, Sheltered
  <2>6. ASSUME NEW m \in DOMAIN running', m > i
        PROVE  /\ \A k \in DOMAIN Open(running[m])' :
                     spans[Open(running[m])'[k].span].sampled
               /\ spans[Inherited(running[m])'].sampled
               /\ \E l \in DOMAIN running' : l < m /\ OpenAt(l, Inherited(running[m]))'
    <3>1. CASE m \in DOMAIN running
      <4>1. PICK l \in DOMAIN running : l < m /\ OpenAt(l, Inherited(running[m]))
        BY <2>5, <2>6, <3>1
      <4>2. OpenAt(l, Inherited(running[m]))' <=> OpenAt(l, Inherited(running[m]))
        BY <1>2, <1>4, <2>1, <3>1 DEF OpenAt
      <4> QED BY <1>10, <2>1, <2>5, <2>6, <3>1, <4>1, <4>2
    <3>2. CASE m = n + 1
      <4>1. spans[Open(running[i])[j].span].open
        BY <2>4 DEF Struct, FramesNest
      <4>2. Recording(task[t].current)
        BY <2>4, <4>1, TopRecords
      <4>3. PICK l \in DOMAIN running : OpenAt(l, task[t].current)
        BY <2>4, <4>1, TopRecords
      <4>4. OpenAt(l, Inherited(running[m]))' <=> OpenAt(l, task[t].current)
        BY <1>2, <1>4, <2>1, <2>2, <3>2 DEF OpenAt
      <4>5. l < m
        BY <1>1, <3>2
      <4>6. Open(running[m])' = <<>> /\ Inherited(running[m])' = task[t].current
        BY <2>2, <3>2
      <4>7. \A k \in DOMAIN Open(running[m])' : FALSE
        BY <4>6
      <4> QED BY <1>10, <4>2, <4>3, <4>4, <4>5, <4>6, <4>7 DEF Recording
    <3> QED BY <1>5, <3>1, <3>2
  <2> QED BY <2>4, <2>5, <2>6
<1> QED BY <1>6, <1>7, <1>8, <1>9, <1>12, <1>13 DEF Struct

-----------------------------------------------------------------------------
(* Causes and traces                                                        *)
Causal == /\ ContextsRefer /\ LinkAgreement
          /\ ClaimsAgree /\ UnlinkedClaims /\ LinkedIsCarried /\ OneParentless
          /\ RequestsAreNew /\ ContextTracestates /\ TracestateStays

LEMMA IInvParts == IInv <=> Struct /\ Causal
BY DEF IInv, Struct, Causal

(* A span never changes but by ending.                                      *)
Kept1(i) == /\ spans'[i].trace = spans[i].trace /\ spans'[i].sampled = spans[i].sampled
            /\ spans'[i].cause = spans[i].cause /\ spans'[i].linked = spans[i].linked
            /\ spans'[i].tracestate = spans[i].tracestate
            /\ spans'[i].open => spans[i].open

SpansKept == /\ DOMAIN spans \subseteq DOMAIN spans'
             /\ \A i \in DOMAIN spans : Kept1(i)

LEMMA GoesWithStays ==
    ASSUME SpansKept, NEW tracestate, NEW trace \in DOMAIN spans
    PROVE  GoesWith(tracestate, trace)' <=> GoesWith(tracestate, trace)
BY DEF SpansKept, Kept1, GoesWith

LEMMA LinkedToStays ==
    ASSUME SpansKept, NEW i \in DOMAIN spans, NEW cause
    PROVE  LinkedTo(i, cause)' <=> LinkedTo(i, cause)
BY DEF SpansKept, Kept1, LinkedTo

(* A request that goes on keeps its span, its carrier and its tracestate.   *)
RequestKept(u) ==
    task'[u].request =>
        /\ task[u].request /\ Open(u)' # <<>> /\ RequestSpan(u)' = RequestSpan(u)
        /\ task'[u].carrier = task[u].carrier /\ task'[u].tracestate = task[u].tracestate

LEMMA RequestStays ==
    ASSUME IInv, TypeOK', SpansKept, NEW u \in Task, RequestKept(u), task'[u].request,
           \A c \in DOMAIN contexts' : contexts'[c].cause # spans[RequestSpan(u)].cause
    PROVE  /\ RequestIsNew(u)' /\ task[u].request
           /\ RequestSpan(u)' = RequestSpan(u) /\ RequestSpan(u) \in DOMAIN spans
<1>1. /\ DOMAIN spans = 1 .. Len(spans) /\ Len(spans) \in Nat /\ MaxSpans \in Nat
      /\ DOMAIN spans' = 1 .. Len(spans') /\ Len(spans') \in Nat /\ Len(spans') <= MaxSpans
      /\ Len(spans) <= Len(spans')
  <2>1. /\ DOMAIN spans = 1 .. Len(spans) /\ Len(spans) \in Nat /\ MaxSpans \in Nat
        /\ DOMAIN spans' = 1 .. Len(spans') /\ Len(spans') \in Nat /\ Len(spans') <= MaxSpans
    BY Lengths, ContextLinkingAssumption DEF IInv, TypeOK
  <2>2. Len(spans) # 0 => Len(spans) \in 1 .. Len(spans')
    BY <2>1 DEF SpansKept
  <2> QED BY <2>1, <2>2
<1>2. /\ task[u].request /\ Open(u)' # <<>> /\ RequestSpan(u)' = RequestSpan(u)
      /\ RequestSpan(u) \in DOMAIN spans
  <2>1. task[u].request /\ Open(u)' # <<>> /\ RequestSpan(u)' = RequestSpan(u)
    BY DEF RequestKept
  <2>2. Open(u) # <<>>
    BY <2>1 DEF IInv, RequestsAreNew, RequestIsNew
  <2>3. 1 \in DOMAIN Open(u)
    BY <2>2, ElementTypes, EmptySeq DEF IInv
  <2>4. RequestSpan(u) \in DOMAIN spans
    BY <1>1, <2>3 DEF IInv, TasksRefer, RequestSpan
  <2> QED BY <2>1, <2>4
<1>3. RequestIsNew(u)'
  <2> PICK r \in DOMAIN spans : r = RequestSpan(u)
    BY <1>2
  <2>1. /\ task[u].request /\ Open(u)' # <<>> /\ RequestSpan(u)' = r
        /\ task'[u].carrier = task[u].carrier /\ task'[u].tracestate = task[u].tracestate
    BY <1>2 DEF RequestKept
  <2>2. /\ spans[r].linked /\ spans[r].cause >= 1
        /\ task[u].carrier \in (0 .. Len(spans)) \cup {Bad}
        /\ spans[r].sampled \/ Readable(task[u].carrier)
        /\ Readable(task[u].carrier) =>
              /\ LinkedTo(task[u].carrier, spans[r].cause)
              /\ spans[task[u].carrier].tracestate = task[u].tracestate
        /\ task[u].tracestate # None => GoesWith(task[u].tracestate, spans[r].trace)
    BY <2>1 DEF IInv, RequestsAreNew, RequestIsNew
  <2>3. Kept1(r) /\ spans[r].trace \in DOMAIN spans
    BY DEF SpansKept, IInv, SpansRefer
  <2>4. Readable(task[u].carrier)' <=> Readable(task[u].carrier)
    BY <1>1, <2>1, <2>2 DEF Readable, Bad
  <2>5. Readable(task[u].carrier)' =>
           /\ LinkedTo(task[u].carrier, spans[r].cause)'
           /\ spans'[task'[u].carrier].tracestate = task'[u].tracestate
    <3>1. SUFFICES ASSUME Readable(task[u].carrier)
                   PROVE  /\ LinkedTo(task[u].carrier, spans[r].cause)'
                          /\ spans'[task'[u].carrier].tracestate = task'[u].tracestate
      BY <2>4
    <3>2. Kept1(task[u].carrier) /\ task[u].carrier \in DOMAIN spans'
      BY <1>1, <3>1 DEF Readable, SpansKept
    <3> QED BY <2>1, <2>2, <2>3, <3>1, <3>2 DEF Kept1, LinkedTo
  <2>6. task[u].tracestate # None => GoesWith(task[u].tracestate, spans[r].trace)'
    <3>1. spans'[r].trace = spans[r].trace
      BY <2>3 DEF Kept1
    <3> QED BY <2>1, <2>2, <2>3, <3>1 DEF GoesWith, SpansKept, Kept1
  <2>7. \A c \in DOMAIN contexts' : contexts'[c].cause # spans'[r].cause
    BY <2>3 DEF Kept1
  <2>8. task'[u].carrier \in (0 .. Len(spans')) \cup {Bad}
    BY <1>1, <2>1, <2>2
  <2> QED BY <2>1, <2>2, <2>3, <2>4, <2>5, <2>6, <2>7, <2>8 DEF Kept1, RequestIsNew
<1> QED BY <1>2, <1>3

LEMMA RequestsStay ==
    ASSUME IInv, TypeOK', SpansKept, \A u \in Task : RequestKept(u),
           \A u \in Task : task'[u].request =>
               \A c \in DOMAIN contexts' : contexts'[c].cause # spans[RequestSpan(u)].cause
    PROVE  RequestsAreNew'
<1>1. ASSUME NEW u \in Task, task'[u].request
      PROVE  /\ RequestIsNew(u)' /\ task[u].request
             /\ RequestSpan(u)' = RequestSpan(u) /\ RequestSpan(u) \in DOMAIN spans
  BY <1>1, RequestStays
<1>2. ASSUME NEW u \in Task, NEW v \in Task, task'[u].request, task'[v].request,
             spans'[RequestSpan(u)'].cause = spans'[RequestSpan(v)'].cause
      PROVE  u = v
  BY <1>1, <1>2 DEF IInv, RequestsAreNew, RequestIsNew, SpansKept, Kept1
<1> QED BY <1>1, <1>2 DEF RequestsAreNew, RequestIsNew

(* A step that makes no span and no context, and makes no recording span    *)
(* current for a context it was not current for.                            *)
LEMMA QuietCausal ==
    ASSUME IInv, TypeOK', SpansKept, Len(spans') = Len(spans),
           contexts' = contexts, registry' = registry, causes' = causes,
           \A s \in DOMAIN spans, c \in DOMAIN contexts :
               Current(s, c)' /\ Recording(s)' => Current(s, c),
           \A u \in Task : RequestKept(u)
    PROVE  Causal'
<1>1. /\ DOMAIN spans = 1 .. Len(spans) /\ Len(spans) \in Nat
      /\ DOMAIN spans' = DOMAIN spans /\ DOMAIN contexts' = DOMAIN contexts
      /\ DOMAIN contexts = 1 .. Len(contexts)
  BY Lengths DEF IInv, TypeOK
<1>2. \A x : Readable(x)' <=> Readable(x)
  BY DEF Readable
<1>3. \A i \in DOMAIN spans : \A k : LinkedTo(i, k)' <=> LinkedTo(i, k)
  BY LinkedToStays
<1>4. \A x : \A w \in DOMAIN spans : GoesWith(x, w)' <=> GoesWith(x, w)
  BY GoesWithStays
<1>5. \A s \in DOMAIN spans : Recording(s)' => Recording(s)
  BY DEF Recording, SpansKept, Kept1
<1>6. \A i \in DOMAIN spans : spans[i].trace \in DOMAIN spans
  BY DEF IInv, SpansRefer
<1>7. ContextsRefer'
  BY <1>1, <1>2 DEF IInv, ContextsRefer, SpansKept, Kept1, Readable
<1>8. LinkAgreement'
  BY DEF IInv, LinkAgreement
<1>9. ASSUME NEW k, NEW w, Claims(k, w)' PROVE Claims(k, w)
  <2>1. CASE \E i \in DOMAIN spans : LinkedTo(i, k)' /\ spans'[i].trace = w
    BY <1>3, <2>1 DEF Claims, SpansKept, Kept1
  <2>2. CASE \E s \in DOMAIN spans, c \in DOMAIN contexts :
                /\ Current(s, c)' /\ Recording(s)'
                /\ contexts[c].cause = k /\ spans'[s].trace = w
    BY <1>5, <2>2 DEF Claims, SpansKept, Kept1
  <2> QED BY <1>1, <1>9, <2>1, <2>2 DEF Claims
<1>10. ClaimsAgree'
  BY <1>9 DEF IInv, ClaimsAgree
<1>11. UnlinkedClaims'
  BY <1>1, <1>3, <1>5 DEF IInv, UnlinkedClaims, SpansKept, Kept1
<1>12. LinkedIsCarried'
  BY <1>1, <1>2, <1>3 DEF IInv, LinkedIsCarried, Parentless
<1>13. OneParentless'
  BY DEF IInv, OneParentless, Parentless
<1>14. ContextTracestates'
  BY <1>1, <1>3, <1>4, <1>6 DEF IInv, ContextTracestates, SpansKept, Kept1
<1>15. TracestateStays'
  BY <1>1, <1>2, <1>4, <1>6 DEF IInv, TracestateStays, SpansKept, Kept1, Readable
<1>16. RequestsAreNew'
  <2>1. \A u \in Task : task'[u].request =>
           \A c \in DOMAIN contexts' : contexts'[c].cause # spans[RequestSpan(u)].cause
    BY DEF RequestKept, IInv, RequestsAreNew, RequestIsNew
  <2> QED BY <2>1, RequestsStay
<1> QED BY <1>7, <1>8, <1>10, <1>11, <1>12, <1>13, <1>14, <1>15, <1>16 DEF Causal

(* One new claim that agrees with those of its cause.                       *)
LEMMA OneMoreClaim ==
    ASSUME ClaimsAgree, NEW k, NEW trace,
           \A cause, w \in Nat :
               Claims(cause, w)' => Claims(cause, w) \/ (cause = k /\ w = trace),
           \A w \in Nat : Claims(k, w) => w = trace
    PROVE  ClaimsAgree'
<1> SUFFICES ASSUME NEW cause \in Nat, NEW v \in Nat, NEW w \in Nat,
                    Claims(cause, v)', Claims(cause, w)'
             PROVE  v = w
  BY DEF ClaimsAgree
<1> QED BY DEF ClaimsAgree

LEMMA CurrentEntered ==
    ASSUME IInv, NEW t \in Task, NEW s, NEW c, NEW sync, Entered(t, s, c, sync),
           NEW x, NEW d, Current(x, d)'
    PROVE  (x = s /\ d = c) \/ Current(x, d)
<1>1. /\ Len(Open(t)) \in Nat /\ DOMAIN Open(t) = 1 .. Len(Open(t))
  BY ElementTypes DEF IInv
<1>2. PICK u \in Task :
         \/ task'[u].current = x /\ task'[u].context = d
         \/ \E j \in DOMAIN Open(u)' : Open(u)'[j].before = x /\ Open(u)'[j].context = d
  BY DEF Current
<1>3. CASE u # t
  <2>1. task'[u] = task[u] /\ Open(u)' = Open(u)
    BY <1>3 DEF Entered, Only, Open
  <2> QED BY <1>2, <2>1 DEF Current
<1>4. CASE u = t /\ task'[u].current = x /\ task'[u].context = d
  BY <1>4 DEF Entered
<1>5. CASE u = t /\ \E j \in DOMAIN Open(u)' : Open(u)'[j].before = x /\ Open(u)'[j].context = d
  <2>1. PICK j \in DOMAIN Open(t)' : Open(t)'[j].before = x /\ Open(t)'[j].context = d
    BY <1>5
  <2>2. CASE j = Len(Open(t)) + 1
    BY <2>1, <2>2 DEF Entered, Current
  <2>3. CASE j # Len(Open(t)) + 1
    <3>1. j \in DOMAIN Open(t) /\ Open(t)'[j] = Open(t)[j]
      BY <1>1, <2>3 DEF Entered
    <3> QED BY <2>1, <3>1 DEF Current
  <2> QED BY <2>2, <2>3
<1> QED BY <1>2, <1>3, <1>4, <1>5

(* The registry names what the carrier of the context names.                *)
LEMMA RegisteredIsLinked ==
    ASSUME IInv, NEW c \in DOMAIN registry
    PROVE  /\ c \in DOMAIN contexts /\ registry[c] \in DOMAIN spans
           /\ LinkedTo(registry[c], contexts[c].cause)
           /\ Readable(contexts[c].traceparent) /\ contexts[c].traceparent = registry[c]
<1>1. c \in DOMAIN contexts /\ registry[c] \in DOMAIN spans /\ DOMAIN spans = 1 .. Len(spans)
  BY Lengths DEF IInv, TypeOK
<1>2. Readable(contexts[c].traceparent) /\ contexts[c].traceparent = registry[c]
  BY <1>1 DEF IInv, LinkAgreement, Readable
<1> QED BY <1>1, <1>2 DEF IInv, ContextsRefer, LinkedTo

(* What Resolve finds for a context has the trace its cause has; and if it  *)
(* finds nothing, the cause has no trace yet.                               *)
LEMMA ResolveClaims ==
    ASSUME IInv, NEW t, Runs(t), NEW c \in DOMAIN contexts, c = task[t].context
    PROVE  /\ Resolve(t, c).span = None =>
                 /\ Parentless(c) /\ Resolve(t, c).tracestate = None
                 /\ ~Recording(task[t].current)
                 /\ \A i \in DOMAIN spans : ~LinkedTo(i, contexts[c].cause)
                 /\ \A w : ~Claims(contexts[c].cause, w)
           /\ Resolve(t, c).span # None =>
                 /\ Resolve(t, c).span \in DOMAIN spans
                 /\ Claims(contexts[c].cause, spans[Resolve(t, c).span].trace)
                 /\ GoesWith(Resolve(t, c).tracestate, spans[Resolve(t, c).span].trace)
<1> DEFINE k == contexts[c].cause
           p == Resolve(t, c)
<1>1. /\ t \in Task /\ Struct
      /\ DOMAIN spans = 1 .. Len(spans) /\ Len(spans) \in Nat
      /\ DOMAIN contexts = 1 .. Len(contexts) /\ Len(contexts) \in Nat
      /\ c # None /\ task[t].current \in 0 .. Len(spans)
  BY TopRuns, Lengths, IInvParts DEF IInv, None, TasksRefer
<1>2. \A s \in DOMAIN spans : s # None /\ GoesWith(spans[s].tracestate, spans[s].trace)
  BY <1>1 DEF IInv, TracestateStays, None
<1>3. CASE Recording(task[t].current)
  <2>1. p.span = task[t].current /\ p.tracestate = spans[task[t].current].tracestate
    BY <1>3 DEF Resolve, SpanContext, From, Recording
  <2>2. task[t].current \in DOMAIN spans
    BY <1>1, <1>3 DEF Recording, None
  <2>3. Claims(k, spans[task[t].current].trace)
    <3>1. Current(task[t].current, c)
      BY <1>1 DEF Current
    <3> QED BY <1>3, <2>2, <3>1 DEF Claims
  <2> QED BY <1>2, <2>1, <2>2, <2>3
<1>4. CASE ~Recording(task[t].current) /\ Readable(contexts[c].traceparent)
  <2> DEFINE s == contexts[c].traceparent
  <2>1. p.span = s /\ p.tracestate = contexts[c].tracestate
    BY <1>1, <1>4 DEF Resolve, From
  <2>2. s \in DOMAIN spans /\ LinkedTo(s, k)
    BY <1>1, <1>4 DEF IInv, ContextsRefer, LinkedTo, Readable
  <2>3. GoesWith(contexts[c].tracestate, spans[s].trace)
    BY <1>4 DEF IInv, TracestateStays
  <2> HIDE DEF s, k
  <2>4. Claims(k, spans[s].trace)
    BY <2>2 DEF Claims
  <2> QED BY <1>2, <2>1, <2>2, <2>3, <2>4 DEF k
<1>5. CASE ~Recording(task[t].current) /\ ~Readable(contexts[c].traceparent)
  <2>1. c \notin DOMAIN registry
    BY <1>5, RegisteredIsLinked
  <2>2. contexts[c].otel = None
    BY <2>1 DEF IInv, ContextsRefer
  <2>3. p = SpanContext(LookupParent(c))
    BY <1>1, <1>5 DEF Resolve
  <2>4. CASE contexts[c].parent # None
    <3> DEFINE d == contexts[c].parent
    <3>1. d \in DOMAIN registry /\ contexts[d].cause = k
      BY <2>4 DEF IInv, ContextsRefer
    <3>2. LookupParent(c) = registry[d]
      BY <2>1, <3>1 DEF LookupParent
    <3>3. registry[d] \in DOMAIN spans /\ LinkedTo(registry[d], k)
      BY <3>1, RegisteredIsLinked
    <3> HIDE DEF d
    <3>4. p.span = registry[d] /\ p.tracestate = spans[registry[d]].tracestate
      BY <1>2, <2>3, <3>2, <3>3 DEF SpanContext, From
    <3>5. Claims(k, spans[registry[d]].trace)
      BY <3>3 DEF Claims
    <3> QED BY <1>2, <3>3, <3>4, <3>5
  <2>5. CASE contexts[c].parent = None
    <3>1. None \notin DOMAIN registry
      BY <1>1 DEF IInv, TypeOK, None
    <3>2. LookupParent(c) = None
      BY <2>1, <2>2, <2>5, <3>1 DEF LookupParent
    <3>3. p.span = None /\ p.tracestate = None
      BY <2>3, <3>2 DEF SpanContext, Root, From
    <3>4. \A i \in DOMAIN spans : ~LinkedTo(i, k)
      BY <1>5, <2>5 DEF IInv, LinkedIsCarried, Parentless
    <3>5. ASSUME NEW w, Claims(k, w) PROVE FALSE
      <4>1. PICK s \in DOMAIN spans, d \in DOMAIN contexts :
               /\ Current(s, d) /\ Recording(s)
               /\ contexts[d].cause = k /\ spans[s].trace = w
        BY <3>4, <3>5 DEF Claims
      <4>2. ~spans[s].linked
        BY <3>4, <4>1 DEF IInv, UnlinkedClaims
      <4>3. Unlinked(s) /\ spans[s].open
        BY <4>1, <4>2 DEF Unlinked, Recording
      <4> QED BY <1>1, <1>5, <4>3, TopRecords
    <3> QED BY <1>5, <2>5, <3>3, <3>4, <3>5 DEF Parentless
  <2> QED BY <2>4, <2>5
<1> QED BY <1>3, <1>4, <1>5

(* A context is linked to a span.                                           *)
LinkedAt(c, s, tracestate) ==
    /\ DOMAIN contexts' = DOMAIN contexts
    /\ \A d \in DOMAIN contexts \ {c} : contexts'[d] = contexts[d]
    /\ contexts'[c].parent = contexts[c].parent /\ contexts'[c].cause = contexts[c].cause
    /\ contexts'[c].otel = s /\ contexts'[c].traceparent = s
    /\ contexts'[c].tracestate = Kept(tracestate, contexts[c].tracestate)
    /\ registry' = Register(c, s)

LEMMA BegunKeeps ==
    ASSUME TypeOK, NEW s, NEW parent, NEW cause, NEW linked, Begun(s, parent, cause, linked)
    PROVE  /\ SpansKept /\ s \notin DOMAIN spans
           /\ DOMAIN spans' = DOMAIN spans \cup {s} /\ s \in Nat
           /\ \A i \in DOMAIN spans : Recording(i)' <=> Recording(i)
<1>1. DOMAIN spans = 1 .. Len(spans) /\ Len(spans) \in Nat
  BY Lengths
<1>2. DOMAIN spans' = DOMAIN spans \cup {s} /\ s \notin DOMAIN spans /\ s \in Nat
  BY <1>1 DEF Begun
<1> QED BY <1>2 DEF Begun, SpansKept, Kept1, Recording

(* What the parent's trace and tracestate make of the child's.              *)
LEMMA ChildGoesWith ==
    ASSUME IInv, NEW s, NEW parent, NEW cause, NEW linked, Begun(s, parent, cause, linked),
           parent.span # None =>
              /\ parent.span \in DOMAIN spans
              /\ GoesWith(parent.tracestate, spans[parent.span].trace)
    PROVE  /\ GoesWith(parent.tracestate, spans[s].trace)'
           /\ \A i \in DOMAIN spans' : GoesWith(spans[i].tracestate, spans[i].trace)'
<1>1. SpansKept /\ DOMAIN spans' = DOMAIN spans \cup {s}
  BY BegunKeeps DEF IInv
<1>2. \A i \in DOMAIN spans : spans[i].trace \in DOMAIN spans /\ Kept1(i)
  BY <1>1 DEF IInv, SpansRefer, SpansKept
<1>3. GoesWith(parent.tracestate, spans[s].trace)'
  <2>1. CASE parent.span = None
    BY <2>1 DEF Begun, GoesWith
  <2>2. CASE parent.span # None
    <3>1. spans'[s].trace = spans[parent.span].trace
      BY <2>2 DEF Begun
    <3> QED BY <1>2, <2>2, <3>1 DEF GoesWith, Kept1
  <2> QED BY <2>1, <2>2
<1>4. ASSUME NEW i \in DOMAIN spans PROVE GoesWith(spans[i].tracestate, spans[i].trace)'
  BY <1>2 DEF IInv, TracestateStays, GoesWith, Kept1
<1>5. spans'[s].tracestate = parent.tracestate
  BY DEF Begun
<1> QED BY <1>1, <1>3, <1>4, <1>5 DEF GoesWith

(* A span of an event or a service call, and the context linked to it.      *)
LEMMA StartCausal ==
    ASSUME IInv, TypeOK', NEW t, Runs(t), NEW c \in DOMAIN contexts, c = task[t].context,
           NEW s, NEW sync, NEW k \in Nat, k = contexts[c].cause,
           NEW p, p = Resolve(t, c),
           Begun(s, p, k, TRUE), Entered(t, s, c, sync), LinkedAt(c, s, p.tracestate),
           causes' = causes
    PROVE  Causal'
<1>1. /\ t \in Task /\ SpansKept /\ s \notin DOMAIN spans
      /\ DOMAIN spans' = DOMAIN spans \cup {s} /\ s \in Nat
      /\ \A i \in DOMAIN spans : Recording(i)' <=> Recording(i)
      /\ DOMAIN spans' = 1 .. Len(spans') /\ Len(spans') \in Nat
      /\ Len(spans') <= MaxSpans /\ MaxSpans \in Nat
      /\ DOMAIN spans = 1 .. Len(spans) /\ Len(spans) \in Nat
  <2>1. /\ t \in Task /\ SpansKept /\ s \notin DOMAIN spans
        /\ DOMAIN spans' = DOMAIN spans \cup {s} /\ s \in Nat
        /\ \A i \in DOMAIN spans : Recording(i)' <=> Recording(i)
    BY TopRuns, BegunKeeps DEF IInv
  <2>2. /\ DOMAIN spans = 1 .. Len(spans) /\ Len(spans) \in Nat
        /\ DOMAIN spans' = 1 .. Len(spans') /\ Len(spans') \in Nat
        /\ Len(spans') <= MaxSpans /\ MaxSpans \in Nat
    BY Lengths, ContextLinkingAssumption DEF IInv, TypeOK
  <2> QED BY <2>1, <2>2
<1>2. /\ p.span = None =>
            /\ Parentless(c) /\ p.tracestate = None
            /\ \A i \in DOMAIN spans : ~LinkedTo(i, k)
            /\ \A w : ~Claims(k, w)
      /\ p.span # None =>
            /\ p.span \in DOMAIN spans
            /\ Claims(k, spans[p.span].trace)
            /\ GoesWith(p.tracestate, spans[p.span].trace)
  BY ResolveClaims
<1>3. /\ spans'[s].trace = IF p.span = None THEN s ELSE spans[p.span].trace
      /\ spans'[s].tracestate = p.tracestate
      /\ spans'[s].cause = k /\ spans'[s].linked
  BY DEF Begun
<1>4. /\ GoesWith(p.tracestate, spans[s].trace)'
      /\ \A i \in DOMAIN spans' : GoesWith(spans[i].tracestate, spans[i].trace)'
  BY <1>2, ChildGoesWith
<1>5. /\ DOMAIN contexts' = DOMAIN contexts
      /\ \A d \in DOMAIN contexts \ {c} : contexts'[d] = contexts[d]
      /\ \A d \in DOMAIN contexts : /\ contexts'[d].parent = contexts[d].parent
                                    /\ contexts'[d].cause = contexts[d].cause
      /\ contexts'[c].otel = s /\ contexts'[c].traceparent = s
      /\ contexts'[c].tracestate = Kept(p.tracestate, contexts[c].tracestate)
      /\ DOMAIN registry' = DOMAIN registry \cup {c} /\ registry'[c] = s
      /\ \A d \in DOMAIN registry \ {c} : registry'[d] = registry[d]
      /\ DOMAIN registry \subseteq DOMAIN contexts
  BY DEF LinkedAt, Register, IInv, TypeOK
<1>6. ASSUME NEW d \in DOMAIN contexts \ {c}
      PROVE  Readable(contexts[d].traceparent)' <=> Readable(contexts[d].traceparent)
  BY <1>1, <1>5 DEF IInv, ContextsRefer, Readable, Bad
<1>7. \A i \in DOMAIN spans : \A x : LinkedTo(i, x)' <=> LinkedTo(i, x)
  BY <1>1, LinkedToStays
<1>8. \A i \in DOMAIN spans : Kept1(i) /\ spans[i].trace \in DOMAIN spans
  BY <1>1 DEF SpansKept, IInv, SpansRefer
<1>9. \A x : \A w \in DOMAIN spans : GoesWith(x, w)' <=> GoesWith(x, w)
  BY <1>1, GoesWithStays
<1>10. LinkedTo(s, k)'
  BY <1>1, <1>3 DEF LinkedTo
<1>11. ContextsRefer'
  <2> SUFFICES ASSUME NEW d \in DOMAIN contexts
               PROVE  /\ contexts'[d].cause \in 1 .. causes'
                      /\ contexts'[d].parent # None =>
                            /\ contexts'[d].parent \in DOMAIN registry'
                            /\ contexts'[contexts'[d].parent].cause = contexts'[d].cause
                      /\ (contexts'[d].otel # None \/ contexts'[d].carried)
                            => d \in DOMAIN registry'
                      /\ contexts'[d].traceparent \in (0 .. Len(spans')) \cup {Bad}
                      /\ Readable(contexts[d].traceparent)' =>
                            /\ spans'[contexts'[d].traceparent].linked
                            /\ spans'[contexts'[d].traceparent].cause = contexts'[d].cause
    BY <1>5 DEF ContextsRefer
  <2>1. /\ contexts'[d].cause \in 1 .. causes'
        /\ contexts'[d].parent # None =>
              /\ contexts'[d].parent \in DOMAIN registry'
              /\ contexts'[contexts'[d].parent].cause = contexts'[d].cause
    BY <1>5 DEF IInv, ContextsRefer
  <2>2. (contexts'[d].otel # None \/ contexts'[d].carried) => d \in DOMAIN registry'
    BY <1>5 DEF IInv, ContextsRefer
  <2>3. CASE d = c
    <3>1. contexts'[d].traceparent = s /\ s \in 0 .. Len(spans')
      BY <1>1, <1>5, <2>3, Lengths DEF IInv
    <3>2. spans'[s].linked /\ spans'[s].cause = contexts'[d].cause
      BY <1>3, <1>5, <2>3
    <3> QED BY <2>1, <2>2, <3>1, <3>2
  <2>4. CASE d # c
    <3>1. contexts'[d] = contexts[d] /\ (Readable(contexts[d].traceparent)' <=> Readable(contexts[d].traceparent))
      BY <1>5, <1>6, <2>4
    <3>2. contexts[d].traceparent \in (0 .. Len(spans)) \cup {Bad}
      BY DEF IInv, ContextsRefer
    <3>3. contexts[d].traceparent \in (0 .. Len(spans')) \cup {Bad}
      <4>1. Len(spans) <= Len(spans')
        BY <1>1 DEF Begun
      <4> QED BY <1>1, <3>2, <4>1
    <3>4. Readable(contexts[d].traceparent) =>
             /\ contexts[d].traceparent \in DOMAIN spans
             /\ spans[contexts[d].traceparent].linked
             /\ spans[contexts[d].traceparent].cause = contexts[d].cause
      BY <1>1 DEF IInv, ContextsRefer, Readable
    <3> QED BY <1>8, <2>1, <2>2, <3>1, <3>3, <3>4 DEF Kept1
  <2> QED BY <2>3, <2>4
<1>12. LinkAgreement'
  BY <1>5 DEF IInv, LinkAgreement
<1>13. ASSUME NEW cause, NEW w, Claims(cause, w)'
       PROVE  Claims(cause, w) \/ (cause = k /\ w = spans'[s].trace)
  <2>1. CASE \E i \in DOMAIN spans' : LinkedTo(i, cause)' /\ spans'[i].trace = w
    <3>1. PICK i \in DOMAIN spans' : LinkedTo(i, cause)' /\ spans'[i].trace = w
      BY <2>1
    <3>2. CASE i = s
      BY <1>3, <3>1, <3>2 DEF LinkedTo
    <3>3. CASE i # s
      <4>1. i \in DOMAIN spans /\ LinkedTo(i, cause) /\ spans[i].trace = w
        BY <1>1, <1>7, <1>8, <3>1, <3>3 DEF Kept1
      <4> QED BY <4>1 DEF Claims
    <3> QED BY <3>2, <3>3
  <2>2. CASE \E x \in DOMAIN spans', d \in DOMAIN contexts :
                /\ Current(x, d)' /\ Recording(x)'
                /\ contexts'[d].cause = cause /\ spans'[x].trace = w
    <3>1. PICK x \in DOMAIN spans', d \in DOMAIN contexts :
             /\ Current(x, d)' /\ Recording(x)'
             /\ contexts'[d].cause = cause /\ spans'[x].trace = w
      BY <2>2
    <3>2. (x = s /\ d = c) \/ Current(x, d)
      BY <1>1, <3>1, CurrentEntered
    <3>3. CASE x = s /\ d = c
      BY <1>5, <3>1, <3>3
    <3>4. CASE x # s
      <4>1. x \in DOMAIN spans /\ Recording(x) /\ spans[x].trace = w
        BY <1>1, <1>8, <3>1, <3>4 DEF Kept1
      <4> QED BY <1>5, <3>1, <3>2, <3>4, <4>1 DEF Claims
    <3>5. CASE x = s /\ d # c
      <4>1. Current(s, d)
        BY <3>2, <3>5
      <4>2. s \in 0 .. Len(spans)
        BY <4>1 DEF Current, IInv, TasksRefer
      <4> QED BY <1>1, <4>2 DEF Begun
    <3> QED BY <3>3, <3>4, <3>5
  <2> QED BY <1>5, <1>13, <2>1, <2>2 DEF Claims
<1>14. ASSUME NEW w \in Nat, Claims(k, w) PROVE w = spans'[s].trace
  <2>1. p.span # None /\ spans'[s].trace = spans[p.span].trace
    BY <1>2, <1>3, <1>14
  <2>2. Claims(k, spans'[s].trace) /\ spans'[s].trace \in Nat
    BY <1>1, <1>2, <1>8, <2>1
  <2> QED BY <1>14, <2>2 DEF IInv, ClaimsAgree
<1>15. ClaimsAgree'
  <2> DEFINE w0 == spans'[s].trace
  <2>1. /\ \A cause, w \in Nat : Claims(cause, w)' => Claims(cause, w) \/ (cause = k /\ w = w0)
        /\ \A w \in Nat : Claims(k, w) => w = w0
    BY <1>13, <1>14
  <2> HIDE DEF w0
  <2> QED BY <2>1, OneMoreClaim DEF IInv
<1>16. UnlinkedClaims'
  <2> SUFFICES ASSUME NEW x \in DOMAIN spans', NEW d \in DOMAIN contexts,
                      Current(x, d)', Recording(x)', spans'[x].linked
               PROVE  \E i \in DOMAIN spans' : LinkedTo(i, contexts[d].cause)'
    BY <1>5 DEF UnlinkedClaims
  <2>1. (x = s /\ d = c) \/ Current(x, d)
    BY <1>1, CurrentEntered
  <2>2. CASE d = c
    BY <1>1, <1>5, <1>10, <2>2 DEF LinkedTo
  <2>3. CASE d # c
    <3>1. Current(x, d)
      BY <2>1, <2>3
    <3>2. x \in 0 .. Len(spans)
      BY <3>1 DEF Current, IInv, TasksRefer
    <3>3. x \in DOMAIN spans
      BY <1>1, <3>2 DEF Begun
    <3>4. Recording(x) /\ spans[x].linked
      BY <1>1, <1>8, <3>3 DEF Kept1
    <3>5. PICK i \in DOMAIN spans : LinkedTo(i, contexts[d].cause)
      BY <3>1, <3>3, <3>4 DEF IInv, UnlinkedClaims
    <3>6. LinkedTo(i, contexts[d].cause)'
      BY <1>5, <1>7, <1>8, <3>5 DEF LinkedTo, Kept1
    <3> QED BY <1>1, <3>5, <3>6
  <2> QED BY <2>2, <2>3
<1>17. LinkedIsCarried'
  <2> SUFFICES ASSUME NEW d \in DOMAIN contexts, NEW i \in DOMAIN spans',
                      Parentless(d)', LinkedTo(i, contexts[d].cause)'
               PROVE  Readable(contexts[d].traceparent)'
    BY <1>5 DEF LinkedIsCarried
  <2>1. CASE d = c
    BY <1>1, <1>5, <2>1 DEF Readable
  <2>2. CASE d # c
    <3>1. Parentless(d) /\ contexts'[d] = contexts[d]
      BY <1>5, <2>2 DEF Parentless
    <3>2. \E j \in DOMAIN spans : LinkedTo(j, contexts[d].cause)
      <4>1. CASE i # s
        <5>1. i \in DOMAIN spans /\ LinkedTo(i, contexts[d].cause)
          BY <1>1, <1>8, <3>1, <4>1 DEF LinkedTo, Kept1
        <5> QED BY <5>1
      <4>2. CASE i = s
        <5>1. contexts[d].cause = k
          BY <1>3, <3>1, <4>2 DEF LinkedTo
        <5>2. ~Parentless(c)
          BY <2>2, <3>1, <5>1 DEF IInv, OneParentless
        <5>3. /\ contexts[c].parent \in DOMAIN registry
              /\ contexts[contexts[c].parent].cause = k
          BY <5>2 DEF IInv, ContextsRefer, Parentless
        <5>4. LinkedTo(registry[contexts[c].parent], k) /\ registry[contexts[c].parent] \in DOMAIN spans
          BY <5>3, RegisteredIsLinked
        <5> QED BY <5>1, <5>4
      <4> QED BY <4>1, <4>2
    <3>3. Readable(contexts[d].traceparent)
      BY <3>1, <3>2 DEF IInv, LinkedIsCarried
    <3> QED BY <1>6, <2>2, <3>3
  <2> QED BY <2>1, <2>2
<1>18. OneParentless'
  BY <1>5 DEF IInv, OneParentless, Parentless
<1>19. ASSUME NEW old, old = contexts[c].tracestate, old # None
       PROVE  \E i \in DOMAIN spans :
                 LinkedTo(i, k) /\ GoesWith(old, spans[i].trace) /\ spans[i].trace = spans'[s].trace
  <2>1. PICK i \in DOMAIN spans : LinkedTo(i, k) /\ GoesWith(old, spans[i].trace)
    BY <1>19 DEF IInv, ContextTracestates
  <2>2. Claims(k, spans[i].trace) /\ spans[i].trace \in Nat
    BY <1>1, <1>8, <2>1 DEF Claims
  <2>3. spans[i].trace = spans'[s].trace
    BY <1>14, <2>2
  <2> QED BY <2>1, <2>3
<1>20. GoesWith(contexts[c].tracestate, spans[s].trace)'
  <2> PICK old : old = contexts[c].tracestate
    OBVIOUS
  <2>1. CASE p.tracestate # None \/ old = None
    <3>1. contexts'[c].tracestate = p.tracestate
      BY <1>5, <2>1 DEF Kept
    <3> QED BY <1>4, <3>1 DEF GoesWith
  <2>2. CASE p.tracestate = None /\ old # None
    <3>1. contexts'[c].tracestate = old
      BY <1>5, <2>2 DEF Kept
    <3>2. PICK i \in DOMAIN spans :
             GoesWith(old, spans[i].trace) /\ spans[i].trace = spans'[s].trace
      BY <1>19, <2>2
    <3>3. spans[i].trace \in DOMAIN spans /\ Kept1(spans[i].trace)
      BY <1>8
    <3> QED BY <3>1, <3>2, <3>3 DEF GoesWith, Kept1
  <2> QED BY <2>1, <2>2
<1>21. ContextTracestates'
  <2> SUFFICES ASSUME NEW d \in DOMAIN contexts, contexts'[d].tracestate # None
               PROVE  \E i \in DOMAIN spans' :
                         /\ LinkedTo(i, contexts[d].cause)'
                         /\ GoesWith(contexts[d].tracestate, spans[i].trace)'
    BY <1>5 DEF ContextTracestates
  <2>1. CASE d = c
    <3>1. LinkedTo(s, contexts[c].cause)'
      BY <1>5, <1>10 DEF LinkedTo
    <3> QED BY <1>1, <1>20, <2>1, <3>1
  <2>2. CASE d # c
    <3>1. contexts'[d] = contexts[d]
      BY <1>5, <2>2
    <3>2. PICK i \in DOMAIN spans : /\ LinkedTo(i, contexts[d].cause)
                                    /\ GoesWith(contexts[d].tracestate, spans[i].trace)
      BY <3>1 DEF IInv, ContextTracestates
    <3>3. LinkedTo(i, contexts[d].cause)'
      BY <1>1, <1>8, <3>1, <3>2 DEF LinkedTo, Kept1
    <3>4. Kept1(i) /\ Kept1(spans[i].trace)
      BY <1>8
    <3>5. GoesWith(contexts[d].tracestate, spans[i].trace)'
      BY <3>1, <3>2, <3>4 DEF GoesWith, Kept1
    <3> QED BY <1>1, <3>3, <3>5
  <2> QED BY <2>1, <2>2
<1>22. TracestateStays'
  <2>1. ASSUME NEW d \in DOMAIN contexts, Readable(contexts[d].traceparent)'
        PROVE  GoesWith(contexts[d].tracestate, spans[contexts[d].traceparent].trace)'
    <3>1. CASE d = c
      BY <1>5, <1>20, <3>1 DEF GoesWith
    <3>2. CASE d # c
      <4>1. contexts'[d] = contexts[d] /\ Readable(contexts[d].traceparent)
        BY <1>5, <1>6, <2>1, <3>2
      <4> PICK x \in DOMAIN spans : x = contexts[d].traceparent
        BY <1>1, <4>1 DEF Readable
      <4>2. GoesWith(contexts[d].tracestate, spans[x].trace)
        BY <4>1 DEF IInv, TracestateStays
      <4>3. Kept1(x) /\ Kept1(spans[x].trace)
        BY <1>8
      <4> QED BY <4>1, <4>2, <4>3 DEF GoesWith, Kept1
    <3> QED BY <3>1, <3>2
  <2> QED BY <1>4, <1>5, <2>1 DEF TracestateStays
<1>23. RequestsAreNew'
  <2>1. \A u \in Task : RequestKept(u)
    <3> SUFFICES ASSUME NEW u \in Task, task'[u].request PROVE RequestKept(u)
      BY DEF RequestKept
    <3>1. CASE u # t
      <4>1. task'[u] = task[u] /\ Open(u)' = Open(u)
        BY <3>1 DEF Entered, Only, Open
      <4>2. Open(u) # <<>>
        BY <4>1 DEF IInv, RequestsAreNew, RequestIsNew
      <4> QED BY <4>1, <4>2 DEF RequestKept, RequestSpan
    <3>2. CASE u = t
      <4>1. /\ task[t].request /\ task'[t].carrier = task[t].carrier
            /\ task'[t].tracestate = task[t].tracestate
            /\ \A j \in DOMAIN Open(t) : Open(t)'[j] = Open(t)[j]
            /\ DOMAIN Open(t)' = 1 .. Len(Open(t)) + 1
        BY <3>2 DEF Entered
      <4>2. 1 \in DOMAIN Open(t)
        BY <1>1, <4>1, ElementTypes, EmptySeq DEF IInv, RequestsAreNew, RequestIsNew
      <4>3. Open(t)' # <<>>
        <5>1. 1 \in DOMAIN Open(t)'
          BY <1>1, <4>1, <4>2, ElementTypes DEF IInv
        <5> QED BY <5>1
      <4> QED BY <3>2, <4>1, <4>2, <4>3 DEF RequestKept, RequestSpan
    <3> QED BY <3>1, <3>2
  <2>2. \A u \in Task : task'[u].request =>
           \A d \in DOMAIN contexts' : contexts'[d].cause # spans[RequestSpan(u)].cause
    BY <1>5, <2>1 DEF RequestKept, IInv, RequestsAreNew, RequestIsNew
  <2> QED BY <1>1, <2>1, <2>2, RequestsStay
<1> QED BY <1>11, <1>12, <1>15, <1>16, <1>17, <1>18, <1>21, <1>22, <1>23 DEF Causal

(* A context is added, and perhaps registered.                              *)
Added(c, new) ==
    /\ c \in Nat /\ c \notin DOMAIN contexts
    /\ DOMAIN contexts' = DOMAIN contexts \cup {c}
    /\ \A d \in DOMAIN contexts : contexts'[d] = contexts[d]
    /\ contexts'[c] = new
    /\ DOMAIN registry \subseteq DOMAIN registry'
    /\ DOMAIN registry' \subseteq DOMAIN registry \cup {c}
    /\ \A d \in DOMAIN registry : registry'[d] = registry[d]
    /\ c \in DOMAIN registry' => new.otel = registry'[c] /\ new.traceparent = registry'[c]
    /\ (new.otel # None \/ new.carried) => c \in DOMAIN registry'

(* Its cause is its parent's, or no other context's.                        *)
CauseFits(new) ==
    /\ causes' \in Nat /\ causes <= causes' /\ new.cause \in 1 .. causes'
    /\ new.parent # None =>
          new.parent \in DOMAIN registry /\ contexts[new.parent].cause = new.cause
    /\ new.parent = None =>
          \A d \in DOMAIN contexts : contexts[d].cause # new.cause
    /\ \A u \in Task : task'[u].request => spans[RequestSpan(u)].cause # new.cause

(* What it carries is of its cause.                                         *)
CarrierFits(new) ==
    /\ new.traceparent \in (0 .. Len(spans)) \cup {Bad}
    /\ new.parent = None /\ (\E i \in DOMAIN spans : LinkedTo(i, new.cause))
          => new.traceparent \in DOMAIN spans
    /\ new.traceparent \in DOMAIN spans =>
          /\ LinkedTo(new.traceparent, new.cause)
          /\ GoesWith(new.tracestate, spans[new.traceparent].trace)
    /\ new.tracestate # None =>
          \E i \in DOMAIN spans : /\ LinkedTo(i, new.cause)
                                  /\ GoesWith(new.tracestate, spans[i].trace)

(* The span that is current for it claims its cause as others do.           *)
ClaimFits(c, cause, trace) ==
    /\ \A w \in Nat : Claims(cause, w) => w = trace
    /\ \A x \in DOMAIN spans' : Current(x, c)' /\ Recording(x)' =>
          /\ spans'[x].trace = trace
          /\ spans'[x].linked => \E i \in DOMAIN spans : LinkedTo(i, cause)

(* If a span is added with the context, it is linked to nothing.            *)
LEMMA AddContextCausal ==
    ASSUME IInv, TypeOK', SpansKept,
           \A i \in DOMAIN spans : Recording(i)' <=> Recording(i),
           \A i \in DOMAIN spans' \ DOMAIN spans :
               ~spans'[i].linked /\ GoesWith(spans[i].tracestate, spans[i].trace)',
           NEW c, NEW new, NEW trace,
           Added(c, new), CauseFits(new), CarrierFits(new), ClaimFits(c, new.cause, trace),
           \A x \in DOMAIN spans', d \in DOMAIN contexts :
               Current(x, d)' /\ Recording(x)' => x \in DOMAIN spans /\ Current(x, d),
           \A u \in Task : RequestKept(u)
    PROVE  Causal'
<1> USE DEF Added, CauseFits, CarrierFits, ClaimFits
<1>1. /\ DOMAIN spans = 1 .. Len(spans) /\ Len(spans) \in Nat
      /\ DOMAIN spans' = 1 .. Len(spans') /\ Len(spans') \in Nat
      /\ Len(spans') <= MaxSpans /\ MaxSpans \in Nat /\ causes \in Nat
      /\ DOMAIN spans \subseteq DOMAIN spans'
  BY Lengths, ContextLinkingAssumption, SMTT(40) DEF IInv, TypeOK, SpansKept
<1>2. Len(spans) <= Len(spans')
  <2>1. Len(spans) # 0 => Len(spans) \in 1 .. Len(spans')
    BY <1>1
  <2> QED BY <1>1, <2>1
<1>3. \A i \in DOMAIN spans : Kept1(i) /\ spans[i].trace \in DOMAIN spans
  BY DEF SpansKept, IInv, SpansRefer
<1>4. \A i \in DOMAIN spans : \A x : LinkedTo(i, x)' <=> LinkedTo(i, x)
  BY LinkedToStays
<1>5. \A x : \A w \in DOMAIN spans : GoesWith(x, w)' <=> GoesWith(x, w)
  BY GoesWithStays
<1>6. \A x : x \in (0 .. Len(spans)) \cup {Bad} =>
         /\ Readable(x) <=> x \in DOMAIN spans
         /\ Readable(x)' <=> x \in DOMAIN spans
         /\ x \in (0 .. Len(spans')) \cup {Bad}
  BY <1>1, <1>2 DEF Readable, Bad
<1>7. \A d \in DOMAIN contexts : contexts[d].traceparent \in (0 .. Len(spans)) \cup {Bad}
  BY DEF IInv, ContextsRefer
<1>8. \A d \in DOMAIN contexts' : d = c \/ (d \in DOMAIN contexts /\ d # c)
  OBVIOUS
<1>9. DOMAIN registry \subseteq DOMAIN contexts
  BY DEF IInv, TypeOK
<1>10. ContextsRefer'
  <2>1. ASSUME NEW d \in DOMAIN contexts
        PROVE  /\ contexts[d].cause \in 1 .. causes'
               /\ contexts[d].parent # None =>
                     /\ contexts[d].parent \in DOMAIN registry'
                     /\ contexts'[contexts[d].parent].cause = contexts[d].cause
               /\ (contexts[d].otel # None \/ contexts[d].carried) => d \in DOMAIN registry'
               /\ contexts[d].traceparent \in (0 .. Len(spans')) \cup {Bad}
               /\ contexts[d].traceparent \in DOMAIN spans =>
                     /\ spans'[contexts[d].traceparent].linked
                     /\ spans'[contexts[d].traceparent].cause = contexts[d].cause
    <3>1. contexts[d].cause \in 1 .. causes'
      BY <1>1 DEF IInv, ContextsRefer
    <3>2. contexts[d].traceparent \in DOMAIN spans =>
                     /\ spans'[contexts[d].traceparent].linked
                     /\ spans'[contexts[d].traceparent].cause = contexts[d].cause
      BY <1>1, <1>3 DEF IInv, ContextsRefer, Kept1, Readable
    <3>3. /\ contexts[d].parent # None => contexts[d].parent \in DOMAIN registry
          /\ (contexts[d].otel # None \/ contexts[d].carried) => d \in DOMAIN registry
      BY DEF IInv, ContextsRefer
    <3>4. DOMAIN registry \subseteq DOMAIN registry'
      BY <1>9
    <3>5. contexts[d].parent # None => contexts'[contexts[d].parent].cause = contexts[d].cause
      BY <1>9, <3>3 DEF IInv, ContextsRefer
    <3> QED BY <1>6, <1>7, <3>1, <3>2, <3>3, <3>4, <3>5
  <2>2. /\ new.parent # None =>
              /\ new.parent \in DOMAIN registry'
              /\ contexts'[new.parent].cause = new.cause
        /\ new.traceparent \in (0 .. Len(spans')) \cup {Bad}
        /\ new.traceparent \in DOMAIN spans =>
              /\ spans'[new.traceparent].linked
              /\ spans'[new.traceparent].cause = new.cause
    BY <1>3, <1>6, <1>9 DEF LinkedTo, Kept1
  <2>3. \A d \in DOMAIN contexts' :
           Readable(contexts[d].traceparent)' <=> contexts'[d].traceparent \in DOMAIN spans
    BY <1>6, <1>7 DEF Readable
  <2> QED BY <1>8, <2>1, <2>2, <2>3 DEF ContextsRefer
<1>11. LinkAgreement'
  BY <1>9 DEF IInv, LinkAgreement
<1>12. ASSUME NEW cause, NEW w, Claims(cause, w)'
       PROVE  Claims(cause, w) \/ (cause = new.cause /\ w = trace)
  <2>1. CASE \E i \in DOMAIN spans' : LinkedTo(i, cause)' /\ spans'[i].trace = w
    <3>1. PICK i \in DOMAIN spans' : LinkedTo(i, cause)' /\ spans'[i].trace = w
      BY <2>1
    <3>2. i \in DOMAIN spans
      BY <3>1 DEF LinkedTo
    <3> QED BY <1>3, <1>4, <3>1, <3>2 DEF Claims, Kept1
  <2>2. CASE \E x \in DOMAIN spans', d \in DOMAIN contexts' :
                /\ Current(x, d)' /\ Recording(x)'
                /\ contexts'[d].cause = cause /\ spans'[x].trace = w
    <3>1. PICK x \in DOMAIN spans', d \in DOMAIN contexts' :
             /\ Current(x, d)' /\ Recording(x)'
             /\ contexts'[d].cause = cause /\ spans'[x].trace = w
      BY <2>2
    <3>2. CASE d = c
      BY <3>1, <3>2
    <3>3. CASE d # c
      <4>1. /\ d \in DOMAIN contexts /\ x \in DOMAIN spans /\ Current(x, d)
            /\ Recording(x) /\ contexts[d].cause = cause /\ spans[x].trace = w
        BY <1>3, <1>8, <3>1, <3>3 DEF Kept1
      <4> QED BY <4>1 DEF Claims
    <3> QED BY <3>2, <3>3
  <2> QED BY <1>12, <2>1, <2>2 DEF Claims
<1>13. ClaimsAgree'
  <2> PICK k : k = new.cause
    OBVIOUS
  <2>1. /\ \A cause, w \in Nat : Claims(cause, w)' => Claims(cause, w) \/ (cause = k /\ w = trace)
        /\ \A w \in Nat : Claims(k, w) => w = trace
    BY <1>12
  <2> QED BY <2>1, OneMoreClaim DEF IInv
<1>14. UnlinkedClaims'
  <2> SUFFICES ASSUME NEW x \in DOMAIN spans', NEW d \in DOMAIN contexts',
                      Current(x, d)', Recording(x)', spans'[x].linked
               PROVE  \E i \in DOMAIN spans' : LinkedTo(i, contexts[d].cause)'
    BY DEF UnlinkedClaims
  <2> PICK k : k = contexts'[d].cause
    OBVIOUS
  <2>1. \E i \in DOMAIN spans : LinkedTo(i, k)
    <3>1. CASE d = c
      BY <3>1
    <3>2. CASE d # c
      <4>1. d \in DOMAIN contexts /\ x \in DOMAIN spans /\ Current(x, d)
        BY <1>8, <3>2
      <4>2. Recording(x) /\ spans[x].linked /\ contexts[d].cause = k
        BY <1>3, <4>1 DEF Kept1
      <4> QED BY <4>1, <4>2 DEF IInv, UnlinkedClaims
    <3> QED BY <3>1, <3>2
  <2>2. PICK i \in DOMAIN spans : LinkedTo(i, k)
    BY <2>1
  <2>3. LinkedTo(i, contexts[d].cause)'
    <3>1. LinkedTo(i, k)'
      BY <1>4, <2>2
    <3> QED BY <3>1 DEF LinkedTo
  <2> QED BY <1>1, <2>3
<1>15. LinkedIsCarried'
  <2> SUFFICES ASSUME NEW d \in DOMAIN contexts', NEW i \in DOMAIN spans',
                      contexts'[d].parent = None, LinkedTo(i, contexts[d].cause)'
               PROVE  contexts'[d].traceparent \in DOMAIN spans
    BY <1>1 DEF LinkedIsCarried, Readable, Parentless
  <2> PICK k : k = contexts'[d].cause
    OBVIOUS
  <2>1. i \in DOMAIN spans /\ LinkedTo(i, k)
    <3>1. LinkedTo(i, k)' /\ i \in DOMAIN spans
      BY DEF LinkedTo
    <3> QED BY <1>4, <3>1
  <2>2. CASE d = c
    BY <2>1, <2>2
  <2>3. CASE d # c
    <3>1. d \in DOMAIN contexts /\ Parentless(d) /\ contexts[d].cause = k
      BY <1>8, <2>3 DEF Parentless
    <3>2. Readable(contexts[d].traceparent)
      BY <2>1, <3>1 DEF IInv, LinkedIsCarried
    <3> QED BY <1>6, <1>7, <3>1, <3>2
  <2> QED BY <2>2, <2>3
<1>16. OneParentless'
  BY <1>8 DEF IInv, OneParentless, Parentless
<1>17. ContextTracestates'
  <2> SUFFICES ASSUME NEW d \in DOMAIN contexts', contexts'[d].tracestate # None
               PROVE  \E i \in DOMAIN spans' :
                         /\ LinkedTo(i, contexts[d].cause)'
                         /\ GoesWith(contexts[d].tracestate, spans[i].trace)'
    BY DEF ContextTracestates
  <2> PICK k : k = contexts'[d].cause
    OBVIOUS
  <2> PICK ts : ts = contexts'[d].tracestate
    OBVIOUS
  <2>1. PICK i \in DOMAIN spans : LinkedTo(i, k) /\ GoesWith(ts, spans[i].trace)
    <3>1. CASE d = c
      BY <3>1
    <3>2. CASE d # c
      <4>1. d \in DOMAIN contexts /\ contexts[d].cause = k /\ contexts[d].tracestate = ts
        BY <1>8, <3>2
      <4> QED BY <4>1 DEF IInv, ContextTracestates
    <3> QED BY <3>1, <3>2
  <2>2. LinkedTo(i, contexts[d].cause)'
    BY <1>4, <2>1 DEF LinkedTo
  <2>3. GoesWith(contexts[d].tracestate, spans[i].trace)'
    <3> PICK w \in DOMAIN spans : w = spans[i].trace
      BY <1>3
    <3>1. Kept1(i) /\ Kept1(w) /\ GoesWith(ts, w)
      BY <1>3, <2>1
    <3> QED BY <3>1 DEF GoesWith, Kept1
  <2> QED BY <1>1, <2>2, <2>3
<1>18. TracestateStays'
  <2>1. ASSUME NEW i \in DOMAIN spans'
        PROVE  GoesWith(spans[i].tracestate, spans[i].trace)'
    <3>1. CASE i \in DOMAIN spans
      <4> PICK w \in DOMAIN spans : w = spans[i].trace
        BY <1>3, <3>1
      <4>1. Kept1(i) /\ Kept1(w) /\ GoesWith(spans[i].tracestate, w)
        BY <1>3, <3>1 DEF IInv, TracestateStays
      <4> QED BY <4>1 DEF GoesWith, Kept1
    <3>2. CASE i \notin DOMAIN spans
      BY <3>2
    <3> QED BY <3>1, <3>2
  <2>2. ASSUME NEW d \in DOMAIN contexts', Readable(contexts[d].traceparent)'
        PROVE  GoesWith(contexts[d].tracestate, spans[contexts[d].traceparent].trace)'
    <3> PICK ts : ts = contexts'[d].tracestate
      OBVIOUS
    <3>1. contexts'[d].traceparent \in DOMAIN spans
      <4>1. contexts'[d].traceparent \in (0 .. Len(spans)) \cup {Bad}
        BY <1>7, <1>8
      <4>2. contexts'[d].traceparent \in 1 .. Len(spans')
        BY <2>2 DEF Readable
      <4> QED BY <1>1, <4>1, <4>2 DEF Bad
    <3> PICK x \in DOMAIN spans : x = contexts'[d].traceparent
      BY <3>1
    <3>2. GoesWith(ts, spans[x].trace)
      <4>1. CASE d = c
        BY <4>1
      <4>2. CASE d # c
        <5>1. d \in DOMAIN contexts /\ contexts[d].traceparent = x /\ contexts[d].tracestate = ts
          BY <1>8, <4>2
        <5> QED BY <1>6, <1>7, <5>1 DEF IInv, TracestateStays
      <4> QED BY <4>1, <4>2
    <3> PICK w \in DOMAIN spans : w = spans[x].trace
      BY <1>3
    <3>3. Kept1(x) /\ Kept1(w) /\ GoesWith(ts, w)
      BY <1>3, <3>2
    <3> QED BY <3>3 DEF GoesWith, Kept1
  <2> QED BY <2>1, <2>2 DEF TracestateStays
<1>19. RequestsAreNew'
  <2>1. \A u \in Task : task'[u].request =>
           \A d \in DOMAIN contexts' : contexts'[d].cause # spans[RequestSpan(u)].cause
    BY <1>8 DEF RequestKept, IInv, RequestsAreNew, RequestIsNew
  <2> QED BY <2>1, RequestsStay
<1> QED BY <1>10, <1>11, <1>13, <1>14, <1>15, <1>16, <1>17, <1>18, <1>19 DEF Causal


(* A request begins: its spans are the first of a new cause.                *)
FirstSpans(k, w) ==
    \A i \in DOMAIN spans' \ DOMAIN spans :
        /\ spans'[i].linked /\ spans'[i].cause = k /\ spans'[i].trace = w
        /\ GoesWith(spans[i].tracestate, spans[i].trace)'

Requested(t, s) ==
    /\ t \in Task /\ \A u \in Task \ {t} : task'[u] = task[u]
    /\ s \in DOMAIN spans' \ DOMAIN spans
    /\ Open(t)' # <<>> /\ RequestSpan(t)' = s
    /\ task'[t].carrier \in {None, Bad} \cup (DOMAIN spans' \ DOMAIN spans)
    /\ task'[t].carrier \in DOMAIN spans' =>
          spans'[task'[t].carrier].tracestate = task'[t].tracestate
    /\ spans'[s].sampled \/ task'[t].carrier \in DOMAIN spans'
    /\ task'[t].tracestate # None => GoesWith(task[t].tracestate, spans[s].trace)'

LEMMA RequestCausal ==
    ASSUME IInv, TypeOK', SpansKept,
           \A i \in DOMAIN spans : Recording(i)' <=> Recording(i),
           contexts' = contexts, registry' = registry, causes' = causes + 1,
           NEW k \in Nat, k = causes + 1, NEW w, NEW t, NEW s,
           FirstSpans(k, w), Requested(t, s),
           \A x \in DOMAIN spans', d \in DOMAIN contexts : Current(x, d)' => Current(x, d)
    PROVE  Causal'
<1> USE DEF FirstSpans, Requested
<1>1. /\ DOMAIN spans = 1 .. Len(spans) /\ Len(spans) \in Nat
      /\ DOMAIN spans' = 1 .. Len(spans') /\ Len(spans') \in Nat
      /\ Len(spans') <= MaxSpans /\ MaxSpans \in Nat /\ causes \in Nat
      /\ DOMAIN spans \subseteq DOMAIN spans'
  BY Lengths, ContextLinkingAssumption DEF IInv, TypeOK, SpansKept
<1>2. Len(spans) <= Len(spans')
  <2>1. Len(spans) # 0 => Len(spans) \in 1 .. Len(spans')
    BY <1>1
  <2> QED BY <1>1, <2>1
<1>3. \A i \in DOMAIN spans : Kept1(i) /\ spans[i].trace \in DOMAIN spans /\ spans[i].cause # k
  <2>1. \A i \in DOMAIN spans : spans[i].cause \in Nat
    BY ElementTypes DEF IInv, Span
  <2> QED BY <1>1, <2>1 DEF SpansKept, IInv, SpansRefer
<1>4. \A i \in DOMAIN spans : \A x : LinkedTo(i, x)' <=> LinkedTo(i, x)
  BY LinkedToStays
<1>5. \A x : \A v \in DOMAIN spans : GoesWith(x, v)' <=> GoesWith(x, v)
  BY GoesWithStays
<1>6. \A d \in DOMAIN contexts : contexts[d].cause # k /\ contexts[d].cause \in 1 .. causes
  BY <1>1 DEF IInv, ContextsRefer
<1>7. \A d \in DOMAIN contexts :
         /\ Readable(contexts[d].traceparent)' <=> Readable(contexts[d].traceparent)
         /\ Readable(contexts[d].traceparent) => contexts[d].traceparent \in DOMAIN spans
         /\ contexts[d].traceparent \in (0 .. Len(spans')) \cup {Bad}
  <2>1. \A d \in DOMAIN contexts : contexts[d].traceparent \in (0 .. Len(spans)) \cup {Bad}
    BY DEF IInv, ContextsRefer
  <2> QED BY <1>1, <1>2, <2>1 DEF Readable, Bad
<1>8. \A i \in DOMAIN spans' : \A d \in DOMAIN contexts :
         LinkedTo(i, contexts[d].cause)' => i \in DOMAIN spans /\ LinkedTo(i, contexts[d].cause)
  BY <1>4, <1>6, ZenonT(40) DEF LinkedTo
<1>9. \A x \in DOMAIN spans', d \in DOMAIN contexts :
         Current(x, d)' => x \in DOMAIN spans
  <2>1. \A u \in Task : /\ task[u].current \in 0 .. Len(spans)
                        /\ \A j \in DOMAIN Open(u) : Open(u)[j].before \in 0 .. Len(spans)
    BY DEF IInv, TasksRefer
  <2>2. ASSUME NEW x \in DOMAIN spans', NEW d, Current(x, d) PROVE x \in 0 .. Len(spans)
    BY <2>1, <2>2 DEF Current
  <2> QED BY <1>1, <2>2
<1>10. ContextsRefer'
  <2>1. \A d \in DOMAIN contexts : contexts[d].cause \in 1 .. causes'
    BY <1>1, <1>6
  <2>2. \A d \in DOMAIN contexts : Readable(contexts[d].traceparent) =>
           /\ spans'[contexts[d].traceparent].linked
           /\ spans'[contexts[d].traceparent].cause = contexts[d].cause
    BY <1>3, <1>7 DEF IInv, ContextsRefer, Kept1
  <2> QED BY <1>7, <2>1, <2>2 DEF IInv, ContextsRefer
<1>11. LinkAgreement'
  BY DEF IInv, LinkAgreement
<1>12. ASSUME NEW cause, NEW v, Claims(cause, v)'
       PROVE  Claims(cause, v) \/ (cause = k /\ v = w)
  <2>1. CASE \E i \in DOMAIN spans' : LinkedTo(i, cause)' /\ spans'[i].trace = v
    <3>1. PICK i \in DOMAIN spans' : LinkedTo(i, cause)' /\ spans'[i].trace = v
      BY <2>1
    <3>2. CASE i \in DOMAIN spans
      BY <1>3, <1>4, <3>1, <3>2 DEF Claims, Kept1
    <3>3. CASE i \notin DOMAIN spans
      BY <3>1, <3>3 DEF LinkedTo
    <3> QED BY <3>2, <3>3
  <2>2. CASE \E x \in DOMAIN spans', d \in DOMAIN contexts :
                /\ Current(x, d)' /\ Recording(x)'
                /\ contexts[d].cause = cause /\ spans'[x].trace = v
    <3>1. PICK x \in DOMAIN spans', d \in DOMAIN contexts :
             /\ Current(x, d)' /\ Recording(x)'
             /\ contexts[d].cause = cause /\ spans'[x].trace = v
      BY <2>2
    <3>2. x \in DOMAIN spans /\ Current(x, d) /\ Recording(x) /\ spans[x].trace = v
      BY <1>3, <1>9, <3>1 DEF Kept1
    <3> QED BY <3>1, <3>2 DEF Claims
  <2> QED BY <1>12, <2>1, <2>2 DEF Claims
<1>13. ClaimsAgree'
  <2>1. ASSUME NEW v, Claims(k, v) PROVE FALSE
    BY <1>3, <1>6, <2>1 DEF Claims, LinkedTo
  <2>2. \A cause, v \in Nat : Claims(cause, v)' => Claims(cause, v) \/ (cause = k /\ v = w)
    BY <1>12
  <2>3. \A v \in Nat : Claims(k, v) => v = w
    BY <2>1
  <2>4. ClaimsAgree
    BY DEF IInv
  <2> QED BY <2>2, <2>3, <2>4, OneMoreClaim
<1>14. UnlinkedClaims'
  <2> SUFFICES ASSUME NEW x \in DOMAIN spans', NEW d \in DOMAIN contexts',
                      Current(x, d)', Recording(x)', spans'[x].linked
               PROVE  \E i \in DOMAIN spans' : LinkedTo(i, contexts[d].cause)'
    BY DEF UnlinkedClaims
  <2> PICK cause : cause = contexts[d].cause
    OBVIOUS
  <2>1. x \in DOMAIN spans /\ Current(x, d) /\ Recording(x) /\ spans[x].linked
    BY <1>3, <1>9 DEF Kept1
  <2>2. PICK i \in DOMAIN spans : LinkedTo(i, cause)
    BY <2>1 DEF IInv, UnlinkedClaims
  <2>3. LinkedTo(i, contexts[d].cause)'
    <3>1. LinkedTo(i, cause)'
      BY <1>4, <2>2
    <3> QED BY <3>1 DEF LinkedTo
  <2> QED BY <1>1, <2>3
<1>15. LinkedIsCarried'
  BY <1>7, <1>8 DEF IInv, LinkedIsCarried, Parentless
<1>16. OneParentless'
  BY DEF IInv, OneParentless, Parentless
<1>17. ContextTracestates'
  <2> SUFFICES ASSUME NEW d \in DOMAIN contexts, contexts[d].tracestate # None
               PROVE  \E i \in DOMAIN spans' :
                         /\ LinkedTo(i, contexts[d].cause)'
                         /\ GoesWith(contexts[d].tracestate, spans[i].trace)'
    BY DEF ContextTracestates
  <2> PICK cause : cause = contexts[d].cause
    OBVIOUS
  <2> PICK ts : ts = contexts[d].tracestate
    OBVIOUS
  <2>1. PICK i \in DOMAIN spans : LinkedTo(i, cause) /\ GoesWith(ts, spans[i].trace)
    BY DEF IInv, ContextTracestates
  <2>2. LinkedTo(i, contexts[d].cause)'
    <3>1. LinkedTo(i, cause)'
      BY <1>4, <2>1
    <3> QED BY <3>1 DEF LinkedTo
  <2>3. GoesWith(contexts[d].tracestate, spans[i].trace)'
    <3> PICK v \in DOMAIN spans : v = spans[i].trace
      BY <1>3
    <3>1. Kept1(i) /\ Kept1(v) /\ GoesWith(ts, v)
      BY <1>3, <2>1
    <3> QED BY <3>1 DEF GoesWith, Kept1
  <2> QED BY <1>1, <2>2, <2>3
<1>18. TracestateStays'
  <2>1. ASSUME NEW i \in DOMAIN spans'
        PROVE  GoesWith(spans[i].tracestate, spans[i].trace)'
    <3>1. CASE i \in DOMAIN spans
      <4> PICK v \in DOMAIN spans : v = spans[i].trace
        BY <1>3, <3>1
      <4>1. Kept1(i) /\ Kept1(v) /\ GoesWith(spans[i].tracestate, v)
        BY <1>3, <3>1 DEF IInv, TracestateStays
      <4> QED BY <4>1 DEF GoesWith, Kept1
    <3>2. CASE i \notin DOMAIN spans
      BY <3>2
    <3> QED BY <3>1, <3>2
  <2>2. ASSUME NEW d \in DOMAIN contexts, Readable(contexts[d].traceparent)'
        PROVE  GoesWith(contexts[d].tracestate, spans[contexts[d].traceparent].trace)'
    <3> PICK ts : ts = contexts[d].tracestate
      OBVIOUS
    <3> PICK x \in DOMAIN spans : x = contexts[d].traceparent
      BY <1>7, <2>2
    <3>1. GoesWith(ts, spans[x].trace)
      BY <1>7, <2>2 DEF IInv, TracestateStays
    <3> PICK v \in DOMAIN spans : v = spans[x].trace
      BY <1>3
    <3>2. Kept1(x) /\ Kept1(v) /\ GoesWith(ts, v)
      BY <1>3, <3>1
    <3> QED BY <3>2 DEF GoesWith, Kept1
  <2> QED BY <2>1, <2>2 DEF TracestateStays
<1>19. RequestsAreNew'
  <2>1. RequestIsNew(t)'
    <3>1. task'[t].carrier \in (0 .. Len(spans')) \cup {Bad}
      BY <1>1 DEF None
    <3>2. Readable(task[t].carrier)' <=> task'[t].carrier \in DOMAIN spans'
      BY <1>1 DEF Readable
    <3>3. task'[t].carrier \in DOMAIN spans' => LinkedTo(task[t].carrier, spans[s].cause)'
      BY <1>1 DEF LinkedTo, None, Bad
    <3>4. spans'[s].linked /\ spans'[s].cause = k /\ k >= 1
      BY <1>1
    <3> QED BY <1>6, <3>1, <3>2, <3>3, <3>4 DEF RequestIsNew, LinkedTo
  <2>2. ASSUME NEW u \in Task \ {t}, task'[u].request
        PROVE  /\ RequestIsNew(u)' /\ task[u].request
               /\ RequestSpan(u)' = RequestSpan(u) /\ RequestSpan(u) \in DOMAIN spans
    <3>1. /\ task'[u] = task[u] /\ Open(u)' = Open(u) /\ task[u].request
          /\ RequestSpan(u)' = RequestSpan(u)
      BY <2>2 DEF Open, RequestSpan
    <3>2. Open(u) # <<>> /\ \A d \in DOMAIN contexts : contexts[d].cause # spans[RequestSpan(u)].cause
      BY <3>1 DEF IInv, RequestsAreNew, RequestIsNew
    <3>3. RequestKept(u)
      BY <3>1, <3>2 DEF RequestKept
    <3> QED BY <2>2, <3>2, <3>3, RequestStays
  <2>3. ASSUME NEW u \in Task, NEW v \in Task, task'[u].request, task'[v].request,
               spans'[RequestSpan(u)'].cause = spans'[RequestSpan(v)'].cause
        PROVE  u = v
    <3>1. CASE u = t \/ v = t
      <4>1. spans'[s].cause = k
        OBVIOUS
      <4>2. \A x \in Task \ {t} : task'[x].request => spans'[RequestSpan(x)'].cause # k
        BY <1>3, <2>2 DEF Kept1
      <4> QED BY <2>3, <3>1, <4>1, <4>2
    <3>2. CASE u # t /\ v # t
      <4>1. /\ task[u].request /\ task[v].request
            /\ spans[RequestSpan(u)].cause = spans[RequestSpan(v)].cause
        BY <1>3, <2>2, <2>3, <3>2 DEF Kept1
      <4> QED BY <4>1 DEF IInv, RequestsAreNew
    <3> QED BY <3>1, <3>2
  <2> QED BY <2>1, <2>2, <2>3 DEF RequestsAreNew
<1> QED BY <1>10, <1>11, <1>13, <1>14, <1>15, <1>16, <1>17, <1>18, <1>19 DEF Causal

-----------------------------------------------------------------------------
(* The actions                                                              *)

(* A field that only the scheduling of task t reads.                        *)
StatusSet(t, status) ==
    /\ Only(t) /\ Open(t)' = Open(t) /\ task'[t].status = status
    /\ task'[t].current = task[t].current /\ task'[t].context = task[t].context
    /\ task'[t].request = task[t].request /\ task'[t].carrier = task[t].carrier
    /\ task'[t].tracestate = task[t].tracestate

LEMMA StatusFacts ==
    ASSUME TypeOK, NEW t \in Task, NEW status \in {"unused", "running", "waiting", "done"},
           task' = [task EXCEPT ![t].status = status]
    PROVE  StatusSet(t, status)
<1> DEFINE new == [task[t] EXCEPT !.status = status]
<1>1. task[t] \in TaskState
  BY ElementTypes
<1>2. /\ new \in TaskState /\ new.status = status /\ new.open = task[t].open
      /\ new.current = task[t].current /\ new.context = task[t].context
      /\ new.request = task[t].request /\ new.carrier = task[t].carrier
      /\ new.tracestate = task[t].tracestate
  BY <1>1 DEF TaskState
<1>3. task' = [task EXCEPT ![t] = new]
  OBVIOUS
<1> HIDE DEF new
<1>4. Only(t) /\ task'[t] = new
  BY <1>2, <1>3, OnlyOne
<1> QED BY <1>2, <1>4 DEF StatusSet, Open

LEMMA IdleFacts ==
    /\ Idle \in TaskState /\ Idle.current = None /\ Idle.context = None
    /\ Idle.status = "unused" /\ Idle.open = <<>> /\ ~Idle.request
<1>1. <<>> \in Seq(Frame)
  BY EmptySeq
<1> QED BY <1>1 DEF Idle, TaskState, None

LEMMA QuietType ==
    ASSUME TypeOK, UNCHANGED <<contexts, registry, causes>>,
           spans' \in Seq(Span), Len(spans') = Len(spans),
           task' \in [Task -> TaskState], running' \in Seq(Task)
    PROVE  TypeOK'
<1>1. DOMAIN spans' = DOMAIN spans
  BY DEF TypeOK
<1> QED BY <1>1 DEF TypeOK

LEMMA SpansSame ==
    ASSUME IInv, spans' = spans
    PROVE  SpansKept /\ \A s : Recording(s)' <=> Recording(s)
BY DEF SpansKept, Kept1, Recording

(* A status is no part of what is said of requests.                         *)
LEMMA StatusRequests ==
    ASSUME IInv, NEW t \in Task, NEW status, StatusSet(t, status), NEW u \in Task
    PROVE  RequestKept(u)
<1>1. task[u].request => Open(u) # <<>>
  BY DEF IInv, RequestsAreNew, RequestIsNew
<1>2. /\ Open(u)' = Open(u) /\ task'[u].request = task[u].request
      /\ task'[u].carrier = task[u].carrier /\ task'[u].tracestate = task[u].tracestate
  BY DEF StatusSet, Only, Open
<1> QED BY <1>1, <1>2 DEF RequestKept, RequestSpan

LEMMA YieldIInv ==
    ASSUME IInv, NEW t \in Task, Yield(t)
    PROVE  IInv'
<1>1. StatusSet(t, "waiting") /\ TypeOK
  BY StatusFacts DEF IInv, Yield
<1>2. running' \in Seq(Task) /\ running # <<>>
  BY <1>1, PopShrinks, TopRuns DEF TypeOK, Yield
<1>3. TypeOK'
  BY <1>1, <1>2, QuietType DEF Yield, StatusSet, Only, TypeOK
<1>4. /\ task'[t].current \in 0 .. Len(spans) /\ task'[t].context \in 0 .. Len(contexts)
  BY <1>1 DEF StatusSet, IInv, TasksRefer
<1>5. Struct'
  BY <1>1, <1>3, <1>4, IInvParts, LeaveStruct DEF Yield, StatusSet
<1>6. \A u \in Task : RequestKept(u)
  BY <1>1, StatusRequests
<1>7. \A s, c : Current(s, c)' <=> Current(s, c)
  BY <1>1 DEF StatusSet, Only, Current, Open
<1>8. Causal'
  BY <1>3, <1>6, <1>7, SpansSame, QuietCausal DEF Yield
<1> QED BY <1>5, <1>8 DEF IInv, Struct, Causal

LEMMA ResumeIInv ==
    ASSUME IInv, NEW t \in Task, Resume(t)
    PROVE  IInv'
<1>1. StatusSet(t, "running") /\ TypeOK
  BY StatusFacts DEF IInv, Resume
<1>2. running' \in Seq(Task)
  BY DEF Resume
<1>3. TypeOK'
  BY <1>1, <1>2, QuietType DEF Resume, StatusSet, Only, TypeOK
<1>4. \A u \in Task : /\ Open(u)' = Open(u) /\ task'[u].current = task[u].current
                      /\ task'[u].context = task[u].context
  BY <1>1 DEF StatusSet, Only, Open
<1>5. SpansRefer' /\ TasksRefer' /\ FramesNest'
  <2>1. spans' = spans /\ contexts' = contexts /\ causes' = causes
    BY DEF Resume
  <2>2. SpansRefer'
    BY <2>1 DEF IInv, SpansRefer
  <2>3. TasksRefer'
    BY <1>4, <2>1 DEF IInv, TasksRefer
  <2>4. FramesNest'
    BY <1>4, <2>1 DEF IInv, FramesNest, Unlinked
  <2> QED BY <2>2, <2>3, <2>4
<1>6. \A j \in DOMAIN Open(t)' : ~Unlinked(Open(t)[j].span)'
  <2>1. ~InSyncBlock(t)
    BY DEF Resume, IInv, StackIsRunning, TypeOK
  <2> QED BY <1>4, <2>1 DEF Resume, IInv, FramesNest, InSyncBlock, Open, Unlinked
<1>7. Struct'
  BY <1>1, <1>3, <1>5, <1>6, IInvParts, BottomStruct DEF Resume, StatusSet, Unlinked
<1>8. \A u \in Task : RequestKept(u)
  BY <1>1, StatusRequests
<1>9. \A s, c : Current(s, c)' <=> Current(s, c)
  BY <1>1 DEF StatusSet, Only, Current, Open
<1>10. Causal'
  BY <1>3, <1>8, <1>9, SpansSame, QuietCausal DEF Resume
<1> QED BY <1>7, <1>10 DEF IInv, Struct, Causal

LEMMA FinishIInv ==
    ASSUME IInv, NEW t \in Task, Finish(t)
    PROVE  IInv'
<1> DEFINE new == [Idle EXCEPT !.status = "done"]
<1>1. /\ new \in TaskState /\ new.current = None /\ new.context = None
      /\ new.open = <<>> /\ ~new.request
  BY IdleFacts DEF TaskState
<1>2. TypeOK /\ Runs(t) /\ task' = [task EXCEPT ![t] = new] /\ Open(t) = <<>>
  BY DEF IInv, Finish, Open
<1> HIDE DEF new
<1>3. Only(t) /\ task'[t] = new
  BY <1>1, <1>2, OnlyOne
<1>4. running' \in Seq(Task) /\ running # <<>>
  BY <1>2, PopShrinks, TopRuns DEF TypeOK, Finish
<1>5. TypeOK'
  BY <1>2, <1>3, <1>4, QuietType DEF Finish, Only, TypeOK
<1>6. Open(t)' = Open(t)
  BY <1>1, <1>2, <1>3 DEF Open
<1>7. /\ task'[t].current \in 0 .. Len(spans) /\ task'[t].context \in 0 .. Len(contexts)
      /\ ~InSyncBlock(t)
  BY <1>1, <1>2, <1>3, Lengths DEF None, InSyncBlock, Open
<1>8. Struct'
  BY <1>2, <1>3, <1>5, <1>6, <1>7, IInvParts, LeaveStruct DEF Finish
<1>9. \A u \in Task : RequestKept(u)
  BY <1>1, <1>3 DEF Only, RequestKept, RequestSpan, Open, IInv, RequestsAreNew, RequestIsNew
<1>10. \A s \in DOMAIN spans : \A c : Current(s, c)' => Current(s, c)
  <2>1. \A s \in DOMAIN spans : s # None
    BY <1>2, Lengths DEF None
  <2> QED BY <1>1, <1>3, <1>6, <2>1 DEF Only, Current, Open
<1>11. Causal'
  BY <1>5, <1>9, <1>10, SpansSame, QuietCausal DEF Finish
<1> QED BY <1>8, <1>11 DEF IInv, Struct, Causal

LEMMA SpawnIInv ==
    ASSUME IInv, NEW t \in Task, NEW u \in Task, Spawn(t, u)
    PROVE  IInv'
<1> DEFINE new == [Idle EXCEPT !.status = "running", !.current = task[t].current,
                               !.context = task[t].context]
<1>1. TypeOK /\ Runs(t) /\ task[t] \in TaskState /\ task' = [task EXCEPT ![u] = new]
  BY ElementTypes DEF IInv, Spawn
<1>2. /\ new \in TaskState /\ new.status = "running" /\ new.open = <<>> /\ ~new.request
      /\ new.current = task[t].current /\ new.context = task[t].context
  BY <1>1, IdleFacts DEF TaskState
<1> HIDE DEF new
<1>3. Only(u) /\ task'[u] = new
  BY <1>1, <1>2, OnlyOne
<1>4. running' \in Seq(Task)
  BY <1>1, AppendGrows DEF Spawn, TypeOK
<1>5. TypeOK'
  BY <1>1, <1>3, <1>4, QuietType DEF Spawn, Only, TypeOK
<1>6. Open(u)' = <<>>
  BY <1>2, <1>3 DEF Open
<1>7. Struct'
  BY <1>1, <1>2, <1>3, <1>5, <1>6, IInvParts, SpawnStruct DEF Spawn
<1>8. \A v \in Task : RequestKept(v)
  BY <1>2, <1>3 DEF Only, RequestKept, RequestSpan, Open, IInv, RequestsAreNew, RequestIsNew
<1>9. \A s : \A c : Current(s, c)' => Current(s, c)
  BY <1>2, <1>3, <1>6 DEF Only, Current, Open
<1>10. Causal'
  BY <1>5, <1>8, <1>9, SpansSame, QuietCausal DEF Spawn
<1> QED BY <1>7, <1>10 DEF IInv, Struct, Causal

LEMMA TakeUpIInv ==
    ASSUME IInv, NEW t \in Task, NEW c \in DOMAIN contexts, TakeUp(t, c)
    PROVE  IInv'
<1> DEFINE new == [task[t] EXCEPT !.context = c]
<1>1. /\ TypeOK /\ Runs(t) /\ task[t] \in TaskState /\ task' = [task EXCEPT ![t] = new]
      /\ Open(t) = <<>> /\ ~Recording(task[t].current)
      /\ DOMAIN contexts = 1 .. Len(contexts) /\ Len(contexts) \in Nat
      /\ Len(contexts) <= MaxContexts /\ MaxContexts \in Nat
  BY ElementTypes, Lengths, ContextLinkingAssumption DEF IInv, TypeOK, TakeUp, Open
<1>2. /\ new \in TaskState /\ new.status = task[t].status /\ new.open = task[t].open
      /\ new.request = task[t].request /\ new.current = task[t].current /\ new.context = c
      /\ new.carrier = task[t].carrier /\ new.tracestate = task[t].tracestate
  <2>1. c \in ContextIds
    BY <1>1 DEF ContextIds
  <2> QED BY <1>1, <2>1 DEF TaskState
<1> HIDE DEF new
<1>3. Only(t) /\ task'[t] = new
  BY <1>1, <1>2, OnlyOne
<1>4. TypeOK'
  BY <1>1, <1>3, QuietType DEF TakeUp, Only, TypeOK
<1>5. \A u \in Task : /\ Open(u)' = Open(u) /\ task'[u].current = task[u].current
                      /\ task'[u].status = task[u].status
                      /\ task'[u].context \in 0 .. Len(contexts')
  BY <1>1, <1>2, <1>3 DEF TakeUp, Only, Open, IInv, TasksRefer
<1>6. Struct'
  BY <1>1, <1>4, <1>5, IInvParts, StayStruct DEF TakeUp, TypeOK
<1>7. \A u \in Task : RequestKept(u)
  BY <1>2, <1>3, <1>5 DEF Only, RequestKept, RequestSpan, IInv, RequestsAreNew, RequestIsNew
<1>8. \A s \in DOMAIN spans, d \in DOMAIN contexts :
         Current(s, d)' /\ Recording(s)' => Current(s, d)
  <2> SUFFICES ASSUME NEW s \in DOMAIN spans, NEW d, Current(s, d)', Recording(s)'
               PROVE  Current(s, d)
    OBVIOUS
  <2>1. Recording(s)
    BY DEF TakeUp, Recording
  <2>2. PICK u \in Task :
           \/ task'[u].current = s /\ task'[u].context = d
           \/ \E j \in DOMAIN Open(u)' : Open(u)'[j].before = s /\ Open(u)'[j].context = d
    BY DEF Current
  <2>3. u # t
    BY <1>1, <1>5, <2>1, <2>2
  <2> QED BY <1>3, <1>5, <2>2, <2>3 DEF Only, Current
<1>9. Causal'
  BY <1>4, <1>7, <1>8, SpansSame, QuietCausal DEF TakeUp
<1> QED BY <1>6, <1>9 DEF IInv, Struct, Causal

LEMMA EndSpanIInv ==
    ASSUME IInv, NEW t \in Task, EndSpan(t)
    PROVE  IInv'
<1>1. Struct /\ TypeOK /\ Runs(t)
  BY IInvParts DEF IInv, EndSpan
<1> PICK n, s : n = Len(Open(t)) /\ s = Open(t)[n].span
  OBVIOUS
<1>2. Ended(t, n, s)
  BY <1>1, EndSpanFacts
<1>3. TypeOK'
  BY <1>1, <1>2, QuietType DEF EndSpan, Ended, Only, TypeOK
<1>4. Struct'
  BY <1>1, <1>2, <1>3, PopStruct DEF EndSpan
<1>5. SpansKept
  BY <1>2 DEF Ended, SpansKept, Kept1
<1>6. /\ Len(Open(t)) \in Nat /\ DOMAIN Open(t) = 1 .. Len(Open(t))
      /\ \A u \in Task \ {t} : task'[u] = task[u] /\ Open(u)' = Open(u)
  BY <1>1, <1>2, ElementTypes DEF Ended, Only, Open
<1>7. \A u \in Task : RequestKept(u)
  <2>1. ASSUME task'[t].request PROVE RequestKept(t)
    <3>1. task[t].request /\ n > 1
      BY <1>2, <2>1 DEF Ended
    <3>2. 1 \in DOMAIN Open(t)' /\ Open(t)'[1] = Open(t)[1]
      BY <1>2, <3>1 DEF Ended
    <3>3. Open(t)' # <<>>
      BY <3>2
    <3> QED BY <1>2, <3>1, <3>2, <3>3 DEF Ended, RequestKept, RequestSpan
  <2>2. ASSUME NEW u \in Task \ {t} PROVE RequestKept(u)
    BY <1>6, <2>2 DEF RequestKept, RequestSpan, IInv, RequestsAreNew, RequestIsNew
  <2> QED BY <2>1, <2>2 DEF RequestKept
<1>8. \A x : \A d : Current(x, d)' => Current(x, d)
  <2> SUFFICES ASSUME NEW x, NEW d, Current(x, d)' PROVE Current(x, d)
    OBVIOUS
  <2>1. PICK u \in Task :
           \/ task'[u].current = x /\ task'[u].context = d
           \/ \E j \in DOMAIN Open(u)' : Open(u)'[j].before = x /\ Open(u)'[j].context = d
    BY DEF Current
  <2>2. CASE u # t
    BY <1>6, <2>1, <2>2 DEF Current
  <2>3. CASE u = t /\ task'[u].current = x /\ task'[u].context = d
    <3>1. n \in DOMAIN Open(t) /\ Open(t)[n].before = x /\ Open(t)[n].context = d
      BY <1>2, <1>6, <2>3 DEF Ended
    <3> QED BY <2>3, <3>1 DEF Current
  <2>4. CASE u = t /\ \E j \in DOMAIN Open(u)' : Open(u)'[j].before = x /\ Open(u)'[j].context = d
    <3>1. PICK j \in DOMAIN Open(t)' : Open(t)'[j].before = x /\ Open(t)'[j].context = d
      BY <2>4
    <3>2. j \in DOMAIN Open(t) /\ Open(t)'[j] = Open(t)[j]
      BY <1>2, <1>6, <3>1 DEF Ended
    <3> QED BY <2>4, <3>1, <3>2 DEF Current
  <2> QED BY <2>1, <2>2, <2>3, <2>4
<1>9. Causal'
  BY <1>2, <1>3, <1>5, <1>7, <1>8, QuietCausal DEF EndSpan, Ended
<1> QED BY <1>4, <1>9 DEF IInv, Struct, Causal

(* A context is made.                                                       *)
Made(c, new) ==
    /\ c \in Nat /\ c \in ContextIds /\ c \notin DOMAIN contexts /\ c = Len(contexts) + 1
    /\ contexts' \in Seq(Context) /\ Len(contexts') = c
    /\ DOMAIN contexts' = DOMAIN contexts \cup {c}
    /\ \A d \in DOMAIN contexts : contexts'[d] = contexts[d]
    /\ contexts'[c] = new

LEMMA MadeFacts ==
    ASSUME TypeOK, NEW new \in Context, Len(contexts) + 1 <= MaxContexts,
           contexts' = Append(contexts, new)
    PROVE  Made(Len(contexts) + 1, new) /\ Len(contexts) <= Len(contexts')
<1>1. /\ contexts \in Seq(Context) /\ Len(contexts) \in Nat
      /\ DOMAIN contexts = 1 .. Len(contexts)
  BY Lengths DEF TypeOK
<1>2. /\ Append(contexts, new) \in Seq(Context)
      /\ Len(Append(contexts, new)) = Len(contexts) + 1
      /\ Grown(contexts, Append(contexts, new))
      /\ Append(contexts, new)[Len(contexts) + 1] = new
      /\ DOMAIN Append(contexts, new) = 1 .. Len(contexts) + 1
  BY <1>1, AppendGrows
<1>3. /\ DOMAIN contexts' = DOMAIN contexts \cup {Len(contexts) + 1}
      /\ Len(contexts) + 1 \notin DOMAIN contexts
      /\ Len(contexts) + 1 \in ContextIds
  BY <1>1, <1>2, ContextLinkingAssumption DEF ContextIds
<1> QED BY <1>1, <1>2, <1>3 DEF Made, Grown

LEMMA NewContextFacts ==
    ASSUME NEW parent \in ContextIds \cup {None}, NEW cause \in Nat
    PROVE  LET new == NewContext(parent, cause) IN
           /\ new \in Context /\ new.parent = parent /\ new.cause = cause
           /\ new.traceparent = None /\ new.tracestate = None /\ new.otel = None
           /\ ~new.carried
BY DEF NewContext, Context, None

LEMMA CurrentRefers ==
    ASSUME IInv, NEW x, NEW d, Current(x, d)
    PROVE  x \in 0 .. Len(spans) /\ d \in 0 .. Len(contexts)
BY DEF Current, IInv, TasksRefer

(* The running task works for another context.                              *)
Moved(t, c) ==
    /\ Only(t) /\ Open(t)' = Open(t) /\ task'[t].context = c
    /\ task'[t].current = task[t].current /\ task'[t].status = task[t].status
    /\ task'[t].request => task[t].request
    /\ task'[t].carrier = task[t].carrier /\ task'[t].tracestate = task[t].tracestate

LEMMA CurrentMoved ==
    ASSUME IInv, NEW t \in Task, NEW c, Moved(t, c), NEW x, NEW d, Current(x, d)'
    PROVE  (x = task[t].current /\ d = c) \/ Current(x, d)
BY DEF Moved, Only, Current, Open

LEMMA MovedStruct ==
    ASSUME IInv, TypeOK', NEW t \in Task, NEW c, Moved(t, c), running' = running, spans' = spans,
           causes' = causes, c \in 0 .. Len(contexts'), Len(contexts) <= Len(contexts')
    PROVE  Struct' /\ \A u \in Task : RequestKept(u)
<1>1. Len(contexts) \in Nat /\ Len(contexts') \in Nat /\ causes \in Nat
  BY Lengths DEF IInv, TypeOK
<1>2. \A u \in Task : /\ Open(u)' = Open(u) /\ task'[u].current = task[u].current
                      /\ task'[u].status = task[u].status
                      /\ task'[u].context \in 0 .. Len(contexts')
  BY <1>1 DEF Moved, Only, Open, IInv, TasksRefer
<1>3. Struct'
  BY <1>1, <1>2, IInvParts, StayStruct
<1>4. \A u \in Task : RequestKept(u)
  BY <1>2 DEF Moved, Only, RequestKept, RequestSpan, IInv, RequestsAreNew, RequestIsNew
<1> QED BY <1>3, <1>4

LEMMA ChildContextIInv ==
    ASSUME IInv, NEW t \in Task, ChildContext(t)
    PROVE  IInv'
<1> PICK c : c = Len(contexts) + 1
  OBVIOUS
<1> PICK p : p = task[t].context
  OBVIOUS
<1>1. /\ TypeOK /\ task[t] \in TaskState /\ Runs(t) /\ c <= MaxContexts
      /\ p # None /\ contexts[p].carried
      /\ DOMAIN contexts = 1 .. Len(contexts) /\ Len(contexts) \in Nat
      /\ DOMAIN spans = 1 .. Len(spans) /\ Len(spans) \in Nat
      /\ causes \in Nat
  BY ElementTypes, Lengths DEF IInv, TypeOK, ChildContext
<1>2. p \in DOMAIN contexts /\ p \in ContextIds
  <2>1. p \in 0 .. Len(contexts)
    BY DEF IInv, TasksRefer
  <2> QED BY <1>1, <2>1, ContextLinkingAssumption DEF None, ContextIds, TypeOK
<1> PICK k : k = contexts[p].cause
  OBVIOUS
<1>3. k \in 1 .. causes /\ p \in DOMAIN registry
  BY <1>1, <1>2 DEF IInv, ContextsRefer
<1> PICK new : new = NewContext(p, k)
  OBVIOUS
<1>4. /\ new \in Context /\ new.parent = p /\ new.cause = k
      /\ new.traceparent = None /\ new.tracestate = None /\ new.otel = None /\ ~new.carried
  BY <1>1, <1>2, <1>3, NewContextFacts
<1>5. Made(c, new) /\ Len(contexts) <= Len(contexts')
  <2>1. contexts' = Append(contexts, new)
    BY DEF ChildContext
  <2> QED BY <1>1, <1>4, <2>1, MadeFacts
<1>6. Moved(t, c)
  <2> DEFINE state == [task[t] EXCEPT !.context = c]
  <2>1. /\ state \in TaskState /\ state.status = task[t].status /\ state.open = task[t].open
        /\ state.request = task[t].request /\ state.current = task[t].current
        /\ state.context = c
        /\ state.carrier = task[t].carrier /\ state.tracestate = task[t].tracestate
    BY <1>1, <1>5 DEF TaskState, Made
  <2>2. task' = [task EXCEPT ![t] = state]
    BY DEF ChildContext
  <2> HIDE DEF state
  <2>3. Only(t) /\ task'[t] = state
    BY <1>1, <2>1, <2>2, OnlyOne
  <2> QED BY <2>1, <2>3 DEF Moved, Open
<1>7. TypeOK'
  BY <1>1, <1>5, <1>6 DEF TypeOK, ChildContext, Made, Moved, Only
<1>8. Struct' /\ \A u \in Task : RequestKept(u)
  BY <1>1, <1>5, <1>6, <1>7, MovedStruct DEF ChildContext, Made
<1> PICK r : r = registry[p]
  OBVIOUS
<1> PICK trace : trace = spans[r].trace
  OBVIOUS
<1>9. r \in DOMAIN spans /\ LinkedTo(r, k) /\ trace \in Nat
  <2>1. r \in DOMAIN spans /\ LinkedTo(r, k)
    BY <1>3, RegisteredIsLinked
  <2>2. trace \in DOMAIN spans
    BY <2>1 DEF IInv, SpansRefer
  <2> QED BY <1>1, <2>1, <2>2
<1>10. \A w \in Nat : Claims(k, w) => w = trace
  <2>1. Claims(k, trace)
    BY <1>9 DEF Claims
  <2> QED BY <1>1, <1>3, <1>9, <2>1, SMTT(40) DEF IInv, ClaimsAgree
<1>11. SpansKept /\ \A i \in DOMAIN spans : Recording(i)' <=> Recording(i)
  BY SpansSame DEF ChildContext
<1>12. \A x \in DOMAIN spans', d \in DOMAIN contexts :
          Current(x, d)' /\ Recording(x)' => x \in DOMAIN spans /\ Current(x, d)
  BY <1>5, <1>6, CurrentMoved DEF ChildContext, Made
<1>13. \A x \in DOMAIN spans' : Current(x, c)' /\ Recording(x)' =>
          /\ spans'[x].trace = trace
          /\ spans'[x].linked => \E i \in DOMAIN spans : LinkedTo(i, k)
  <2> SUFFICES ASSUME NEW x \in DOMAIN spans, Current(x, c)', Recording(x)
               PROVE  spans[x].trace = trace
    BY <1>9, <1>11 DEF ChildContext
  <2>1. x = task[t].current
    <3>1. ~Current(x, c)
      BY <1>1, CurrentRefers
    <3> QED BY <1>6, <3>1, CurrentMoved
  <2>2. Current(x, p)
    BY <2>1 DEF Current
  <2>3. Claims(k, spans[x].trace)
    BY <1>2, <2>2 DEF Claims
  <2>4. spans[x].trace \in Nat
    BY <1>1 DEF IInv, SpansRefer
  <2> QED BY <1>10, <2>3, <2>4
<1>14. \A u \in Task : task'[u].request => spans[RequestSpan(u)].cause # k
  BY <1>2, <1>8 DEF RequestKept, IInv, RequestsAreNew, RequestIsNew
<1>15. Causal'
  <2>1. c \notin DOMAIN registry'
    BY <1>1, <1>5 DEF ChildContext, TypeOK, Made
  <2>2. /\ new.cause \in 1 .. causes' /\ causes' \in Nat /\ causes <= causes'
        /\ spans' = spans /\ registry' = registry
    BY <1>1, <1>3, <1>4 DEF ChildContext
  <2>3. /\ new.parent # None /\ new.parent \in DOMAIN registry
        /\ contexts[new.parent].cause = new.cause
    BY <1>1, <1>3, <1>4
  <2>4. /\ new.traceparent \in (0 .. Len(spans)) \cup {Bad}
        /\ new.traceparent \notin DOMAIN spans
    BY <1>1, <1>4 DEF None
  <2>5. /\ c \in Nat /\ c \notin DOMAIN contexts
        /\ DOMAIN contexts' = DOMAIN contexts \cup {c}
        /\ \A d \in DOMAIN contexts : contexts'[d] = contexts[d]
        /\ contexts'[c] = new
    BY <1>5 DEF Made
  <2>6. \A i \in DOMAIN spans' \ DOMAIN spans :
           ~spans'[i].linked /\ GoesWith(spans[i].tracestate, spans[i].trace)'
    BY <2>2
  <2>7. Added(c, new)
    BY <1>4, <2>1, <2>2, <2>5 DEF Added
  <2>8. CauseFits(new)
    BY <1>4, <1>14, <2>2, <2>3 DEF CauseFits
  <2>9. CarrierFits(new)
    BY <1>4, <2>3, <2>4 DEF CarrierFits
  <2>10. ClaimFits(c, new.cause, trace)
    BY <1>4, <1>10, <1>13 DEF ClaimFits
  <2> QED BY <1>7, <1>8, <1>11, <1>12, <2>6, <2>7, <2>8, <2>9, <2>10, AddContextCausal
<1> QED BY <1>8, <1>15 DEF IInv, Struct, Causal

LEMMA BackgroundIInv ==
    ASSUME IInv, NEW t \in Task, Background(t)
    PROVE  IInv'
<1> PICK c : c = Len(contexts) + 1
  OBVIOUS
<1>1. /\ TypeOK /\ running = <<>> /\ running' = <<t>> /\ c <= MaxContexts
      /\ DOMAIN contexts = 1 .. Len(contexts) /\ Len(contexts) \in Nat
      /\ DOMAIN spans = 1 .. Len(spans) /\ Len(spans) \in Nat
      /\ causes \in Nat /\ spans' = spans /\ registry' = registry /\ causes' = causes + 1
  BY Lengths DEF IInv, TypeOK, Background
<1> PICK k : k = causes + 1
  OBVIOUS
<1> PICK new : new = NewContext(None, k)
  OBVIOUS
<1>2. /\ new \in Context /\ new.parent = None /\ new.cause = k /\ k \in Nat
      /\ new.traceparent = None /\ new.tracestate = None /\ new.otel = None /\ ~new.carried
  BY <1>1, NewContextFacts, SMTT(40) DEF None
<1>3. Made(c, new) /\ Len(contexts) <= Len(contexts')
  <2>1. contexts' = Append(contexts, new)
    BY DEF Background
  <2> QED BY <1>1, <1>2, <2>1, MadeFacts
<1> DEFINE state == [Idle EXCEPT !.status = "running", !.context = c]
<1>4. /\ state \in TaskState /\ state.status = "running" /\ state.open = <<>>
      /\ ~state.request /\ state.current = None /\ state.context = c
  BY <1>3, IdleFacts DEF TaskState, Made
<1>5. task' = [task EXCEPT ![t] = state]
  BY DEF Background
<1> HIDE DEF state
<1>6. Only(t) /\ task'[t] = state
  BY <1>1, <1>4, <1>5, OnlyOne
<1>7. TypeOK'
  BY <1>1, <1>3, <1>6 DEF TypeOK, Made, Only
<1>8. /\ \A u \in Task \ {t} : task'[u] = task[u] /\ Open(u)' = Open(u)
      /\ Open(t)' = <<>> /\ DOMAIN Open(t)' = {}
  BY <1>4, <1>6 DEF Only, Open
<1>9. Struct'
  <2>1. SpansRefer'
    <3>1. \A i \in DOMAIN spans : spans[i].cause \in Nat
      BY <1>1, ElementTypes DEF Span
    <3> QED BY <1>1, <3>1 DEF IInv, SpansRefer
  <2>2. TasksRefer'
    <3>1. \A d \in 0 .. Len(contexts) : d \in 0 .. Len(contexts')
      BY <1>1, <1>3 DEF Made
    <3>2. task'[t].current \in 0 .. Len(spans') /\ task'[t].context \in 0 .. Len(contexts')
      BY <1>1, <1>3, <1>4, <1>6 DEF Made, None
    <3>3. \A u \in Task \ {t} :
             /\ task[u].current \in 0 .. Len(spans) /\ task[u].context \in 0 .. Len(contexts)
             /\ \A j \in DOMAIN Open(u) : /\ Open(u)[j].span \in 1 .. Len(spans)
                                          /\ Open(u)[j].before \in 0 .. Len(spans)
                                          /\ Open(u)[j].context \in 0 .. Len(contexts)
      BY DEF IInv, TasksRefer
    <3> QED BY <1>1, <1>8, <3>1, <3>2, <3>3 DEF TasksRefer
  <2>3. FramesNest'
    BY <1>1, <1>8 DEF IInv, FramesNest, Unlinked
  <2> QED BY <1>1, <1>4, <1>6, <1>7, <1>8, <2>1, <2>2, <2>3, IInvParts, BottomStruct DEF Unlinked
<1>10. \A u \in Task : RequestKept(u)
  BY <1>4, <1>6, <1>8 DEF RequestKept, RequestSpan, IInv, RequestsAreNew, RequestIsNew
<1>11. /\ \A i \in DOMAIN spans : spans[i].cause # k
       /\ \A d \in DOMAIN contexts : contexts[d].cause # k
  <2>1. \A i \in DOMAIN spans : spans[i].cause <= causes /\ spans[i].cause \in Nat
    BY <1>1, ElementTypes DEF IInv, SpansRefer, Span
  <2>2. \A d \in DOMAIN contexts : contexts[d].cause \in 1 .. causes
    BY DEF IInv, ContextsRefer
  <2> QED BY <1>1, <2>1, <2>2
<1>12. \A x : \A d : Current(x, d)' => Current(x, d) \/ x = None
  BY <1>4, <1>6, <1>8 DEF Current
<1>13. SpansKept /\ \A i \in DOMAIN spans : Recording(i)' <=> Recording(i)
  BY <1>1, SpansSame
<1>14. Causal'
  <2>1. c \notin DOMAIN registry'
    BY <1>1, <1>3 DEF TypeOK, Made
  <2>2. Added(c, new)
    BY <1>1, <1>2, <1>3, <2>1 DEF Added, Made
  <2>3. CauseFits(new)
    <3>1. \A u \in Task : task'[u].request => spans[RequestSpan(u)].cause # k
      <4>1. ASSUME NEW u \in Task, task'[u].request PROVE RequestSpan(u) \in DOMAIN spans
        <5>1. task[u].request /\ Open(u) # <<>>
          BY <1>10, <4>1 DEF RequestKept, IInv, RequestsAreNew, RequestIsNew
        <5>2. 1 \in DOMAIN Open(u)
          BY <1>1, <5>1, ElementTypes, EmptySeq
        <5> QED BY <1>1, <5>2 DEF IInv, TasksRefer, RequestSpan
      <4> QED BY <1>11, <4>1
    <3>2. k \in 1 .. causes' /\ causes' \in Nat /\ causes <= causes'
      BY <1>1
    <3> QED BY <1>2, <1>11, <3>1, <3>2 DEF CauseFits
  <2>4. CarrierFits(new)
    BY <1>1, <1>2, <1>11 DEF CarrierFits, LinkedTo, None
  <2>5. ClaimFits(c, new.cause, None)
    <3>1. \A w : ~Claims(k, w)
      BY <1>11 DEF Claims, LinkedTo
    <3>2. \A x \in DOMAIN spans' : ~Current(x, c)'
      BY <1>1, <1>12, CurrentRefers DEF None
    <3> QED BY <1>2, <3>1, <3>2 DEF ClaimFits
  <2>6. \A x \in DOMAIN spans', d \in DOMAIN contexts :
           Current(x, d)' /\ Recording(x)' => x \in DOMAIN spans /\ Current(x, d)
    BY <1>1, <1>12 DEF None
  <2>7. \A i \in DOMAIN spans' \ DOMAIN spans :
           ~spans'[i].linked /\ GoesWith(spans[i].tracestate, spans[i].trace)'
    BY <1>1
  <2> QED BY <1>7, <1>10, <1>13, <2>2, <2>3, <2>4, <2>5, <2>6, <2>7, AddContextCausal
<1> QED BY <1>9, <1>14 DEF IInv, Struct, Causal

(* The request and the span it is handled in.                               *)
LEMMA RequestFacts ==
    ASSUME IInv, NEW t \in Task, task[t].request
    PROVE  /\ RequestSpan(t) \in DOMAIN spans /\ RequestSpan(t) \in SpanIds
           /\ LinkedTo(RequestSpan(t), spans[RequestSpan(t)].cause)
           /\ spans[RequestSpan(t)].cause \in 1 .. causes
           /\ spans[RequestSpan(t)].trace \in Nat /\ spans[RequestSpan(t)].tracestate \in Nat
           /\ GoesWith(spans[RequestSpan(t)].tracestate, spans[RequestSpan(t)].trace)
           /\ Len(Open(t)) = 1 => task[t].current = RequestSpan(t)
           /\ spans[RequestSpan(t)].open
<1>1. /\ DOMAIN spans = 1 .. Len(spans) /\ Len(spans) \in Nat /\ Len(spans) <= MaxSpans
      /\ MaxSpans \in Nat /\ causes \in Nat
  BY Lengths, ContextLinkingAssumption DEF IInv, TypeOK
<1>2. Open(t) # <<>>
  BY DEF IInv, RequestsAreNew, RequestIsNew
<1>3. 1 \in DOMAIN Open(t)
  BY <1>2, ElementTypes, EmptySeq DEF IInv
<1> PICK r : r = RequestSpan(t)
  OBVIOUS
<1>4. r \in DOMAIN spans
  BY <1>1, <1>3 DEF IInv, TasksRefer, RequestSpan
<1>5. spans[r] \in Span
  BY <1>4, ElementTypes DEF IInv
<1>6. r \in SpanIds
  BY <1>1, <1>4 DEF SpanIds
<1>7. spans[r].linked /\ spans[r].cause \in 1 .. causes
  BY <1>1, <1>4, <1>5 DEF IInv, RequestsAreNew, RequestIsNew, SpansRefer, Span
<1>8. spans[r].trace \in Nat /\ spans[r].tracestate \in Nat
  BY <1>5 DEF Span, SpanIds
<1>9. Len(Open(t)) = 1 => task[t].current = r
  BY <1>2 DEF IInv, FramesNest, RequestSpan
<1>10. spans[r].open
  BY <1>3 DEF IInv, FramesNest, RequestSpan
<1> QED BY <1>4, <1>6, <1>7, <1>8, <1>9, <1>10 DEF LinkedTo, IInv, TracestateStays

LEMMA RequestContextIInv ==
    ASSUME IInv, NEW t \in Task, RequestContext(t)
    PROVE  IInv'
<1> PICK c : c = Len(contexts) + 1
  OBVIOUS
<1> PICK r : r = RequestSpan(t)
  OBVIOUS
<1> PICK k : k = spans[r].cause
  OBVIOUS
<1> PICK carrier, ts : carrier = task[t].carrier /\ ts = task[t].tracestate
  OBVIOUS
<1>1. /\ TypeOK /\ Runs(t) /\ c <= MaxContexts /\ task[t] \in TaskState
      /\ task[t].request /\ Len(Open(t)) = 1
      /\ DOMAIN contexts = 1 .. Len(contexts) /\ Len(contexts) \in Nat
      /\ DOMAIN spans = 1 .. Len(spans) /\ Len(spans) \in Nat
      /\ causes \in Nat /\ spans' = spans /\ causes' = causes /\ running' = running
      /\ DOMAIN registry \subseteq DOMAIN contexts
  BY Lengths, ElementTypes DEF IInv, TypeOK, RequestContext, Open
<1>2. /\ r \in DOMAIN spans /\ r \in SpanIds /\ LinkedTo(r, k) /\ k \in 1 .. causes
      /\ spans[r].trace \in Nat /\ spans[r].tracestate \in Nat
      /\ GoesWith(spans[r].tracestate, spans[r].trace)
      /\ task[t].current = r /\ spans[r].open
  BY <1>1, RequestFacts
<1>3. /\ \A d \in DOMAIN contexts : contexts[d].cause # k
      /\ carrier \in (0 .. Len(spans)) \cup {Bad}
      /\ spans[r].sampled \/ carrier \in DOMAIN spans
      /\ carrier \in DOMAIN spans => /\ LinkedTo(carrier, k)
                                     /\ spans[carrier].tracestate = ts
      /\ ts # None => GoesWith(ts, spans[r].trace)
      /\ \A u \in Task \ {t} : task[u].request => spans[RequestSpan(u)].cause # k
  <2>1. Readable(carrier) <=> carrier \in DOMAIN spans
    BY <1>1 DEF Readable
  <2> QED BY <1>1, <2>1 DEF IInv, RequestsAreNew, RequestIsNew
<1>4. Recording(r) <=> spans[r].sampled
  BY <1>1, <1>2 DEF Recording, None
<1> PICK fresh : fresh = NewContext(None, k)
  OBVIOUS
<1> PICK stored : stored = StoreCarrier(fresh, carrier, ts)
  OBVIOUS
<1> PICK new : new = RequestCache(t, NewContext(None, k))
  OBVIOUS
<1>5. /\ stored \in Context /\ stored.parent = None /\ stored.cause = k /\ ~stored.carried
      /\ stored.traceparent = carrier /\ stored.tracestate = ts /\ stored.otel = None
  <2>1. /\ fresh \in Context /\ fresh.parent = None /\ fresh.cause = k
        /\ fresh.traceparent = None /\ fresh.tracestate = None /\ fresh.otel = None
        /\ ~fresh.carried
    <3>1. k \in Nat /\ None \in ContextIds \cup {None}
      BY <1>1, <1>2
    <3> QED BY <3>1, NewContextFacts
  <2>2. carrier \in SpanIds \cup {None, Bad} /\ ts \in Nat
    BY <1>1 DEF TaskState
  <2>3. /\ stored \in Context /\ stored.parent = fresh.parent /\ stored.cause = fresh.cause
        /\ stored.traceparent = Kept(carrier, fresh.traceparent)
        /\ stored.tracestate = Kept(ts, fresh.tracestate)
        /\ stored.otel = fresh.otel /\ stored.carried = fresh.carried
    BY <2>1, <2>2, ZenonT(40) DEF StoreCarrier, Kept, Context
  <2> QED BY <2>1, <2>3 DEF Kept
<1>6. /\ Recording(r) => /\ new \in Context /\ new.parent = None /\ new.cause = k /\ ~new.carried
                         /\ new.traceparent = r /\ new.otel = r
                         /\ new.tracestate = Kept(spans[r].tracestate, ts)
      /\ ~Recording(r) => new = stored
  <2>1. Recording(r) => new = Linked(stored, r, spans[r].tracestate)
    BY <1>2 DEF RequestCache
  <2>2. ~Recording(r) => new = stored
    BY <1>2 DEF RequestCache
  <2>3. Recording(r) =>
           /\ new \in Context /\ new.parent = stored.parent /\ new.cause = stored.cause
           /\ new.traceparent = r /\ new.otel = r /\ new.carried = stored.carried
           /\ new.tracestate = Kept(spans[r].tracestate, stored.tracestate)
    <3> SUFFICES ASSUME Recording(r)
                 PROVE  /\ new \in Context /\ new.parent = stored.parent
                        /\ new.cause = stored.cause /\ new.traceparent = r
                        /\ new.otel = r /\ new.carried = stored.carried
                        /\ new.tracestate = Kept(spans[r].tracestate, stored.tracestate)
      OBVIOUS
    <3> PICK ts2 \in Nat : ts2 = spans[r].tracestate
      BY <1>2
    <3>1. new = Linked(stored, r, ts2) /\ stored \in Context /\ r \in SpanIds
      BY <1>2, <1>5, <2>1
    <3>2. /\ new \in Context /\ new.parent = stored.parent /\ new.cause = stored.cause
          /\ new.traceparent = r /\ new.otel = r /\ new.carried = stored.carried
          /\ new.tracestate = Kept(ts2, stored.tracestate)
      BY <3>1 DEF Linked, Kept, Context
    <3> QED BY <3>2
  <2> QED BY <1>5, <2>2, <2>3
<1>7. Made(c, new) /\ Len(contexts) <= Len(contexts')
  <2>1. contexts' = Append(contexts, new)
    BY DEF RequestContext, RequestSpan, Open
  <2>2. new \in Context
    BY <1>5, <1>6
  <2> QED BY <1>1, <2>1, <2>2, MadeFacts
<1>8. Moved(t, c) /\ ~task'[t].request
  <2> DEFINE state == [task[t] EXCEPT !.context = c, !.request = FALSE]
  <2>1. /\ state \in TaskState /\ state.status = task[t].status /\ state.open = task[t].open
        /\ ~state.request /\ state.current = task[t].current
        /\ state.context = c
        /\ state.carrier = task[t].carrier /\ state.tracestate = task[t].tracestate
    BY <1>1, <1>7 DEF TaskState, Made
  <2>2. task' = [task EXCEPT ![t] = state]
    BY DEF RequestContext
  <2> HIDE DEF state
  <2>3. Only(t) /\ task'[t] = state
    BY <1>1, <2>1, <2>2, OnlyOne
  <2> QED BY <2>1, <2>3 DEF Moved, Open
<1>9. registry' = IF Recording(r) THEN Register(c, r) ELSE registry
  BY <1>2 DEF RequestContext
<1>10. /\ DOMAIN registry \subseteq DOMAIN registry'
       /\ DOMAIN registry' \subseteq DOMAIN registry \cup {c}
       /\ \A d \in DOMAIN registry : registry'[d] = registry[d]
       /\ Recording(r) <=> c \in DOMAIN registry'
       /\ c \in DOMAIN registry' => registry'[c] = r
  <2>1. c \notin DOMAIN registry
    BY <1>1
  <2> QED BY <1>9, <2>1 DEF Register
<1>11. TypeOK'
  <2>1. \A d \in DOMAIN registry' : registry'[d] \in DOMAIN spans
    BY <1>1, <1>2, <1>10 DEF TypeOK
  <2>2. DOMAIN registry' \subseteq DOMAIN contexts'
    BY <1>1, <1>7, <1>10 DEF Made
  <2> QED BY <1>1, <1>7, <1>8, <2>1, <2>2 DEF TypeOK, Made, Moved, Only
<1>12. Struct' /\ \A u \in Task : RequestKept(u)
  BY <1>1, <1>7, <1>8, <1>11, MovedStruct DEF Made
<1>13. SpansKept /\ \A i \in DOMAIN spans : Recording(i)' <=> Recording(i)
  BY <1>1, SpansSame
<1>14. Causal'
  <2>1. Added(c, new)
    BY <1>5, <1>6, <1>7, <1>10 DEF Added, Made
  <2>2. CauseFits(new)
    <3>1. new.parent = None /\ new.cause = k
      BY <1>5, <1>6
    <3>2. \A u \in Task : task'[u].request => spans[RequestSpan(u)].cause # k
      BY <1>3, <1>8 DEF Moved, Only
    <3> QED BY <1>1, <1>2, <1>3, <3>1, <3>2 DEF CauseFits
  <2>3. new.traceparent \in DOMAIN spans /\ new.cause = k
    BY <1>2, <1>3, <1>4, <1>5, <1>6
  <2>4. /\ LinkedTo(new.traceparent, k)
        /\ GoesWith(new.tracestate, spans[new.traceparent].trace)
    <3>1. CASE Recording(r)
      BY <1>2, <1>3, <1>6, <3>1 DEF Kept
    <3>2. CASE ~Recording(r)
      BY <1>3, <1>4, <1>5, <1>6, <3>2 DEF IInv, TracestateStays
    <3> QED BY <3>1, <3>2
  <2>5. CarrierFits(new)
    BY <1>1, <2>3, <2>4 DEF CarrierFits
  <2>6. ClaimFits(c, new.cause, spans[r].trace)
    <3>1. \A w \in Nat : Claims(k, w) => w = spans[r].trace
      <4>1. Claims(k, spans[r].trace)
        BY <1>2 DEF Claims
      <4> QED BY <1>1, <1>2, <4>1 DEF IInv, ClaimsAgree
    <3>2. \A x \in DOMAIN spans' : Current(x, c)' => x = r
      BY <1>1, <1>2, <1>8, CurrentMoved, CurrentRefers
    <3> QED BY <1>1, <1>2, <2>3, <3>1, <3>2 DEF ClaimFits
  <2>7. \A x \in DOMAIN spans', d \in DOMAIN contexts :
           Current(x, d)' /\ Recording(x)' => x \in DOMAIN spans /\ Current(x, d)
    BY <1>1, <1>8, CurrentMoved
  <2>8. \A i \in DOMAIN spans' \ DOMAIN spans :
           ~spans'[i].linked /\ GoesWith(spans[i].tracestate, spans[i].trace)'
    BY <1>1
  <2> PICK trace : trace = spans[r].trace
    OBVIOUS
  <2>9. ClaimFits(c, new.cause, trace)
    BY <2>6 DEF ClaimFits
  <2> QED BY <1>11, <1>12, <1>13, <2>1, <2>2, <2>5, <2>7, <2>8, <2>9, AddContextCausal
<1> QED BY <1>12, <1>14 DEF IInv, Struct, Causal

LEMMA FireContextlessIInv ==
    ASSUME IInv, NEW t \in Task, FireContextless(t)
    PROVE  IInv'
<1> PICK c : c = Len(contexts) + 1
  OBVIOUS
<1> PICK s : s = Len(spans) + 1
  OBVIOUS
<1> PICK p : p = Resolve(t, None)
  OBVIOUS
<1> PICK k : k = causes + 1
  OBVIOUS
<1>1. /\ TypeOK /\ Struct /\ Runs(t) /\ c <= MaxContexts /\ s <= MaxSpans
      /\ DOMAIN contexts = 1 .. Len(contexts) /\ Len(contexts) \in Nat
      /\ DOMAIN spans = 1 .. Len(spans) /\ Len(spans) \in Nat
      /\ causes \in Nat /\ causes' = causes + 1 /\ running' = running /\ registry' = registry
      /\ SpansRefer /\ TasksRefer /\ ContextsRefer /\ LinkAgreement /\ MaxSpans \in Nat
  BY Lengths, IInvParts, ContextLinkingAssumption DEF IInv, TypeOK, FireContextless
<1>2. /\ p \in [span : 0 .. Len(spans), tracestate : Nat]
      /\ Recording(task[t].current) =>
            p = [span |-> task[t].current, tracestate |-> spans[task[t].current].tracestate]
  BY <1>1, ResolveFacts DEF None
<1>3. ~Recording(task[t].current) => p.span = None
  BY DEF Resolve, Root, From
<1>4. /\ p.span \in 0 .. Len(spans) /\ p.tracestate \in Nat
      /\ Recording(task[t].current) =>
            /\ p.span = task[t].current /\ p.tracestate = spans[task[t].current].tracestate
      /\ p.span # None => Recording(p.span)
  BY <1>2, <1>3
<1>5. Begun(s, p, None, FALSE)
  <2>1. spans' = Append(spans, ChildOf(spans, p, None, FALSE))
    BY DEF FireContextless
  <2> QED BY <1>1, <1>2, <2>1, ChildFacts DEF None
<1> PICK new : new = NewContext(None, k)
  OBVIOUS
<1>6. /\ new \in Context /\ new.parent = None /\ new.cause = k /\ k \in Nat
      /\ new.traceparent = None /\ new.tracestate = None /\ new.otel = None /\ ~new.carried
  <2>1. k \in Nat /\ None \in ContextIds \cup {None}
    BY <1>1
  <2> QED BY <2>1, NewContextFacts
<1>7. Made(c, new) /\ Len(contexts) <= Len(contexts')
  <2>1. contexts' = Append(contexts, new)
    BY DEF FireContextless
  <2> QED BY <1>1, <1>6, <2>1, MadeFacts
<1>8. Entered(t, s, c, TRUE)
  <2>1. Enter(t, s, c, TRUE) /\ s \in SpanIds /\ c \in ContextIds \cup {None}
    <3>1. Enter(t, s, c, TRUE)
      BY DEF FireContextless
    <3>2. s \in SpanIds
      BY <1>1 DEF SpanIds
    <3> QED BY <1>7, <3>1, <3>2 DEF Made
  <2> QED BY <1>1, <2>1, EnterFacts
<1>9. /\ SpansKept /\ s \notin DOMAIN spans /\ DOMAIN spans' = DOMAIN spans \cup {s}
      /\ \A i \in DOMAIN spans : Recording(i)' <=> Recording(i)
  BY <1>1, <1>5, BegunKeeps
<1>10. TypeOK'
  <2>1. spans' \in Seq(Span) /\ Len(spans') <= MaxSpans
    BY <1>1, <1>5 DEF Begun
  <2>2. contexts' \in Seq(Context) /\ Len(contexts') <= MaxContexts
    BY <1>1, <1>7 DEF Made
  <2>3. task' \in [Task -> TaskState]
    BY <1>8 DEF Entered, Only
  <2> QED BY <1>1, <1>7, <1>9, <2>1, <2>2, <2>3 DEF TypeOK, Made
<1>11. Struct'
  <2>1. c \in 0 .. Len(contexts')
    BY <1>1, <1>7 DEF Made
  <2>2. None \in Nat /\ None <= causes' /\ causes <= causes'
    BY <1>1 DEF None
  <2> QED BY <1>1, <1>4, <1>5, <1>7, <1>8, <1>10, <2>1, <2>2, PushStruct
<1>12. \A u \in Task : RequestKept(u)
  <2>1. ASSUME NEW u \in Task, task'[u].request PROVE RequestKept(u)
    <3>1. task[u].request /\ 1 \in DOMAIN Open(u)
      <4>1. task[u].request
        BY <1>8, <2>1 DEF Entered, Only
      <4>2. Open(u) # <<>>
        BY <4>1 DEF IInv, RequestsAreNew, RequestIsNew
      <4> QED BY <1>1, <4>1, <4>2, ElementTypes, EmptySeq
    <3>2. 1 \in DOMAIN Open(u)' /\ Open(u)'[1] = Open(u)[1]
      <4>1. CASE u = t
        BY <1>1, <1>8, <3>1, <4>1, ElementTypes DEF Entered
      <4>2. CASE u # t
        BY <1>8, <3>1, <4>2 DEF Entered, Only, Open
      <4> QED BY <4>1, <4>2
    <3>3. Open(u)' # <<>>
      BY <3>2
    <3> QED BY <1>8, <3>1, <3>2, <3>3 DEF Entered, Only, RequestKept, RequestSpan
  <2> QED BY <2>1 DEF RequestKept
<1>13. /\ \A i \in DOMAIN spans : spans[i].cause # k
       /\ \A d \in DOMAIN contexts : contexts[d].cause # k
  <2>1. \A i \in DOMAIN spans : spans[i].cause <= causes /\ spans[i].cause \in Nat
    BY <1>1, ElementTypes DEF SpansRefer, Span
  <2>2. \A d \in DOMAIN contexts : contexts[d].cause \in 1 .. causes
    BY <1>1 DEF ContextsRefer
  <2> QED BY <1>1, <2>1, <2>2
<1>14. Causal'
  <2>1. c \notin DOMAIN registry'
    BY <1>1, <1>7 DEF TypeOK, Made
  <2>2. Added(c, new)
    BY <1>1, <1>6, <1>7, <2>1 DEF Added, Made
  <2>3. CauseFits(new)
    <3>1. \A u \in Task : task'[u].request => spans[RequestSpan(u)].cause # k
      BY <1>12, <1>13, RequestFacts DEF RequestKept
    <3>2. k \in 1 .. causes' /\ causes' \in Nat /\ causes <= causes'
      BY <1>1
    <3> QED BY <1>6, <1>13, <3>1, <3>2 DEF CauseFits
  <2>4. CarrierFits(new)
    BY <1>1, <1>6, <1>13 DEF CarrierFits, LinkedTo, None
  <2> PICK trace : trace = spans'[s].trace
    OBVIOUS
  <2>5. ClaimFits(c, new.cause, trace)
    <3>1. \A w : ~Claims(k, w)
      BY <1>13 DEF Claims, LinkedTo
    <3>2. \A x : Current(x, c)' => x = s
      <4>1. ASSUME NEW x, Current(x, c)' PROVE x = s \/ Current(x, c)
        BY <1>8, <4>1, CurrentEntered
      <4> QED BY <1>1, <4>1, CurrentRefers
    <3>3. ~spans'[s].linked
      BY <1>5 DEF Begun
    <3> QED BY <1>6, <3>1, <3>2, <3>3 DEF ClaimFits
  <2>6. \A x \in DOMAIN spans', d \in DOMAIN contexts :
           Current(x, d)' /\ Recording(x)' => x \in DOMAIN spans /\ Current(x, d)
    <3> SUFFICES ASSUME NEW x \in DOMAIN spans', NEW d \in DOMAIN contexts, Current(x, d)'
                 PROVE  x \in DOMAIN spans /\ Current(x, d)
      OBVIOUS
    <3>1. d # c
      BY <1>1
    <3>2. Current(x, d)
      <4>1. (x = s /\ d = c) \/ Current(x, d)
        <5>1. ASSUME NEW y, NEW e, Current(y, e)' PROVE (y = s /\ e = c) \/ Current(y, e)
          BY <1>8, <5>1, CurrentEntered, ZenonT(40)
        <5> QED BY <5>1
      <4> QED BY <3>1, <4>1
    <3> QED BY <1>1, <1>9, <3>2, CurrentRefers
  <2>7. \A i \in DOMAIN spans' \ DOMAIN spans :
           ~spans'[i].linked /\ GoesWith(spans[i].tracestate, spans[i].trace)'
    <3>1. p.span # None =>
             /\ p.span \in DOMAIN spans /\ GoesWith(p.tracestate, spans[p.span].trace)
      <4>1. p.span # None => p.span \in DOMAIN spans
        BY <1>1, <1>4 DEF None
      <4>2. p.span # None => p.tracestate = spans[p.span].tracestate
        BY <1>3, <1>4
      <4> QED BY <4>1, <4>2 DEF IInv, TracestateStays
    <3>2. \A i \in DOMAIN spans' : GoesWith(spans[i].tracestate, spans[i].trace)'
      BY <1>5, <3>1, ChildGoesWith
    <3> QED BY <1>5, <1>9, <3>2 DEF Begun
  <2> QED BY <1>9, <1>10, <1>12, <2>2, <2>3, <2>4, <2>5, <2>6, <2>7, AddContextCausal
<1> QED BY <1>11, <1>14 DEF IInv, Struct, Causal

(* What both wrappers do; the context they link is replaced by new.         *)
LEMMA StartIInv ==
    ASSUME IInv, NEW t \in Task, NEW c, c = task[t].context, NEW sync \in BOOLEAN,
           StartFor(t, c), NEW s, s = Len(spans) + 1, Enter(t, s, c, sync),
           running' = running, causes' = causes,
           NEW new \in Context, contexts' = [contexts EXCEPT ![c] = new],
           new.parent = contexts[c].parent, new.cause = contexts[c].cause,
           new.otel = s, new.traceparent = s,
           new.tracestate = Kept(Resolve(t, c).tracestate, contexts[c].tracestate)
    PROVE  IInv'
<1> PICK p : p = Resolve(t, c)
  OBVIOUS
<1> PICK k : k = contexts[c].cause
  OBVIOUS
<1>1. /\ TypeOK /\ Struct /\ Runs(t) /\ c # None /\ s <= MaxSpans
      /\ DOMAIN contexts = 1 .. Len(contexts) /\ Len(contexts) \in Nat
      /\ DOMAIN spans = 1 .. Len(spans) /\ Len(spans) \in Nat
      /\ causes \in Nat /\ registry' = Register(c, s)
      /\ SpansRefer /\ TasksRefer /\ ContextsRefer /\ LinkAgreement /\ MaxSpans \in Nat
  BY Lengths, IInvParts, ContextLinkingAssumption DEF IInv, TypeOK, StartFor
<1>2. c \in DOMAIN contexts /\ c \in ContextIds /\ c \in 0 .. Len(contexts)
  <2>1. c \in 0 .. Len(contexts)
    BY <1>1 DEF TasksRefer
  <2> QED BY <1>1, <2>1, ContextLinkingAssumption DEF None, ContextIds, TypeOK
<1>3. k \in 1 .. causes /\ k \in Nat
  BY <1>1, <1>2 DEF ContextsRefer
<1>4. /\ p \in [span : 0 .. Len(spans), tracestate : Nat]
      /\ Recording(task[t].current) =>
            p = [span |-> task[t].current, tracestate |-> spans[task[t].current].tracestate]
  BY <1>1, <1>2, ResolveFacts
<1>5. /\ p.span \in 0 .. Len(spans)
      /\ Recording(task[t].current) => p.span = task[t].current
  BY <1>4
<1>6. Begun(s, p, k, TRUE)
  <2>1. spans' = Append(spans, ChildOf(spans, p, k, TRUE))
    BY DEF StartFor
  <2> QED BY <1>1, <1>3, <1>4, <2>1, ChildFacts
<1>7. Entered(t, s, c, sync)
  <2>1. s \in SpanIds /\ c \in ContextIds \cup {None}
    BY <1>1, <1>2 DEF SpanIds
  <2> QED BY <1>1, <2>1, EnterFacts
<1>8. /\ SpansKept /\ s \notin DOMAIN spans /\ DOMAIN spans' = DOMAIN spans \cup {s}
      /\ \A i \in DOMAIN spans : Recording(i)' <=> Recording(i)
  BY <1>1, <1>6, BegunKeeps
<1>9. /\ contexts' \in Seq(Context) /\ Len(contexts') = Len(contexts)
      /\ DOMAIN contexts' = DOMAIN contexts
      /\ \A d \in DOMAIN contexts \ {c} : contexts'[d] = contexts[d]
      /\ contexts'[c] = new
  BY <1>1, <1>2 DEF TypeOK
<1>10. LinkedAt(c, s, p.tracestate)
  BY <1>1, <1>9 DEF LinkedAt
<1>11. /\ DOMAIN registry' = DOMAIN registry \cup {c}
       /\ \A d \in DOMAIN registry' : registry'[d] \in DOMAIN spans'
  <2>1. \A d \in DOMAIN registry' : registry'[d] = s \/ (d \in DOMAIN registry /\ registry'[d] = registry[d])
    BY <1>1 DEF Register
  <2> QED BY <1>1, <1>8, <2>1 DEF Register, TypeOK
<1>12. TypeOK'
  <2>1. spans' \in Seq(Span) /\ Len(spans') <= MaxSpans
    BY <1>1, <1>6 DEF Begun
  <2>2. task' \in [Task -> TaskState]
    BY <1>7 DEF Entered, Only
  <2> QED BY <1>1, <1>2, <1>9, <1>11, <2>1, <2>2 DEF TypeOK
<1>13. Struct'
  <2>1. k <= causes' /\ causes <= causes'
    BY <1>1, <1>3
  <2>2. c \in 0 .. Len(contexts') /\ Len(contexts) <= Len(contexts')
    BY <1>1, <1>2, <1>9
  <2> QED BY <1>1, <1>3, <1>5, <1>6, <1>7, <1>12, <2>1, <2>2, PushStruct
<1>14. Causal'
  BY <1>1, <1>2, <1>3, <1>6, <1>7, <1>10, <1>12, StartCausal
<1> QED BY <1>13, <1>14 DEF IInv, Struct, Causal

LEMMA StartTypes ==
    ASSUME IInv, NEW t \in Task, StartFor(t, task[t].context)
    PROVE  /\ contexts[task[t].context] \in Context /\ Len(spans) + 1 \in SpanIds
           /\ Resolve(t, task[t].context).tracestate \in Nat
<1> PICK c : c = task[t].context
  OBVIOUS
<1>1. /\ TypeOK /\ c # None /\ Len(spans) + 1 <= MaxSpans /\ MaxSpans \in Nat
      /\ DOMAIN contexts = 1 .. Len(contexts) /\ Len(contexts) \in Nat /\ Len(spans) \in Nat
      /\ c \in 0 .. Len(contexts) /\ TasksRefer /\ ContextsRefer /\ LinkAgreement
  BY Lengths, ContextLinkingAssumption DEF IInv, StartFor, TasksRefer
<1>2. Resolve(t, c) \in [span : 0 .. Len(spans), tracestate : Nat]
  BY <1>1, ResolveFacts
<1>3. Resolve(t, c).tracestate \in Nat
  BY <1>2
<1>4. c \in DOMAIN contexts
  BY <1>1 DEF None
<1> QED BY <1>1, <1>3, <1>4, ElementTypes DEF SpanIds

LEMMA FireEventIInv ==
    ASSUME IInv, NEW t \in Task, FireEvent(t)
    PROVE  IInv'
<1> PICK c, s : c = task[t].context /\ s = Len(spans) + 1
  OBVIOUS
<1> PICK ts : ts = Resolve(t, c).tracestate
  OBVIOUS
<1> PICK old : old = contexts[c]
  OBVIOUS
<1> PICK new : new = [Linked(old, s, ts) EXCEPT !.carried = TRUE]
  OBVIOUS
<1>1. old \in Context /\ s \in SpanIds /\ ts \in Nat
  BY StartTypes DEF FireEvent
<1>2. /\ new \in Context /\ new.parent = old.parent /\ new.cause = old.cause
      /\ new.traceparent = s /\ new.otel = s /\ new.tracestate = Kept(ts, old.tracestate)
  BY <1>1 DEF Linked, Kept, Context
<1>3. contexts' = [contexts EXCEPT ![c] = new]
  BY DEF FireEvent
<1>4. StartFor(t, c) /\ Enter(t, s, c, TRUE) /\ running' = running /\ causes' = causes
  BY DEF FireEvent
<1> QED BY <1>2, <1>3, <1>4, StartIInv, ZenonT(40)

LEMMA CallServiceIInv ==
    ASSUME IInv, NEW t \in Task, CallService(t)
    PROVE  IInv'
<1> PICK c, s : c = task[t].context /\ s = Len(spans) + 1
  OBVIOUS
<1> PICK ts : ts = Resolve(t, c).tracestate
  OBVIOUS
<1> PICK old : old = contexts[c]
  OBVIOUS
<1> PICK new : new = Linked(old, s, ts)
  OBVIOUS
<1>1. old \in Context /\ s \in SpanIds /\ ts \in Nat
  BY StartTypes DEF CallService
<1>2. /\ new \in Context /\ new.parent = old.parent /\ new.cause = old.cause
      /\ new.traceparent = s /\ new.otel = s /\ new.tracestate = Kept(ts, old.tracestate)
  BY <1>1 DEF Linked, Kept, Context
<1>3. contexts' = [contexts EXCEPT ![c] = new]
  BY DEF CallService
<1>4. StartFor(t, c) /\ Enter(t, s, c, FALSE) /\ running' = running /\ causes' = causes
  BY DEF CallService
<1> QED BY <1>2, <1>3, <1>4, StartIInv

(* The spans of a request: the remote one, if it names one, and its own.    *)
Asked(s, w, k, ts) ==
    /\ w = Len(spans) + 1 /\ s \in {w, w + 1} /\ s <= MaxSpans
    /\ spans' \in Seq(Span) /\ Len(spans') = s /\ DOMAIN spans' = 1 .. s
    /\ \A i \in DOMAIN spans : spans'[i] = spans[i]
    /\ \A i \in w .. s : /\ spans'[i].linked /\ spans'[i].cause = k /\ spans'[i].trace = w
                         /\ spans'[i].tracestate = spans'[w].tracestate
    /\ spans'[s].open
    /\ s = w => spans'[s].sampled
    /\ s # w => ~spans'[w].open
    /\ spans'[w].tracestate = None \/ spans'[w].tracestate = ts
    /\ s # w => spans'[w].tracestate = ts

LEMMA AskedFacts ==
    ASSUME TypeOK, NEW t \in Task, NEW traceparent, NEW brings \in BOOLEAN,
           Request(t, traceparent, brings), NEW k \in Nat, k = causes + 1,
           NEW ts \in Nat, ts = IF brings THEN k ELSE None
    PROVE  Asked(IF traceparent \in Remote THEN Len(spans) + 2 ELSE Len(spans) + 1,
                 Len(spans) + 1, k, ts)
<1> PICK n \in Nat : n = Len(spans)
  BY Lengths
<1>1. /\ spans \in Seq(Span) /\ DOMAIN spans = 1 .. n /\ MaxSpans \in Nat
  BY Lengths, ContextLinkingAssumption DEF TypeOK
<1>2. CASE traceparent \in Remote
  <2> PICK sampled \in BOOLEAN : sampled = (traceparent = "sampled")
    OBVIOUS
  <2> PICK remote : remote = RemoteSpan(sampled, ts, k)
    OBVIOUS
  <2> PICK named : named = Append(spans, remote)
    OBVIOUS
  <2>1. n + 2 <= MaxSpans /\ Len(named) = n + 1
    BY <1>1, <1>2 DEF Request
  <2>2. /\ remote \in Span /\ remote.trace = n + 1 /\ remote.sampled = sampled
        /\ ~remote.open /\ remote.tracestate = ts /\ remote.cause = k /\ remote.linked
    BY <1>1, <2>1 DEF RemoteSpan, Span, SpanIds
  <2>3. /\ named \in Seq(Span) /\ DOMAIN named = 1 .. n + 1
        /\ named[n + 1] = remote /\ \A i \in 1 .. n : named[i] = spans[i]
    BY <1>1, <2>2, AppendGrows DEF Grown
  <2> PICK parent : parent = From(n + 1, ts)
    OBVIOUS
  <2>11. PICK own : own = ChildOf(named, parent, k, TRUE)
    OBVIOUS
  <2>4. /\ own \in Span /\ own.trace = n + 1 /\ own.open
        /\ own.tracestate = ts /\ own.cause = k /\ own.linked
    <3>1. parent.span = n + 1 /\ parent.tracestate = ts /\ n + 1 # None
      BY DEF From, None
    <3>2. /\ own.trace = IF parent.span = None THEN Len(named) + 1
                         ELSE named[parent.span].trace
          /\ own.open /\ own.tracestate = parent.tracestate /\ own.cause = k /\ own.linked
      BY <2>11 DEF ChildOf
    <3>3. named[parent.span].trace = n + 1 /\ named[parent.span].sampled = sampled
      BY <2>2, <2>3, <3>1
    <3>4. n + 1 \in SpanIds
      BY <1>1, <2>1 DEF SpanIds
    <3>5. own \in Span
      BY <2>11, <3>1, <3>3, <3>4 DEF ChildOf, Span
    <3> QED BY <3>1, <3>2, <3>3, <3>5
  <2>5. spans' = Append(named, own)
    BY <1>2, <2>1, <2>11 DEF Request
  <2>6. /\ spans' \in Seq(Span) /\ DOMAIN spans' = 1 .. n + 2 /\ Len(spans') = n + 2
        /\ spans'[n + 2] = own /\ \A i \in 1 .. n + 1 : spans'[i] = named[i]
    <3>1. /\ Append(named, own) \in Seq(Span) /\ Len(Append(named, own)) = Len(named) + 1
          /\ Grown(named, Append(named, own))
          /\ Append(named, own)[Len(named) + 1] = own
          /\ DOMAIN Append(named, own) = 1 .. Len(named) + 1
      <4>1. named \in Seq(Span) /\ own \in Span
        BY <2>3, <2>4
      <4> QED BY <4>1, AppendGrows DEF Grown
    <3>2. Len(named) + 1 = n + 2
      BY <2>1
    <3> QED BY <2>3, <2>5, <3>1, <3>2 DEF Grown
  <2>7. /\ spans'[n + 1] = remote /\ \A i \in DOMAIN spans : spans'[i] = spans[i]
    BY <1>1, <2>3, <2>6
  <2>8. \A i \in n + 1 .. n + 2 : i = n + 1 \/ i = n + 2
    OBVIOUS
  <2>9. \A i \in n + 1 .. n + 2 :
           /\ spans'[i].linked /\ spans'[i].cause = k /\ spans'[i].trace = n + 1
           /\ spans'[i].tracestate = ts
    <3> SUFFICES ASSUME NEW i \in n + 1 .. n + 2
                 PROVE  /\ spans'[i].linked /\ spans'[i].cause = k
                        /\ spans'[i].trace = n + 1 /\ spans'[i].tracestate = ts
      OBVIOUS
    <3>1. CASE spans'[i] = remote
      BY <2>2, <3>1
    <3>2. CASE spans'[i] = own
      BY <2>4, <3>2
    <3> QED BY <2>6, <2>7, <2>8, <3>1, <3>2
  <2>10. Asked(n + 2, n + 1, k, ts)
    BY <2>1, <2>2, <2>4, <2>6, <2>7, <2>9 DEF Asked
  <2> QED BY <1>2, <2>10
<1>3. CASE traceparent \notin Remote
  <2>8. PICK own : own = ChildOf(spans, Root, k, TRUE)
    OBVIOUS
  <2>1. n + 1 <= MaxSpans /\ spans' = Append(spans, own)
    BY <1>3, <2>8 DEF Request
  <2>2. Root.span = None /\ Root.tracestate = None /\ None \in Nat
    BY DEF Root, From, None
  <2>3. /\ own.trace = n + 1 /\ own.open /\ own.sampled
        /\ own.tracestate = None /\ own.cause = k /\ own.linked
    BY <2>2, <2>8 DEF ChildOf
  <2>4. own \in Span
    <3>1. n + 1 \in SpanIds
      BY <1>1, <2>1 DEF SpanIds
    <3> QED BY <2>2, <2>8, <3>1 DEF ChildOf, Span
  <2>5. /\ spans' \in Seq(Span) /\ DOMAIN spans' = 1 .. n + 1 /\ Len(spans') = n + 1
        /\ spans'[n + 1] = own /\ \A i \in 1 .. n : spans'[i] = spans[i]
    <3>1. /\ Append(spans, own) \in Seq(Span) /\ Len(Append(spans, own)) = Len(spans) + 1
          /\ Grown(spans, Append(spans, own))
          /\ Append(spans, own)[Len(spans) + 1] = own
          /\ DOMAIN Append(spans, own) = 1 .. Len(spans) + 1
      BY <1>1, <2>4, AppendGrows DEF Grown
    <3> QED BY <1>1, <2>1, <3>1 DEF Grown
  <2>6. \A i \in n + 1 .. n + 1 : i = n + 1
    OBVIOUS
  <2>7. Asked(n + 1, n + 1, k, ts)
    BY <1>1, <2>1, <2>3, <2>5, <2>6 DEF Asked
  <2> QED BY <1>3, <2>7
<1> QED BY <1>2, <1>3

LEMMA RequestIInv ==
    ASSUME IInv, NEW t \in Task, NEW traceparent, NEW brings \in BOOLEAN,
           Request(t, traceparent, brings)
    PROVE  IInv'
<1> PICK w : w = Len(spans) + 1
  OBVIOUS
<1> PICK s : s = IF traceparent \in Remote THEN Len(spans) + 2 ELSE Len(spans) + 1
  OBVIOUS
<1>1. /\ TypeOK /\ Struct /\ running = <<>> /\ running' = <<t>>
      /\ contexts' = contexts /\ registry' = registry /\ causes' = causes + 1
      /\ DOMAIN contexts = 1 .. Len(contexts) /\ Len(contexts) \in Nat
      /\ DOMAIN spans = 1 .. Len(spans) /\ Len(spans) \in Nat
      /\ causes \in Nat /\ MaxSpans \in Nat
      /\ SpansRefer /\ TasksRefer /\ FramesNest
  BY Lengths, IInvParts, ContextLinkingAssumption DEF IInv, TypeOK, Request
<1> PICK k : k = causes + 1
  OBVIOUS
<1> PICK ts : ts = IF brings THEN k ELSE None
  OBVIOUS
<1>2. k \in Nat /\ ts \in Nat /\ k >= 1
  BY <1>1 DEF None
<1>3. Asked(s, w, k, ts)
  BY <1>1, <1>2, AskedFacts
<1>4. /\ w \in Nat /\ s \in Nat /\ w >= 1 /\ s >= w /\ s \in SpanIds /\ w \in SpanIds
      /\ DOMAIN spans' = DOMAIN spans \cup (w .. s)
      /\ \A i \in w .. s : i \notin DOMAIN spans /\ i # None /\ i # Bad
      /\ s \in w .. s /\ w \in w .. s
      /\ \A i \in DOMAIN spans : spans'[i] = spans[i]
      /\ Len(spans') = s /\ Len(spans) <= Len(spans')
  BY <1>1, <1>3 DEF Asked, SpanIds, None, Bad
<1> PICK carrier : carrier = IF traceparent = "bad" THEN Bad
                             ELSE IF traceparent \in Remote THEN w ELSE None
  OBVIOUS
<1>5. /\ carrier = w \/ carrier \in {None, Bad}
      /\ s # w => carrier = w
      /\ carrier = w => s # w
  BY <1>1, <1>4 DEF Remote, None, Bad, SpanIds
<1> PICK frame : frame = [span |-> s, before |-> None, context |-> None, sync |-> FALSE]
  OBVIOUS
<1>6. /\ frame \in Frame /\ frame.span = s /\ frame.before = None /\ frame.context = None
      /\ frame.sync = FALSE
  BY <1>4 DEF Frame
<1>7. <<frame>> \in Seq(Frame) /\ Len(<<frame>>) = 1 /\ <<frame>>[1] = frame /\ DOMAIN <<frame>> = {1}
  BY <1>6
<1>8. PICK state \in TaskState :
         /\ task' = [task EXCEPT ![t] = state]
         /\ state.status = "running" /\ state.current = s /\ state.context = None
         /\ state.carrier = carrier /\ state.tracestate = ts /\ state.request
         /\ state.open = <<frame>>
  <2> DEFINE state == [status |-> "running", current |-> s, context |-> None,
                       carrier |-> carrier, tracestate |-> ts, request |-> TRUE,
                       open |-> <<frame>>]
  <2>1. carrier \in SpanIds \cup {None, Bad}
    BY <1>4, <1>5
  <2>2. state \in TaskState
    BY <1>2, <1>4, <1>7, <2>1 DEF TaskState
  <2>3. task' = [task EXCEPT ![t] = state]
    <3>1. traceparent \in Remote => traceparent # "bad"
      BY DEF Remote
    <3>2. CASE traceparent \in Remote
      <4> PICK named : named = Append(spans, RemoteSpan(traceparent = "sampled", ts, k))
        OBVIOUS
      <4>1. Len(named) = w /\ Len(named) + 1 = s
        BY <1>1, <3>2
      <4> QED BY <3>1, <3>2, <4>1 DEF Request, From
    <3>3. CASE traceparent \notin Remote
      BY <3>3 DEF Request, Root, From
    <3> QED BY <3>2, <3>3
  <2> QED BY <2>2, <2>3
<1>9. Only(t) /\ task'[t] = state
  BY <1>1, <1>8, OnlyOne
<1>10. /\ Open(t)' = <<frame>> /\ Open(t)' # <<>> /\ DOMAIN Open(t)' = {1} /\ Open(t)'[1] = frame
       /\ Len(Open(t)') = 1
       /\ RequestSpan(t)' = s
       /\ \A u \in Task \ {t} : task'[u] = task[u] /\ Open(u)' = Open(u)
  <2>1. Open(t)' = <<frame>>
    BY <1>8, <1>9 DEF Open
  <2>2. DOMAIN Open(t)' = {1} /\ Open(t)'[1] = frame /\ Len(Open(t)') = 1
    BY <1>7, <2>1
  <2>3. Open(t)' # <<>> /\ RequestSpan(t)' = s
    BY <1>6, <2>2 DEF RequestSpan
  <2>4. \A u \in Task \ {t} : task'[u] = task[u] /\ Open(u)' = Open(u)
    BY <1>9 DEF Only, Open
  <2> QED BY <2>1, <2>2, <2>3, <2>4
<1>11. TypeOK'
  <2>1. spans' \in Seq(Span) /\ Len(spans') <= MaxSpans
    BY <1>3 DEF Asked
  <2>2. running' \in Seq(Task) /\ task' \in [Task -> TaskState]
    BY <1>1, <1>9 DEF Only
  <2> QED BY <1>1, <1>4, <2>1, <2>2 DEF TypeOK
<1>12. /\ SpansKept /\ \A i \in DOMAIN spans : Recording(i)' <=> Recording(i)
  BY <1>4 DEF SpansKept, Kept1, Recording
<1>13. \A i \in w .. s : /\ spans'[i].linked /\ spans'[i].cause = k /\ spans'[i].trace = w
                         /\ spans'[i].tracestate = spans'[w].tracestate
  BY <1>3 DEF Asked
<1>14. \A x : Unlinked(x)' => Unlinked(x) /\ spans'[x] = spans[x]
  BY <1>4, <1>13 DEF Unlinked
<1>15. Struct'
  <2>1. SpansRefer'
    <3>1. \A i \in DOMAIN spans : spans[i].cause \in Nat
      BY <1>1, ElementTypes DEF Span
    <3>2. \A i \in DOMAIN spans : spans[i].cause <= causes'
      BY <1>1, <3>1 DEF SpansRefer
    <3>3. k <= causes'
      BY <1>1
    <3> QED BY <1>1, <1>4, <1>13, <3>2, <3>3 DEF SpansRefer
  <2>2. TasksRefer'
    <3>1. \A x : /\ x \in 0 .. Len(spans) => x \in 0 .. Len(spans')
                 /\ x \in 1 .. Len(spans) => x \in 1 .. Len(spans')
      BY <1>1, <1>4
    <3>2. /\ s \in 1 .. Len(spans') /\ s \in 0 .. Len(spans')
          /\ None \in 0 .. Len(spans') /\ None \in 0 .. Len(contexts)
      BY <1>1, <1>4 DEF None
    <3>3. \A u \in Task \ {t} :
             /\ task'[u].current \in 0 .. Len(spans') /\ task'[u].context \in 0 .. Len(contexts')
             /\ \A j \in DOMAIN Open(u)' : /\ Open(u)'[j].span \in 1 .. Len(spans')
                                           /\ Open(u)'[j].before \in 0 .. Len(spans')
                                           /\ Open(u)'[j].context \in 0 .. Len(contexts')
      BY <1>1, <1>10, <3>1 DEF TasksRefer
    <3> QED BY <1>1, <1>6, <1>8, <1>9, <1>10, <3>2, <3>3 DEF TasksRefer
  <2>3. FramesNest'
    <3>1. \A u \in Task \ {t} : \A j \in DOMAIN Open(u) : Open(u)[j].span \in DOMAIN spans
      BY <1>1 DEF TasksRefer
    <3>2. /\ spans'[s].open /\ ~Unlinked(s)'
      BY <1>3, <1>4, <1>14 DEF Asked, Unlinked
    <3>3. \A u \in Task \ {t} : \A j \in DOMAIN Open(u)' :
             /\ spans'[Open(u)'[j].span].open
             /\ j > 1 => Open(u)'[j].before = Open(u)'[j - 1].span
             /\ Unlinked(Open(u)[j].span)' => Open(u)'[j].sync
      BY <1>1, <1>4, <1>10, <1>14, <3>1 DEF FramesNest
    <3>4. \A j \in DOMAIN Open(t)' :
             /\ spans'[Open(t)'[j].span].open
             /\ ~(j > 1)
             /\ ~Unlinked(Open(t)[j].span)'
      <4>1. Open(t)'[1].span = s
        BY <1>6, <1>10
      <4> QED BY <1>10, <3>2, <4>1 DEF Unlinked
    <3>5. \A u \in Task : Open(u)' # <<>> => task'[u].current = Open(u)'[Len(Open(u)')].span
      BY <1>1, <1>6, <1>8, <1>9, <1>10 DEF FramesNest
    <3>6. ASSUME NEW u \in Task, NEW v \in Task, NEW i \in DOMAIN Open(u)', NEW j \in DOMAIN Open(v)',
                 Open(u)'[i].span = Open(v)'[j].span
          PROVE  u = v /\ i = j
      <4>1. CASE u = t /\ v = t
        BY <1>10, <4>1
      <4>2. CASE u # t /\ v # t
        BY <1>1, <1>10, <3>6, <4>2 DEF FramesNest
      <4>3. CASE (u = t) # (v = t)
        BY <1>4, <1>6, <1>10, <3>1, <3>6, <4>3
      <4> QED BY <4>1, <4>2, <4>3
    <3>7. \A u \in Task : \A j \in DOMAIN Open(u)' :
             /\ spans'[Open(u)'[j].span].open
             /\ j > 1 => Open(u)'[j].before = Open(u)'[j - 1].span
             /\ Unlinked(Open(u)[j].span)' => Open(u)'[j].sync
      BY <3>3, <3>4
    <3> QED BY <3>5, <3>6, <3>7 DEF FramesNest
  <2>4. \A j \in DOMAIN Open(t)' : ~Unlinked(Open(t)[j].span)'
    BY <1>4, <1>6, <1>10, <1>13 DEF Unlinked
  <2> QED BY <1>1, <1>8, <1>9, <1>11, <1>14, <2>1, <2>2, <2>3, <2>4, BottomStruct
<1>16. FirstSpans(k, w)
  <2>1. \A i \in w .. s : GoesWith(spans[i].tracestate, spans[i].trace)'
    BY <1>13 DEF GoesWith
  <2> QED BY <1>4, <1>13, <2>1 DEF FirstSpans
<1>17. Requested(t, s)
  <2>1. spans'[s].sampled \/ carrier = w
    BY <1>3, <1>5 DEF Asked
  <2>2. carrier = w => spans'[w].tracestate = ts
    BY <1>3, <1>5 DEF Asked
  <2>3. GoesWith(task[t].tracestate, spans[s].trace)'
    BY <1>3, <1>4, <1>8, <1>9, <1>13 DEF Asked, GoesWith
  <2>4. task'[t].carrier = carrier /\ task'[t].tracestate = ts
    BY <1>8, <1>9
  <2>5. w \in DOMAIN spans' \ DOMAIN spans /\ s \in DOMAIN spans' \ DOMAIN spans
    BY <1>4
  <2>6. None \notin DOMAIN spans' /\ Bad \notin DOMAIN spans'
    BY <1>1, <1>4 DEF None, Bad, SpanIds
  <2>7. /\ carrier \in {None, Bad} \cup (DOMAIN spans' \ DOMAIN spans)
        /\ carrier \in DOMAIN spans' => spans'[carrier].tracestate = ts
        /\ spans'[s].sampled \/ carrier \in DOMAIN spans'
    BY <1>5, <2>1, <2>2, <2>5, <2>6
  <2> QED BY <1>10, <2>3, <2>4, <2>5, <2>7 DEF Requested
<1>18. \A x \in DOMAIN spans', d \in DOMAIN contexts : Current(x, d)' => Current(x, d)
  <2>1. \A d \in DOMAIN contexts : d # None
    BY <1>1 DEF None
  <2> QED BY <1>6, <1>8, <1>9, <1>10, <2>1 DEF Current
<1>19. Causal'
  BY <1>1, <1>2, <1>11, <1>12, <1>16, <1>17, <1>18, RequestCausal
<1> QED BY <1>15, <1>19 DEF IInv, Struct, Causal

-----------------------------------------------------------------------------
(* The invariant is inductive                                               *)

LEMMA InitIInv == Init => IInv
<1> SUFFICES ASSUME Init PROVE IInv
  OBVIOUS
<1>1. /\ spans = <<>> /\ contexts = <<>> /\ running = <<>> /\ causes = 0
      /\ DOMAIN registry = {} /\ task = [t \in Task |-> Idle]
  BY DEF Init
<1>2. /\ DOMAIN spans = {} /\ DOMAIN contexts = {} /\ DOMAIN running = {}
      /\ Len(spans) = 0 /\ Len(contexts) = 0
      /\ spans \in Seq(Span) /\ contexts \in Seq(Context) /\ running \in Seq(Task)
  BY <1>1
<1>3. \A t \in Task : /\ task[t] \in TaskState /\ task[t].current = None
                      /\ task[t].context = None /\ ~task[t].request
                      /\ Open(t) = <<>> /\ DOMAIN Open(t) = {}
  BY <1>1, IdleFacts DEF Open
<1>4. TypeOK
  <2>1. task \in [Task -> TaskState]
    BY <1>1, <1>3
  <2> QED BY <1>1, <1>2, <2>1, ContextLinkingAssumption DEF TypeOK
<1>5. SpansRefer /\ ContextsRefer /\ LinkAgreement
  BY <1>1, <1>2 DEF SpansRefer, ContextsRefer, LinkAgreement
<1>6. TasksRefer
  BY <1>2, <1>3 DEF TasksRefer, None
<1>7. FramesNest
  BY <1>3 DEF FramesNest
<1>8. StackIsRunning
  BY <1>2, <1>3 DEF StackIsRunning, InSyncBlock, Open
<1>9. UnlinkedAreOpen /\ Sheltered
  BY <1>2 DEF UnlinkedAreOpen, Sheltered
<1>10. ClaimsAgree /\ UnlinkedClaims
  BY <1>2 DEF ClaimsAgree, UnlinkedClaims, Claims
<1>11. LinkedIsCarried /\ OneParentless /\ ContextTracestates /\ TracestateStays
  BY <1>2 DEF LinkedIsCarried, OneParentless, ContextTracestates, TracestateStays
<1>12. RequestsAreNew
  BY <1>3 DEF RequestsAreNew
<1> QED BY <1>4, <1>5, <1>6, <1>7, <1>8, <1>9, <1>10, <1>11, <1>12 DEF IInv

LEMMA StutterIInv ==
    ASSUME IInv, UNCHANGED vars
    PROVE  IInv'
<1>1. /\ spans' = spans /\ contexts' = contexts /\ registry' = registry
      /\ task' = task /\ running' = running /\ causes' = causes
  BY DEF vars
<1>2. TypeOK'
  BY <1>1 DEF IInv, TypeOK
<1>3. /\ \A u \in Task : Open(u)' = Open(u)
      /\ causes \in Nat /\ Len(contexts) \in Nat
      /\ \A u \in Task : task[u].context \in 0 .. Len(contexts)
  BY <1>1, Lengths DEF Open, IInv, TypeOK, TasksRefer
<1>4. Struct'
  BY <1>1, <1>2, <1>3, IInvParts, StayStruct
<1>5. \A u \in Task : RequestKept(u)
  BY <1>1, <1>3 DEF RequestKept, RequestSpan, IInv, RequestsAreNew, RequestIsNew
<1>6. \A s : \A c : Current(s, c)' <=> Current(s, c)
  BY <1>1, <1>3 DEF Current
<1>7. Causal'
  BY <1>1, <1>2, <1>5, <1>6, SpansSame, QuietCausal
<1> QED BY <1>4, <1>7 DEF IInv, Struct, Causal

LEMMA NextIInv == IInv /\ [Next]_vars => IInv'
<1> SUFFICES ASSUME IInv, [Next]_vars PROVE IInv'
  OBVIOUS
<1>1. ASSUME NEW t \in Task, NEW carrier \in Carriers, Request(t, carrier[1], carrier[2])
      PROVE  IInv'
  <2>1. carrier[2] \in BOOLEAN
    BY ContextLinkingAssumption DEF AllCarriers
  <2> QED BY <1>1, <2>1, RequestIInv
<1>2. ASSUME NEW t \in Task, RequestContext(t) PROVE IInv'
  BY <1>2, RequestContextIInv
<1>3. ASSUME NEW t \in Task, Background(t) PROVE IInv'
  BY <1>3, BackgroundIInv
<1>4. ASSUME NEW t \in Task, FireEvent(t) PROVE IInv'
  BY <1>4, FireEventIInv
<1>5. ASSUME NEW t \in Task, FireContextless(t) PROVE IInv'
  BY <1>5, FireContextlessIInv
<1>6. ASSUME NEW t \in Task, CallService(t) PROVE IInv'
  BY <1>6, CallServiceIInv
<1>7. ASSUME NEW t \in Task, EndSpan(t) PROVE IInv'
  BY <1>7, EndSpanIInv
<1>8. ASSUME NEW t \in Task, ChildContext(t) PROVE IInv'
  BY <1>8, ChildContextIInv
<1>9. ASSUME NEW t \in Task, NEW c \in DOMAIN contexts, TakeUp(t, c) PROVE IInv'
  BY <1>9, TakeUpIInv
<1>10. ASSUME NEW t \in Task, NEW u \in Task, Spawn(t, u) PROVE IInv'
  BY <1>10, SpawnIInv
<1>11. ASSUME NEW t \in Task, Yield(t) PROVE IInv'
  BY <1>11, YieldIInv
<1>12. ASSUME NEW t \in Task, Resume(t) PROVE IInv'
  BY <1>12, ResumeIInv
<1>13. ASSUME NEW t \in Task, Finish(t) PROVE IInv'
  BY <1>13, FinishIInv
<1>14. CASE UNCHANGED vars
  BY <1>14, StutterIInv
<1> QED BY <1>1, <1>2, <1>3, <1>4, <1>5, <1>6, <1>7, <1>8, <1>9, <1>10, <1>11, <1>12,
           <1>13, <1>14 DEF Next

LEMMA Invariance == Spec => []IInv
BY InitIInv, NextIInv, PTL DEF Spec

-----------------------------------------------------------------------------
(* Types, and every reference names something that exists.                  *)
THEOREM TypeCorrect == Spec => []TypeOK
<1>1. IInv => TypeOK
  BY DEF IInv
<1> QED BY <1>1, Invariance, PTL

(* The registry, the cached span context and the carrier of a context       *)
(* always name the same span.                                               *)
THEOREM LinksAgree == Spec => []LinkAgreement
<1>1. IInv => LinkAgreement
  BY DEF IInv
<1> QED BY <1>1, Invariance, PTL

(* Everything done for one cause is in one trace, however many tasks work   *)
(* for it and however long after its first spans have ended.                *)
THEOREM TracesFollowCauses == Spec => []TraceFollowsCause
<1>1. IInv => TraceFollowsCause
  <2> SUFFICES ASSUME IInv, NEW i \in DOMAIN spans, NEW j \in DOMAIN spans,
                      spans[i].linked, spans[j].linked, spans[i].cause = spans[j].cause
               PROVE  spans[i].trace = spans[j].trace
    BY DEF TraceFollowsCause
  <2>1. /\ spans[i].cause \in Nat /\ spans[i].trace \in Nat /\ spans[j].trace \in Nat
    BY ElementTypes DEF IInv, Span, SpanIds
  <2>2. Claims(spans[i].cause, spans[i].trace) /\ Claims(spans[i].cause, spans[j].trace)
    BY DEF Claims, LinkedTo
  <2> QED BY <2>1, <2>2 DEF IInv, ClaimsAgree
<1> QED BY <1>1, Invariance, PTL

(* Spans and the carriers that contexts send out keep the tracestate that   *)
(* their trace began with.                                                  *)
THEOREM TracestatesStay == Spec => []TracestateStays
<1>1. IInv => TracestateStays
  BY DEF IInv
<1> QED BY <1>1, Invariance, PTL
=============================================================================
