-------------------------- MODULE MqttFlowProofs --------------------------
(* Proofs about MqttFlow for every set of topics and payloads, any number   *)
(* of messages at the broker and of publishes.                              *)
EXTENDS MqttFlow, MqttCorrelationProofs

(* Why the parents are right: trace fields of ours name the publish that    *)
(* caused the message, and whatever the table answers is the newest publish.*)
FieldsNameCause ==
    \A m \in network :
        /\ m.fields \in 0 .. MaxPublish \cup {Foreign, Unreadable}
        /\ m.fields \in 1 .. MaxPublish => m.fields = m.cause

PublishesBounded == Len(published) <= MaxPublish

FlowInv == /\ IInv /\ PublishesBounded
           /\ FlowTypeOK /\ FieldsNameCause
           /\ NeverOlderParent /\ TaggedIsExact

(* The part of the invariant that is about messages, and the part that is   *)
(* about the last message handled.                                          *)
MessagesOK == /\ network \subseteq Message
              /\ \A m \in network : m.cause <= Len(published)
              /\ FieldsNameCause

ReceiptOK == received \in Receipt \cup {None} /\ NeverOlderParent /\ TaggedIsExact

LEMMA FlowInvParts ==
    FlowInv <=> /\ IInv /\ PublishesBounded /\ is_mqttv5 \in BOOLEAN
                /\ MessagesOK /\ ReceiptOK
BY DEF FlowInv, FlowTypeOK, MessagesOK, ReceiptOK

-----------------------------------------------------------------------------
(* A message's topic and payload are ones the table can be asked about.     *)
LEMMA MessageType ==
    ASSUME MessagesOK, NEW m \in network
    PROVE  /\ m.topic \in Topics /\ m.payload \in Raw \cup {None}
           /\ m.fields \in Fields /\ m.cause \in Nat /\ m.cause <= Len(published)
BY DEF MessagesOK, Message

(* Every step is a step of the table or leaves it alone.                    *)
LEMMA FlowStepIsTableStep == ASSUME MessagesOK, [FlowNext]_allVars PROVE [Next]_vars
<1>1. ASSUME NEW topic \in PublishOn, NEW payload \in Payloads, NEW sampled \in BOOLEAN,
             PublishCalled(topic, payload, sampled)
      PROVE  [Next]_vars
  BY <1>1, FlowAssumption DEF PublishCalled, Next
<1>2. ASSUME NEW m \in network, NEW again \in BOOLEAN, Receive(m, again)
      PROVE  [Next]_vars
  <2>1. m.topic \in Topics /\ m.payload \in Raw \cup {None}
    BY MessageType
  <2>2. CASE UNCHANGED vars
    BY <2>2
  <2>3. CASE LookupHit(m.topic, m.payload) \/ LookupMiss(m.topic, m.payload)
    BY <2>1, <2>3 DEF Next
  <2> QED BY <1>2, <2>2, <2>3 DEF Receive
<1>3. ASSUME NEW m \in network, Lose(m) PROVE [Next]_vars
  BY <1>3 DEF Lose
<1>4. ASSUME NEW m \in network, NEW topic \in HearOn, NEW payload \in Payloads,
             NEW fields \in Fields, DeviceAnswers(m, topic, payload, fields)
      PROVE  [Next]_vars
  BY <1>4 DEF DeviceAnswers
<1>5. ASSUME NEW topic \in HearOn, NEW payload \in Payloads,
             NEW fields \in {NoFields, Foreign, Unreadable}, Unprompted(topic, payload, fields)
      PROVE  [Next]_vars
  BY <1>5 DEF Unprompted
<1>6. CASE PublishRefused \/ ReceiveUndecodable \/ UNCHANGED allVars
  BY <1>6 DEF PublishRefused, ReceiveUndecodable, allVars
<1>7. CASE TimePasses
  BY <1>7 DEF TimePasses, Next
<1> QED BY <1>1, <1>2, <1>3, <1>4, <1>5, <1>6, <1>7 DEF FlowNext

(* What the table is asked is answered with the newest publish.             *)
LEMMA AnswerIsNewest ==
    ASSUME IInv, NEW topic \in Topics, NEW text \in Texts, NEW p \in Answers(topic, text)
    PROVE  p = Len(published) /\ p \in DOMAIN published
<1>1. PICK j \in FirstHit(topic, text) : p = pending[Candidates[<<topic, text>>][j]].pub
  BY DEF Answers
<1>2. /\ Candidates[<<topic, text>>][j] \in Keys
      /\ pending[Candidates[<<topic, text>>][j]] # None
      /\ p \in DOMAIN published
  BY <1>1, FirstHitEntry
<1> QED BY <1>1, <1>2 DEF IInv, TableOfNewest

LEMMA FlowInitInv == FlowInit => FlowInv
<1> SUFFICES ASSUME FlowInit PROVE FlowInv
  OBVIOUS
<1>1. IInv
  BY InitIInv DEF FlowInit
<1>2. PublishesBounded
  BY BoundsAssumption DEF FlowInit, Init, PublishesBounded
<1>3. MessagesOK
  BY DEF FlowInit, MessagesOK, FieldsNameCause
<1>4. ReceiptOK
  BY DEF FlowInit, ReceiptOK, NeverOlderParent, TaggedIsExact
<1> QED BY <1>1, <1>2, <1>3, <1>4, FlowInvParts DEF FlowInit

-----------------------------------------------------------------------------
(* A message that is put on the network keeps the network as it should be,  *)
(* if its fields are.                                                       *)
LEMMA DeliverKeeps ==
    ASSUME MessagesOK, NEW m \in Message, m.cause <= Len(published)',
           m.fields \in 1 .. MaxPublish => m.fields = m.cause,
           Len(published) \in Nat, Len(published)' \in Nat, Len(published) <= Len(published)',
           network' \subseteq network \cup {m}
    PROVE  MessagesOK'
<1>1. \A n \in network : n \in Message /\ n.cause \in Nat /\ n.cause <= Len(published)
  BY DEF MessagesOK, Message
<1>2. m.cause \in Nat /\ m.fields \in Fields
  BY DEF Message
<1>3. \A n \in network' : n.cause <= Len(published)'
  BY <1>1, <1>2
<1>4. network' \subseteq Message
  BY <1>1
<1>5. \A n \in Message : n.fields \in 0 .. MaxPublish \cup {Foreign, Unreadable}
  BY BoundsAssumption DEF Message, Fields, Foreign, Unreadable
<1>6. \A n \in network' : n.fields \in 1 .. MaxPublish => n.fields = n.cause
  BY DEF MessagesOK, FieldsNameCause
<1> QED BY <1>3, <1>4, <1>5, <1>6 DEF MessagesOK, FieldsNameCause

(* A publish that leaves carries its own number, or no fields at all.       *)
LEMMA PublishKeeps ==
    ASSUME FlowInv, NEW topic \in PublishOn, NEW payload \in Payloads,
           NEW sampled \in BOOLEAN, PublishCalled(topic, payload, sampled)
    PROVE  FlowInv'
<1> DEFINE p == Len(published) + 1
           m == [topic |-> topic, payload |-> payload, fields |-> Inject(p, sampled), cause |-> p]
<1>1. IInv' /\ IInv /\ MessagesOK /\ ReceiptOK /\ PublishesBounded /\ is_mqttv5 \in BOOLEAN
  <2>1. IInv /\ MessagesOK /\ ReceiptOK /\ PublishesBounded /\ is_mqttv5 \in BOOLEAN
    BY FlowInvParts
  <2> QED BY <2>1, RegisterIInv, FlowAssumption DEF PublishCalled
<1>2. /\ Register(topic, payload) /\ UNCHANGED <<is_mqttv5, received>>
      /\ network' \subseteq network \cup {m}
  BY DEF PublishCalled, Deliverable
<1>3. /\ Len(published) \in Nat /\ Len(published)' = p
      /\ Len(published) < MaxPublish
  <2>1. published \in Seq(Publish) /\ published' \in Seq(Publish) /\ Len(published) < MaxPublish
    BY <1>1, <1>2 DEF IInv, TypeOK, Register
  <2>2. \E x : published' = Append(published, x)
    BY <1>2 DEF Register
  <2> QED BY <2>1, <2>2
<1>4. p \in 1 .. MaxPublish
  BY <1>3, BoundsAssumption
<1>5. m \in Message
  <2>1. Inject(p, sampled) \in Fields
    BY <1>4, BoundsAssumption DEF Inject, Fields, NoFields
  <2> QED BY <1>4, <2>1, FlowAssumption DEF Message
<1>6. m.cause = p /\ (m.fields \in 1 .. MaxPublish => m.fields = p)
  BY DEF Inject, NoFields
<1> HIDE DEF m
<1>7. MessagesOK'
  BY <1>1, <1>2, <1>3, <1>5, <1>6, DeliverKeeps
<1>8. ReceiptOK' /\ PublishesBounded' /\ is_mqttv5' \in BOOLEAN
  BY <1>1, <1>2, <1>3, <1>4 DEF ReceiptOK, NeverOlderParent, TaggedIsExact, PublishesBounded
<1> QED BY <1>1, <1>7, <1>8 DEF FlowInv, FlowTypeOK, MessagesOK, ReceiptOK

(* A message is given the span its fields name, or the newest publish.      *)
LEMMA ReceiveKeeps ==
    ASSUME FlowInv, NEW m \in network, NEW again \in BOOLEAN, Receive(m, again)
    PROVE  FlowInv'
<1>1. IInv /\ MessagesOK /\ ReceiptOK /\ PublishesBounded /\ is_mqttv5 \in BOOLEAN
  BY FlowInvParts
<1>2. /\ m.topic \in Topics /\ m.payload \in Raw \cup {None}
      /\ m.fields \in Fields /\ m.cause \in Nat /\ m.cause <= Len(published)
  BY <1>1, MessageType
<1>3. network' \subseteq network /\ is_mqttv5' = is_mqttv5 /\ published' = published
  BY DEF Receive, vars, LookupHit, LookupMiss
<1>4. [Next]_vars
  BY <1>1, FlowStepIsTableStep DEF FlowNext
<1>5. IInv'
  BY <1>1, <1>4, NextIInv
<1>6. MessagesOK' /\ PublishesBounded'
  BY <1>1, <1>3 DEF MessagesOK, FieldsNameCause, PublishesBounded
<1>7. m.fields \in 1 .. MaxPublish => m.fields = m.cause
  BY <1>1 DEF MessagesOK, FieldsNameCause
<1>8. Len(published) \in Nat /\ Len(published) <= MaxPublish /\ m.cause <= MaxPublish
  BY <1>1, <1>2, BoundsAssumption DEF IInv, TypeOK, PublishesBounded
<1>9. \A parent \in 0 .. MaxPublish + 1 :
        /\ received' = Received(m, parent)
        /\ parent = 0 \/ parent >= m.cause
        /\ m.fields \in 1 .. MaxPublish => parent = m.cause
        /\ parent = Foreign => m.fields = Foreign
        => ReceiptOK'
  <2> SUFFICES ASSUME NEW parent \in 0 .. MaxPublish + 1, received' = Received(m, parent),
                      parent = 0 \/ parent >= m.cause,
                      m.fields \in 1 .. MaxPublish => parent = m.cause,
                      parent = Foreign => m.fields = Foreign
               PROVE  ReceiptOK'
    OBVIOUS
  <2>1. /\ received'.fields = m.fields /\ received'.cause = m.cause
        /\ received'.parent = parent /\ received' \in Receipt
    BY <1>2 DEF Received, Receipt
  <2> QED BY <2>1 DEF ReceiptOK, NeverOlderParent, TaggedIsExact, Foreign
<1>10. ASSUME ~UsesTable(m), received' = Received(m, ParentFromCarrier(m.fields))
       PROVE  ReceiptOK'
  <2> DEFINE parent == ParentFromCarrier(m.fields)
  <2>1. parent \in 0 .. MaxPublish + 1 /\ (parent = m.fields \/ parent = 0)
    BY <1>2, BoundsAssumption DEF ParentFromCarrier, Fields, Unreadable
  <2>2. parent = 0 \/ parent >= m.cause
    <3>1. m.fields = NoFields \/ m.fields \in 1 .. MaxPublish
             \/ m.fields = Foreign \/ m.fields = Unreadable
      BY <1>2, BoundsAssumption DEF Fields, NoFields, Foreign, Unreadable
    <3> QED BY <1>2, <1>7, <1>8, <1>10, <2>1, <3>1, BoundsAssumption
            DEF UsesTable, ParentFromCarrier, Foreign, Unreadable
  <2>3. m.fields \in 1 .. MaxPublish => parent = m.cause
    BY <1>7, BoundsAssumption DEF ParentFromCarrier, Unreadable
  <2>4. parent = Foreign => m.fields = Foreign
    BY <2>1, BoundsAssumption DEF Foreign
  <2> HIDE DEF parent
  <2>5. received' = Received(m, parent)
    BY <1>10 DEF parent
  <2> QED BY <1>9, <2>1, <2>2, <2>3, <2>4, <2>5
<1>11. ASSUME UsesTable(m),
              \E p \in Answers(m.topic, Normalize(m.payload)) : received' = Received(m, p)
       PROVE  ReceiptOK'
  <2>1. PICK p \in Answers(m.topic, Normalize(m.payload)) : received' = Received(m, p)
    BY <1>11
  <2>2. Normalize(m.payload) \in Texts
    BY <1>2, NormalizeType
  <2>3. p = Len(published)
    BY <1>1, <1>2, <2>2, AnswerIsNewest
  <2>4. m.fields = 0
    BY <1>11 DEF UsesTable, NoFields
  <2> QED BY <1>2, <1>8, <1>9, <2>1, <2>3, <2>4, BoundsAssumption DEF Foreign
<1>12. ASSUME UsesTable(m), received' = Received(m, 0)
       PROVE  ReceiptOK'
  <2>1. m.fields = 0
    BY <1>12 DEF UsesTable, NoFields
  <2> QED BY <1>9, <1>12, <2>1, BoundsAssumption DEF Foreign
<1>13. ReceiptOK'
  <2>1. \/ ~UsesTable(m) /\ received' = Received(m, ParentFromCarrier(m.fields))
        \/ /\ UsesTable(m)
           /\ \E p \in Answers(m.topic, Normalize(m.payload)) : received' = Received(m, p)
        \/ UsesTable(m) /\ received' = Received(m, 0)
    BY DEF Receive
  <2> QED BY <1>10, <1>11, <1>12, <2>1
<1> QED BY <1>1, <1>3, <1>5, <1>6, <1>13 DEF FlowInv, FlowTypeOK, MessagesOK, ReceiptOK

(* A step of the broker or of another client only touches the network.      *)
LEMMA NetworkKeeps ==
    ASSUME FlowInv, UNCHANGED <<vars, is_mqttv5, received>>, MessagesOK'
    PROVE  FlowInv'
<1>1. IInv /\ ReceiptOK /\ PublishesBounded /\ is_mqttv5 \in BOOLEAN
  BY FlowInvParts
<1>2. IInv'
  BY <1>1, NextIInv
<1>3. ReceiptOK' /\ PublishesBounded'
  BY <1>1 DEF ReceiptOK, NeverOlderParent, TaggedIsExact, PublishesBounded, vars
<1> QED BY <1>1, <1>2, <1>3 DEF FlowInv, FlowTypeOK, MessagesOK, ReceiptOK

LEMMA FlowNextInv == FlowInv /\ [FlowNext]_allVars => FlowInv'
<1> SUFFICES ASSUME FlowInv, [FlowNext]_allVars PROVE FlowInv'
  OBVIOUS
<1>1. IInv /\ MessagesOK /\ ReceiptOK /\ PublishesBounded /\ Len(published) \in Nat
  BY FlowInvParts DEF IInv, TypeOK
<1>2. ASSUME NEW topic \in PublishOn, NEW payload \in Payloads, NEW sampled \in BOOLEAN,
             PublishCalled(topic, payload, sampled)
      PROVE  FlowInv'
  BY <1>2, PublishKeeps
<1>3. ASSUME NEW m \in network, NEW again \in BOOLEAN, Receive(m, again)
      PROVE  FlowInv'
  BY <1>3, ReceiveKeeps
<1>4. ASSUME NEW m \in network, Lose(m) PROVE FlowInv'
  <2>1. MessagesOK'
    BY <1>1, <1>4 DEF Lose, MessagesOK, FieldsNameCause, vars
  <2> QED BY <1>4, <2>1, NetworkKeeps DEF Lose
<1>5. ASSUME NEW m \in network, NEW topic \in HearOn, NEW payload \in Payloads,
             NEW fields \in Fields, DeviceAnswers(m, topic, payload, fields)
      PROVE  FlowInv'
  <2> DEFINE n == [topic |-> topic, payload |-> payload, fields |-> fields, cause |-> m.cause]
  <2>1. /\ m.cause \in Nat /\ m.cause <= Len(published)
        /\ m.fields \in 1 .. MaxPublish => m.fields = m.cause
    BY <1>1, MessageType DEF MessagesOK, FieldsNameCause
  <2>2. n \in Message /\ n.cause = m.cause /\ n.fields \in {NoFields, m.fields}
    BY <1>5, <2>1, FlowAssumption DEF Message, DeviceAnswers
  <2>3. network' = network \cup {n} /\ UNCHANGED <<vars, is_mqttv5, received>>
    BY <1>5 DEF DeviceAnswers, Deliverable
  <2> HIDE DEF n
  <2>4. n.fields \in 1 .. MaxPublish => n.fields = n.cause
    BY <2>1, <2>2 DEF NoFields
  <2>5. published' = published
    BY <2>3 DEF vars
  <2>6. MessagesOK'
    BY <1>1, <2>1, <2>2, <2>3, <2>4, <2>5, DeliverKeeps
  <2> QED BY <2>3, <2>6, NetworkKeeps
<1>6. ASSUME NEW topic \in HearOn, NEW payload \in Payloads,
             NEW fields \in {NoFields, Foreign, Unreadable}, Unprompted(topic, payload, fields)
      PROVE  FlowInv'
  <2> DEFINE n == [topic |-> topic, payload |-> payload, fields |-> fields, cause |-> 0]
  <2>1. fields \in Fields /\ fields \notin 1 .. MaxPublish
    BY BoundsAssumption DEF Fields, NoFields, Foreign, Unreadable
  <2>2. n \in Message /\ n.cause = 0 /\ n.fields = fields
    BY <2>1, FlowAssumption DEF Message
  <2>3. network' = network \cup {n} /\ UNCHANGED <<vars, is_mqttv5, received>>
    BY <1>6 DEF Unprompted, Deliverable
  <2> HIDE DEF n
  <2>4. published' = published
    BY <2>3 DEF vars
  <2>5. MessagesOK'
    BY <1>1, <2>1, <2>2, <2>3, <2>4, DeliverKeeps
  <2> QED BY <2>3, <2>5, NetworkKeeps
<1>7. CASE PublishRefused \/ ReceiveUndecodable \/ UNCHANGED allVars
  <2>1. UNCHANGED <<vars, is_mqttv5, received>> /\ network' = network
    BY <1>7 DEF PublishRefused, ReceiveUndecodable, allVars, flowVars
  <2>2. MessagesOK'
    BY <1>1, <2>1 DEF MessagesOK, FieldsNameCause, vars
  <2> QED BY <2>1, <2>2, NetworkKeeps
<1>8. CASE TimePasses
  <2>1. Tick /\ is_mqttv5' = is_mqttv5 /\ network' = network /\ received' = received
    BY <1>8 DEF TimePasses, flowVars
  <2>2. IInv' /\ published' = published
    BY <1>1, <2>1, TickIInv DEF Tick
  <2>3. MessagesOK' /\ ReceiptOK' /\ PublishesBounded'
    BY <1>1, <2>1, <2>2 DEF MessagesOK, FieldsNameCause, ReceiptOK, NeverOlderParent,
                            TaggedIsExact, PublishesBounded
  <2> QED BY <2>1, <2>2, <2>3 DEF FlowInv, FlowTypeOK, MessagesOK, ReceiptOK
<1> QED BY <1>2, <1>3, <1>4, <1>5, <1>6, <1>7, <1>8 DEF FlowNext

LEMMA FlowInvariance == FlowSpec => []FlowInv
BY FlowInitInv, FlowNextInv, PTL DEF FlowSpec

-----------------------------------------------------------------------------
(* What the broker and its clients do leaves the table what MqttCorrelation *)
(* says it is: everything that is proved there holds with them.             *)
THEOREM FlowIsCorrelation == FlowSpec => Spec
<1>1. FlowInit => Init
  BY DEF FlowInit
<1>2. FlowInv /\ [FlowNext]_allVars => [Next]_vars
  BY FlowInvParts, FlowStepIsTableStep
<1> QED BY <1>1, <1>2, FlowInvariance, PTL DEF FlowSpec, Spec

(* The types of the messages and of the last receipt.                       *)
THEOREM FlowTypeCorrect == FlowSpec => []FlowTypeOK
<1>1. FlowInv => FlowTypeOK
  BY DEF FlowInv
<1> QED BY <1>1, FlowInvariance, PTL

(* No message is ever traced to a publish older than its cause.             *)
THEOREM ParentsAreNewEnough == FlowSpec => []NeverOlderParent
<1>1. FlowInv => NeverOlderParent
  BY DEF FlowInv
<1> QED BY <1>1, FlowInvariance, PTL

(* A message with our own fields is traced to exactly its cause.            *)
THEOREM TaggedMessagesAreExact == FlowSpec => []TaggedIsExact
<1>1. FlowInv => TaggedIsExact
  BY DEF FlowInv
<1> QED BY <1>1, FlowInvariance, PTL

(* What is proved of the table holds with the broker and its clients: its   *)
(* matches are fresh, related and bounded in number, the newest publish is  *)
(* found, and it is the only one outstanding.                               *)
THEOREM FlowKeepsTable ==
    FlowSpec => [](TypeOK /\ FreshMatch /\ RelatedMatch /\ BoundedReuse /\ Findable) /\ OneOutstanding
BY FlowIsCorrelation, TypeCorrect, MatchesAreFresh, MatchesAreRelated, ReuseIsBounded,
   NewestIsFound, TableImplementsOutstanding, PTL

(* Where the newest publish can be found, a message without fields has no   *)
(* other parent: the lookup does not miss, and answers with nothing else.   *)
LEMMA AwaitedIsAnswered ==
    ASSUME FlowInv, Findable, NEW m \in network, UsesTable(m), Awaited(m.topic),
           NEW again \in BOOLEAN, Receive(m, again)
    PROVE  received'.parent = Newest
<1> DEFINE text == Normalize(m.payload)
           n == Cardinality(RelatedSet[published[Newest].topic])
<1>1. m.topic \in RelatedSet[published[Newest].topic] /\ text \in Texts
  BY FlowInvParts, MessageType, NormalizeType DEF Awaited
<1>2. n \in Nat
  <2>1. IInv /\ Newest \in DOMAIN published
    BY FlowInvParts DEF Awaited, Newest, IInv, TypeOK
  <2>2. published[Newest].topic \in Topics
    BY <2>1, PublishedType DEF IInv, TypeOK
  <2>3. IsFiniteSet(RelatedSet[published[Newest].topic])
    BY <2>2, RelatedFinite
  <2> QED BY <2>3, FS_CardinalityType
<1>3. Answers(m.topic, text) = {Newest}
  <2>1. uses[Newest] < n /\ uses[Newest] \in Nat
    BY FlowInvParts DEF Awaited, Newest, IInv, TypeOK
  <2>2. uses[Newest] < 2 * n
    BY <1>2, <2>1
  <2> QED BY <1>1, <2>1, <2>2 DEF Awaited, Findable
<1>4. FirstHit(m.topic, text) # {}
  BY <1>3 DEF Answers
<1>5. ~LookupMiss(m.topic, m.payload)
  BY <1>4 DEF LookupMiss
<1>6. PICK p \in Answers(m.topic, text) : received' = Received(m, p)
  BY <1>5 DEF Receive
<1> QED BY <1>3, <1>6 DEF Received

(* A message without fields that is awaited is traced to the newest publish.*)
THEOREM AwaitedMessagesAreTraced == FlowSpec => UntaggedIsTraced
<1>1. FlowInv /\ Findable /\ [FlowNext]_allVars
      => [\A m \in network, again \in BOOLEAN :
             (UsesTable(m) /\ Awaited(m.topic) /\ Receive(m, again))
                 => received'.parent = Newest]_allVars
  BY AwaitedIsAnswered
<1>2. FlowSpec => []Findable
  BY FlowKeepsTable, PTL
<1> QED BY <1>1, <1>2, FlowInvariance, PTL DEF FlowSpec, UntaggedIsTraced
=============================================================================
