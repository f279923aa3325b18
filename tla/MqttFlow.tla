----------------------------- MODULE MqttFlow -----------------------------
(* MQTT publishes and messages (mqtt_apply.py) around the correlation table *)
(* of MqttCorrelation: publishes that leave and publishes that fail, a      *)
(* broker that loses, repeats and reorders, devices that answer a publish   *)
(* on another topic, and other clients of the broker.                       *)
(*                                                                          *)
(* A message's cause is history: the publish it is, or that its sender      *)
(* reacted to.  The code only has the trace fields and the table.           *)
EXTENDS MqttCorrelation

CONSTANTS
    PublishOn,      \* bound: the topics of this client's publishes
    HearOn,         \* bound: the topics of devices and other clients
    Payloads,       \* bound: the payloads that are sent
    MaxMessages     \* bound: messages at the broker at a time

ASSUME FlowAssumption ==
    /\ PublishOn \subseteq Topics /\ HearOn \subseteq Topics
    /\ Payloads \subseteq Raw \cup {None}
    /\ MaxMessages \in Nat

(* The W3C fields in a message's user properties: none; those of a publish  *)
(* (named by its number); another client's; fields without a traceparent,   *)
(* or with one that cannot be read.                                         *)
NoFields   == 0
Foreign    == MaxPublish + 1
Unreadable == MaxPublish + 2
Fields     == 0 .. MaxPublish + 2

VARIABLES
    is_mqttv5,      \* the protocol of the connection
    network,        \* the messages the broker may deliver
    received        \* the last message handled (its fields, its cause), and
                    \* the parent of its span

flowVars == <<is_mqttv5, network, received>>
allVars  == <<vars, flowVars>>

Message == [topic : Topics, payload : Raw \cup {None}, fields : Fields, cause : Nat]
Receipt == [fields : Fields, cause : Nat, parent : 0 .. MaxPublish + 1]

Received(m, parent) == [fields |-> m.fields, cause |-> m.cause, parent |-> parent]

FlowInit == Init /\ is_mqttv5 \in BOOLEAN /\ network = {} /\ received = None

Deliverable(m) == /\ Cardinality(network) < MaxMessages
                  /\ network' = network \cup {m}

-----------------------------------------------------------------------------
(* Publishing                                                               *)

InjectMutant(p, sampled) == IF is_mqttv5 /\ sampled /\ p > 1 THEN p - 1 ELSE NoFields

(* inject_current_trace_into_mqtt_properties: a span that records.          *)
Inject(p, sampled) == IF is_mqttv5 /\ sampled THEN p ELSE NoFields

(* traced_async_publish refuses an expiry interval before MQTT v5; the      *)
(* table is not touched yet.                                                *)
PublishRefused == ~is_mqttv5 /\ UNCHANGED allVars

(* The carrier is registered, then paho is given the message.  It may raise,*)
(* or the broker may never see the message: the entry stays all the same.   *)
PublishCalled(topic, payload, sampled) ==
    LET p == Len(published) + 1 IN
    /\ Register(topic, payload)
    /\ \/ Deliverable([topic |-> topic, payload |-> payload,
                       fields |-> Inject(p, sampled), cause |-> p])
       \/ UNCHANGED network
    /\ UNCHANGED <<is_mqttv5, received>>

-----------------------------------------------------------------------------
(* Receiving                                                                *)

UsesTableMutant(m) == TRUE

(* trace_carrier_from_mqtt_message: any field at all keeps the table out.   *)
UsesTable(m) == m.fields = NoFields

ParentFromCarrierMutant(fields) == fields

(* span_creation_context_from_carrier: the span the fields name, or a root. *)
ParentFromCarrier(fields) == IF fields = Unreadable THEN 0 ELSE fields

(* traced_on_message.  What is delivered may be delivered again: QoS 1, or a*)
(* retained message after the next subscription.                            *)
Receive(m, again) ==
    /\ m \in network
    /\ network' = IF again THEN network ELSE network \ {m}
    /\ UNCHANGED is_mqttv5
    /\ \/ /\ ~UsesTable(m)
          /\ UNCHANGED vars
          /\ received' = Received(m, ParentFromCarrier(m.fields))
       \/ /\ UsesTable(m)
          /\ LookupHit(m.topic, m.payload)
          /\ \E p \in Answers(m.topic, Normalize(m.payload)) :
                received' = Received(m, p)
       \/ /\ UsesTable(m)
          /\ LookupMiss(m.topic, m.payload)
          /\ received' = Received(m, 0)

(* A topic that is not UTF-8: the original handler runs, without a span and *)
(* without a lookup.                                                        *)
ReceiveUndecodable == UNCHANGED allVars

-----------------------------------------------------------------------------
(* The broker and its other clients                                         *)

Lose(m) == /\ m \in network
           /\ network' = network \ {m}
           /\ UNCHANGED <<vars, is_mqttv5, received>>

(* A device reacts to a publish of ours with a message of its own; over     *)
(* MQTT v5 it may return the user properties it was sent.                   *)
DeviceAnswers(m, topic, payload, fields) ==
    /\ m \in network /\ m.cause # 0
    /\ fields \in {NoFields, m.fields}
    /\ Deliverable([topic |-> topic, payload |-> payload, fields |-> fields, cause |-> m.cause])
    /\ UNCHANGED <<vars, is_mqttv5, received>>

(* Another client publishes for reasons of its own.                         *)
Unprompted(topic, payload, fields) ==
    /\ fields = NoFields \/ is_mqttv5
    /\ Deliverable([topic |-> topic, payload |-> payload, fields |-> fields, cause |-> 0])
    /\ UNCHANGED <<vars, is_mqttv5, received>>

TimePasses == Tick /\ UNCHANGED flowVars

FlowNext ==
    \/ \E topic \in PublishOn, payload \in Payloads, sampled \in BOOLEAN :
          PublishCalled(topic, payload, sampled)
    \/ \E m \in network :
          \/ Lose(m)
          \/ \E again \in BOOLEAN : Receive(m, again)
          \/ \E topic \in HearOn, payload \in Payloads, fields \in Fields :
                DeviceAnswers(m, topic, payload, fields)
    \/ \E topic \in HearOn, payload \in Payloads :
          \E fields \in {NoFields, Foreign, Unreadable} : Unprompted(topic, payload, fields)
    \/ PublishRefused
    \/ ReceiveUndecodable
    \/ TimePasses

FlowSpec == FlowInit /\ [][FlowNext]_allVars

-----------------------------------------------------------------------------
(* Types.  No message names a publish that has not been made.               *)
FlowTypeOK ==
    /\ is_mqttv5 \in BOOLEAN
    /\ network \subseteq Message
    /\ received \in Receipt \cup {None}
    /\ \A m \in network : m.cause <= Len(published)

(* However messages are lost, repeated, overtaken by later publishes or     *)
(* answered late, a message is never traced to a publish older than the one *)
(* that caused it, not even to a publish that failed.                       *)
NeverOlderParent ==
    received # None =>
        received.parent = 0 \/ received.parent >= received.cause

(* A message with our own fields, first delivery or repeated, the publish   *)
(* itself or an answer that returns them, is traced to exactly the publish  *)
(* that caused it, whatever the table would say; and only a message with    *)
(* another client's fields continues that client's trace.                   *)
TaggedIsExact ==
    received # None =>
        /\ received.fields \in 1 .. MaxPublish =>
               received.parent = received.cause
        /\ received.parent = Foreign => received.fields = Foreign

(* While the newest publish is fresh and has not been matched once per      *)
(* related topic, a message on one of those topics that comes without       *)
(* fields is traced to it, whatever was published, lost, repeated or        *)
(* answered before.                                                         *)
Awaited(topic) ==
    /\ Newest > 0
    /\ now < published[Newest].at + Ttl
    /\ topic \in RelatedSet[published[Newest].topic]
    /\ uses[Newest] < Cardinality(RelatedSet[published[Newest].topic])

UntaggedIsTraced ==
    [][\A m \in network, again \in BOOLEAN :
          (UsesTable(m) /\ Awaited(m.topic) /\ Receive(m, again))
              => received'.parent = Newest]_allVars
=============================================================================
