-------------------------- MODULE SpanAttributes --------------------------
(* span_attributes.py: what the spans of one service call and of an event   *)
(* say, computed from the message, the event and the call.                  *)
(*                                                                          *)
(* A value is tagged with its Python type.  A string is known by its name,  *)
(* by whether it is written with capitals, by its length and by the string  *)
(* before its first dot, an entity's domain, if it has one.                 *)
EXTENDS Naturals, Sequences, FiniteSets

CONSTANTS
    MaxLength,      \* MAX_ATTRIBUTE_VALUE_LENGTH
    MaxChanged,     \* MAX_CHANGED_ATTRIBUTES
    MaxTargets      \* how many target ids are joined

(* MAX_LENGTH_EVENT_EVENT_TYPE of Home Assistant, whose own strings are set *)
(* without being cut.                                                       *)
MaxEventType == 64

ASSUME LengthAssumption == MaxLength \in Nat /\ MaxLength >= MaxEventType

Absent == [type |-> "NoneType"]         \* also for a key that is not there

String(name, capitals, domain, length) ==
    [type |-> "str", name |-> name, capitals |-> capitals, domain |-> domain, length |-> length]

Str(name, domain, length) == String(name, FALSE, domain, length)

EmptyStr    == Str("", Absent, 0)
Number(n)   == [type |-> "int", value |-> n]
List(items) == [type |-> "list", items |-> items]
Dict(of)    == [type |-> "dict", of |-> of]
State(state, attributes) == [type |-> "State", state |-> state, attributes |-> attributes]

Is(value, type) == value.type = type

(* str.lower; what is not a string stays as it is.                          *)
Lower(value) ==
    LET Small(of, domain) == String(of.name, FALSE, domain, of.length)
        domain == IF Is(value.domain, "str") THEN Small(value.domain, value.domain.domain)
                  ELSE value.domain
    IN  IF Is(value, "str") THEN Small(value, domain) ELSE value

Get(dict, key) == IF key \in DOMAIN dict THEN dict[key] ELSE Absent

NoAttributes == [k \in {} |-> Absent]

Put(attributes, key, value) ==
    [k \in DOMAIN attributes \cup {key} |-> IF k = key THEN value ELSE attributes[k]]

(* dict.update: what is new wins.                                           *)
Update(attributes, new) ==
    [k \in DOMAIN attributes \cup DOMAIN new |->
        IF k \in DOMAIN new THEN new[k] ELSE attributes[k]]

Cut(value, length) == String(value.name, value.capitals, value.domain, length)

TruncateMutant(value) ==
    IF value.length <= MaxLength THEN value ELSE Cut(value, MaxLength + 3)

(* _truncate_string: a cut string and its "..." are MaxLength long.         *)
Truncate(value) ==
    IF value.length <= MaxLength THEN value ELSE Cut(value, MaxLength)

(* _set_attribute                                                           *)
SetAttribute(attributes, key, value) ==
    IF Is(value, "str") /\ value.length > 0 THEN Put(attributes, key, Truncate(value))
    ELSE IF Is(value, "bool") \/ Is(value, "int") THEN Put(attributes, key, value)
    ELSE attributes

(* The first string of a list.                                              *)
FirstString(items) ==
    LET first == {i \in DOMAIN items :
                     /\ Is(items[i], "str")
                     /\ \A j \in DOMAIN items : Is(items[j], "str") => i <= j}
    IN  IF first = {} THEN Absent ELSE items[CHOOSE i \in first : TRUE]

(* The string _set_entity_domain_attribute looks at.                        *)
EntityOf(value) ==
    IF Is(value, "str") THEN value
    ELSE IF Is(value, "list") THEN FirstString(value.items)
    ELSE Absent

SetEntityDomain(attributes, value) ==
    LET entity == EntityOf(value) IN
    IF entity = Absent \/ entity.domain = Absent THEN attributes
    ELSE SetAttribute(attributes, "entity.domain", entity.domain)

SetEntity(attributes, value) ==
    SetEntityDomain(SetAttribute(attributes, "entity.id", value), value)

(* The strings of a list, in their order.                                   *)
Strings(items) == SelectSeq(items, LAMBDA item : Is(item, "str"))

(* Strings joined with commas; but for the first nothing tells them apart.  *)
Joined(strings) ==
    LET upTo[i \in 0 .. Len(strings)] ==
            IF i = 0 THEN 0 ELSE upTo[i - 1] + strings[i].length + 1
    IN  Cut(strings[1], upTo[Len(strings)] - 1)

FirstOf(sequence, n) == SubSeq(sequence, 1, IF Len(sequence) < n THEN Len(sequence) ELSE n)

(* _normalize_target_value                                                  *)
TargetValue(value) ==
    IF Is(value, "str") THEN value
    ELSE IF Is(value, "list") /\ Strings(value.items) # <<>>
         THEN Joined(FirstOf(Strings(value.items), MaxTargets))
    ELSE Absent

-----------------------------------------------------------------------------
(* Contexts and service calls                                               *)

(* context_attributes, of a context [id, parent, user] or of none.          *)
ContextAttributes(context) ==
    IF context = Absent THEN NoAttributes
    ELSE LET own   == Put(NoAttributes, "context.id", context.id)
             child == IF context.parent = Absent THEN own
                      ELSE Put(own, "context.parent_id", context.parent)
         IN  IF context.user = Absent THEN child
             ELSE Put(child, "enduser.id", context.user)

(* What the message, the event and the call have in common.                 *)
ServiceAttributes(attributes, domain, service) ==
    SetAttribute(SetAttribute(attributes, "service.domain", domain), "service.name", service)

OfServiceData(attributes, service_data) ==
    IF Is(service_data, "dict") THEN SetEntity(attributes, Get(service_data.of, "entity_id"))
    ELSE attributes

(* _websocket_call_service_attributes with _target_attributes               *)
WebsocketCallAttributes(msg) ==
    LET named  == OfServiceData(ServiceAttributes(NoAttributes, Get(msg, "domain"),
                                                  Get(msg, "service")),
                                Get(msg, "service_data"))
        target == Get(msg, "target")
        Target(attributes, key, attribute) ==
            IF ~Is(target, "dict") THEN attributes
            ELSE SetAttribute(attributes, attribute, TargetValue(Get(target.of, key)))
    IN  Target(Target(Target(named, "entity_id", "service.target.entity_id"),
                      "device_id", "service.target.device_id"),
               "area_id", "service.target.area_id")

CallServiceEventAttributesMutant(event_data) ==
    OfServiceData(ServiceAttributes(NoAttributes, Get(event_data, "service"),
                                    Get(event_data, "domain")),
                  Get(event_data, "service_data"))

(* _call_service_event_attributes                                           *)
CallServiceEventAttributes(event_data) ==
    OfServiceData(ServiceAttributes(NoAttributes, Get(event_data, "domain"),
                                    Get(event_data, "service")),
                  Get(event_data, "service_data"))

(* service_call_attributes                                                  *)
ServiceCallAttributes(context, call) ==
    SetEntity(Update(ContextAttributes(context),
                     [k \in {"service.domain", "service.name"} |->
                         IF k = "service.domain" THEN call.domain ELSE call.service]),
              Get(call.data, "entity_id"))

-----------------------------------------------------------------------------
(* Events                                                                   *)

(* _changed_entity_attributes: the names whose values differ.               *)
ChangedNames(old, new) ==
    {k \in DOMAIN old.attributes \cup DOMAIN new.attributes :
        Get(old.attributes, k) # Get(new.attributes, k)}

(* The first MaxChanged names (of four letters, here) are joined; if there  *)
(* are more, their number is added.                                         *)
ChangedAttributes(names) ==
    LET n      == Cardinality(names)
        listed == IF n < MaxChanged THEN n ELSE MaxChanged
        joined == SetAttribute(NoAttributes, "entity.attributes.changed",
                               Str("names", Absent, 5 * listed - 1))
    IN  IF n > MaxChanged THEN Put(joined, "entity.attributes.changed_count", Number(n))
        ELSE IF n > 0 THEN joined ELSE NoAttributes

StateAttribute(attributes, key, state) ==
    IF Is(state, "State") THEN SetAttribute(attributes, key, state.state) ELSE attributes

(* _state_changed_event_attributes                                          *)
StateChangedAttributes(event_data) ==
    LET old    == Get(event_data, "old_state")
        new    == Get(event_data, "new_state")
        states == StateAttribute(StateAttribute(
                      SetEntity(NoAttributes, Get(event_data, "entity_id")),
                      "entity.state.old", old), "entity.state.new", new)
    IN  IF Is(old, "State") /\ Is(new, "State") /\ old.state = new.state
        THEN Update(states, ChangedAttributes(ChangedNames(old, new)))
        ELSE states

(* _automation_triggered_event_attributes, _script_started_event_attributes *)
TriggerAttributes(event_data, named) ==
    SetEntity(IF named THEN SetAttribute(SetAttribute(NoAttributes,
                                "event.name", Get(event_data, "name")),
                                "event.source", Get(event_data, "source"))
              ELSE SetAttribute(NoAttributes, "event.name", Get(event_data, "name")),
              Get(event_data, "entity_id"))

(* _GENERIC_EVENT_DATA_KEYS, in their order: two keys share an attribute.   *)
GenericKeys ==
    <<<<"device_ieee", "device.ieee">>, <<"device_id", "device.id">>,
      <<"unique_id", "device.unique_id">>, <<"command", "event.command">>,
      <<"cluster_id", "zha.cluster_id">>, <<"cluster_name", "zha.cluster_name">>,
      <<"endpoint_id", "zha.endpoint_id">>, <<"node_id", "node.id">>,
      <<"name", "event.name">>, <<"source", "event.source">>,
      <<"manufacturer", "device.manufacturer">>, <<"model", "device.model">>,
      <<"command_type", "event.command">>, <<"args", "event.args">>>>

(* _generic_event_data_attributes: of the keys that set an attribute the    *)
(* last one has its way.                                                    *)
GenericAttributes(event_data) ==
    LET One(i)  == SetAttribute(NoAttributes, GenericKeys[i][2], Get(event_data, GenericKeys[i][1]))
        setting == {i \in DOMAIN GenericKeys : DOMAIN One(i) # {}}
        Last(k) == CHOOSE i \in setting : /\ GenericKeys[i][2] = k
                                          /\ \A j \in setting : GenericKeys[j][2] = k => j <= i
    IN  SetEntity([k \in {GenericKeys[i][2] : i \in setting} |-> One(Last(k))[k]],
                  Get(event_data, "entity_id"))

(* Types are compared as they are written.                                  *)
Named(event_type, name) == event_type.name = name /\ ~event_type.capitals

OfEventData(event_type, event_data) ==
    CASE Named(event_type, "call_service")         -> CallServiceEventAttributes(event_data)
      [] Named(event_type, "state_changed")        -> StateChangedAttributes(event_data)
      [] Named(event_type, "automation_triggered") -> TriggerAttributes(event_data, TRUE)
      [] Named(event_type, "script_started")       -> TriggerAttributes(event_data, FALSE)
      [] OTHER                                     -> GenericAttributes(event_data)

(* event_attributes: the type is set as it is, without _set_attribute; data *)
(* that is not a dict says nothing.                                         *)
EventAttributes(event_type, context, event_data) ==
    Update(Put(ContextAttributes(context), "event.type", event_type),
           IF Is(event_data, "dict") THEN OfEventData(event_type, event_data.of)
           ELSE NoAttributes)
=============================================================================
