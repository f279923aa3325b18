-------------------------- MODULE MCEventMessages --------------------------
(* A small instance of EventMessages: an event of every type with values at *)
(* the limits, and calls whose entities are given in every way.  A message's*)
(* target is in lower case and in lists: the WebSocket API sees to that     *)
(* before the command is run.                                               *)
EXTENDS EventMessages

Word(name)           == Str(name, Absent, 4)
Entity(name, domain) == Str(name, Word(domain), 9)
Capital(value)       == [value EXCEPT !.capitals = TRUE]
CapitalDomain(value) == [Capital(value) EXCEPT !.domain = Capital(@)]

light  == Entity("light.a", "light")
switch == Entity("switch.b", "switch")
dot    == Str(".", EmptyStr, 1)
long   == Str("long", Absent, 200)
longer == Str("longer", Str("long", Absent, 290), 300)

Attrs(a, b, c) == [a1 |-> a, b1 |-> b, c1 |-> c]

Event(type, length, data) == [type |-> Str(type, Absent, length), data |-> data]

Changed(old, new) ==
    Event("state_changed", 13, Dict([entity_id |-> light, old_state |-> old, new_state |-> new]))

MCKinds ==
    {Changed(Absent, State(Word("on"), Attrs(Number(1), Number(2), Number(3)))),
     Changed(State(Word("on"), Attrs(Number(1), Number(2), Number(3))),
             State(Word("on"), Attrs(Number(2), Number(3), Number(4)))),
     Changed(State(Word("on"), Attrs(Number(1), Number(2), Number(3))), State(longer, NoAttributes)),
     Event("automation_triggered", 20,
           Dict([name |-> longer, source |-> Word("time"), entity_id |-> light])),
     Event("script_started", 14, Dict([name |-> Word("s"), entity_id |-> dot])),
     Event("zha_event", 9,
           Dict([command |-> Word("on"), command_type |-> Number(1), args |-> List(<<>>),
                 entity_id |-> List(<<Number(1), longer>>)])),
     Event("plain", 64, Absent)}

Call(service_data, target) ==
    [domain |-> Word("light"), service |-> Word("turn_on"),
     service_data |-> service_data, target |-> target]

MCCalls ==
    {Call(Dict([entity_id |-> light]), Absent),
     Call(Dict([entity_id |-> CapitalDomain(light)]), Absent),
     [Call(Dict([entity_id |-> Capital(light)]), Absent) EXCEPT !.domain = Capital(@)],
     Call(Dict([entity_id |-> List(<<CapitalDomain(switch), light>>)]), Dict([area_id |-> Word("none")])),
     Call(Absent, Dict([entity_id |-> List(<<light>>), device_id |-> List(<<long, Number(1), long, long>>)])),
     Call(Dict([brightness |-> Number(1)]), Dict([entity_id |-> List(<<light, switch>>)])),
     Call(Dict([entity_id |-> switch]), Dict([entity_id |-> List(<<light>>)]))}
=============================================================================
