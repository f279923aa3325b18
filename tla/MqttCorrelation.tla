------------------------- MODULE MqttCorrelation -------------------------
(* The table of recent MQTT publishes (mqtt_correlation.py): a publish      *)
(* leaves its trace fields under every related topic, a message that        *)
(* carries no trace fields of its own takes one of them back.  Every caller *)
(* runs on the event loop and the table has a lock, so one call is one step.*)
(*                                                                          *)
(* A carrier is named by the publish that left it (an index of published);  *)
(* published and uses are history variables the code does not have, they    *)
(* only let the properties speak of what was matched with what.             *)
EXTENDS Naturals, Sequences, FiniteSets

CONSTANTS
    Bases,          \* what is left of a topic when its last level is cut
    Text,           \* payload texts other than the empty one
    Empty,          \* the empty text
    Raw,            \* payloads as the callers pass them: str, bytes, numbers
    Decode,         \* the text of each raw payload
    None,           \* Python's None: no payload, no entry
    Ttl,            \* _DEFAULT_TTL_SECONDS
    MaxPublish,     \* bound: traced publishes in a behaviour
    MaxTime         \* bound: the last clock reading

Kinds  == {"state", "set", "config", "plain"}
Topics == [base : Bases, kind : Kinds]
Texts  == Text \cup {Empty}
Keys   == Topics \X Texts
Entry  == [pub : Nat, expires : Nat]

ASSUME BoundsAssumption == Ttl \in Nat \ {0} /\ MaxPublish \in Nat /\ MaxTime \in Nat
ASSUME DecodeAssumption == Decode \in [Raw -> Texts] /\ None \notin Raw
ASSUME NoneAssumption   == None \notin Entry

VARIABLES
    now,            \* time.monotonic()
    pending,        \* _pending, None where the dict has no such key
    published,      \* history: the traced publishes, oldest first
    uses            \* history: how many messages each publish was matched with

vars == <<now, pending, published, uses>>

Publish == [topic : Topics, payload : Texts, at : Nat]

-----------------------------------------------------------------------------
(* Definitions named ...Mutant are plausible faults of the definition that  *)
(* follows them; no specification uses them.                                *)
NormalizeMutant(payload) == IF payload = None THEN None ELSE Decode[payload]

(* _normalize_payload                                                       *)
Normalize(payload) == IF payload = None THEN Empty ELSE Decode[payload]

RelatedKindsMutant ==
    [kind \in Kinds |-> CASE kind = "state"  -> <<"state", "set", "config">>
                          [] kind = "set"    -> <<"set", "state", "config">>
                          [] kind = "config" -> <<"config", "state", "set">>
                          [] OTHER           -> <<kind, "state">>]

(* _related_topics: the topic itself first, then its discovery aliases.     *)
RelatedKinds ==
    [kind \in Kinds |-> CASE kind = "state"  -> <<"state", "set", "config">>
                          [] kind = "set"    -> <<"set", "state", "config">>
                          [] kind = "config" -> <<"config", "state", "set">>
                          [] OTHER           -> <<kind>>]

Related ==
    [topic \in Topics |-> [i \in DOMAIN RelatedKinds[topic.kind] |->
                             [topic EXCEPT !.kind = RelatedKinds[topic.kind][i]]]]

RelatedSet ==
    [topic \in Topics |-> {Related[topic][i] : i \in DOMAIN Related[topic]}]

PurgeExpiredMutant(k, t) ==
    IF pending[k] # None /\ pending[k].expires < t THEN None ELSE pending[k]

(* _purge_expired(t): what the purge leaves at a key.                       *)
PurgeExpired(k, t) ==
    IF pending[k] # None /\ pending[k].expires <= t THEN None ELSE pending[k]

ExpiresAtMutant(t) == t + Ttl + 1

(* When an entry stored at time t stops being used.                         *)
ExpiresAt(t) == t + Ttl

RegisterKeysMutant(topic, text) == RelatedSet[topic] \X {text}

(* The keys a publish is stored under: its own payload and the wildcard ""  *)
(* for each related topic.                                                  *)
RegisterKeys(topic, text) == RelatedSet[topic] \X {text, Empty}

(* The keys a lookup tries, in the order in which it tries them.            *)
Candidates ==
    [key \in Keys |->
        [j \in 1 .. 2 * Len(Related[key[1]]) |->
            <<Related[key[1]][(j + 1) \div 2], IF j % 2 = 1 THEN key[2] ELSE Empty>>]]

(* The position in Candidates at which a lookup returns, if there is one.   *)
FirstHit(topic, text) ==
    LET hits == {j \in DOMAIN Candidates[<<topic, text>>] :
                    LET entry == PurgeExpired(Candidates[<<topic, text>>][j], now)
                    IN  entry # None /\ entry.expires > now}
    IN  {j \in hits : \A i \in hits : j <= i}

PopMutant(topic, text, last) == [k \in Keys |-> PurgeExpired(k, now)]

PopSiblingsMutant(topic, text, last) == [k \in Keys |-> None]

(* What is left once the first candidates, up to the last tried, are popped.*)
Pop(topic, text, last) ==
    [k \in Keys |-> IF \E j \in 1 .. last : k = Candidates[<<topic, text>>][j]
                    THEN None ELSE PurgeExpired(k, now)]

-----------------------------------------------------------------------------
Init == /\ now = 0
        /\ pending = [k \in Keys |-> None]
        /\ published = <<>>
        /\ uses = <<>>

(* register_mqtt_publish_carrier for a carrier with a traceparent: purge,   *)
(* then overwrite the keys of every related topic.  The purge is given the  *)
(* new entry's expiry and not the present time, as in the code.             *)
Register(topic, payload) ==
    LET text == Normalize(payload)
        id   == Len(published) + 1
    IN  /\ Len(published) < MaxPublish
        /\ pending' = [k \in Keys |->
                         IF k \in RegisterKeys(topic, text)
                         THEN [pub |-> id, expires |-> ExpiresAt(now)]
                         ELSE PurgeExpired(k, ExpiresAt(now))]
        /\ published' = Append(published, [topic |-> topic, payload |-> text, at |-> now])
        /\ uses' = Append(uses, 0)
        /\ UNCHANGED now

(* A carrier without a traceparent (the span is not valid): the early       *)
(* return comes before the purge.                                           *)
RegisterUntraced == UNCHANGED vars

(* lookup_mqtt_publish_carrier when some candidate is stored and fresh.     *)
LookupHit(topic, payload) ==
    LET text == Normalize(payload) IN
    \E j \in FirstHit(topic, text) :
        LET pub == pending[Candidates[<<topic, text>>][j]].pub IN
        /\ pending' = Pop(topic, text, j)
        /\ uses' = [uses EXCEPT ![pub] = @ + 1]
        /\ UNCHANGED <<now, published>>

(* lookup_mqtt_publish_carrier when every candidate is missing or stale.    *)
LookupMiss(topic, payload) ==
    LET text == Normalize(payload) IN
    /\ FirstHit(topic, text) = {}
    /\ pending' = Pop(topic, text, Len(Candidates[<<topic, text>>]))
    /\ UNCHANGED <<now, published, uses>>

(* The monotonic clock, which nothing in the integration waits for.         *)
Tick == /\ now < MaxTime
        /\ now' = now + 1
        /\ UNCHANGED <<pending, published, uses>>

Next == \/ \E topic \in Topics, payload \in Raw \cup {None} :
              \/ Register(topic, payload)
              \/ LookupHit(topic, payload)
              \/ LookupMiss(topic, payload)
        \/ RegisterUntraced
        \/ Tick

Spec == Init /\ [][Next]_vars

-----------------------------------------------------------------------------
(* Types.  An entry never names a publish that has not happened.            *)
TypeOK == /\ now \in Nat
          /\ published \in Seq(Publish)
          /\ uses \in Seq(Nat)
          /\ Len(uses) = Len(published)
          /\ pending \in [Keys -> Entry \cup {None}]
          /\ \A k \in Keys : pending[k] # None => pending[k].pub \in 1 .. Len(published)

(* The publish whose trace a message would be given by a lookup made now.   *)
Answers(topic, text) ==
    {pending[Candidates[<<topic, text>>][j]].pub : j \in FirstHit(topic, text)}

(* A message is matched only with a publish younger than the time to live,  *)
(* whatever register and lookup calls came between: the expiry an entry was *)
(* stored with survives overwriting and popping of its sibling keys.        *)
FreshMatch ==
    \A topic \in Topics, text \in Texts : \A p \in Answers(topic, text) :
        now < published[p].at + Ttl

(* A message is matched only with a publish of the same discovery entity,   *)
(* although the keys of all entities and payloads live in one dict: the     *)
(* relation is the same from the publish's side and from the message's.     *)
RelatedMatch ==
    \A topic \in Topics, text \in Texts : \A p \in Answers(topic, text) :
        topic \in RelatedSet[published[p].topic]

(* One publish is credited to at most two messages per related topic: each  *)
(* match consumes an entry of its own, so a retained or chatty topic cannot *)
(* attach an unbounded number of messages to one trace.                     *)
Remaining(p) == {k \in Keys : pending[k] # None /\ pending[k].pub = p}

BoundedReuse ==
    \A p \in DOMAIN published :
        uses[p] + Cardinality(Remaining(p)) <= 2 * Cardinality(RelatedSet[published[p].topic])

(* The newest publish is found, while it is fresh, by a message on any of   *)
(* its related topics with any payload, until it has been matched once per  *)
(* related topic; a message with the publish's own payload finds it twice   *)
(* as often, unless that payload is empty.                                  *)
Newest == Len(published)

Findable ==
    (Newest > 0 /\ now < published[Newest].at + Ttl) =>
        \A topic \in RelatedSet[published[Newest].topic], text \in Texts :
            LET n == Cardinality(RelatedSet[published[Newest].topic])
                credit == IF text = published[Newest].payload /\ text # Empty
                          THEN 2 * n ELSE n
            IN  uses[Newest] < credit => Answers(topic, text) = {Newest}

(* The table implements the abstract specification MqttOutstanding: because *)
(* the purge of a publish is given the new entry's expiry, the table holds  *)
(* the entries of the newest publish only, and every lookup is answered     *)
(* from them or not at all.                                                 *)
Outstanding == INSTANCE MqttOutstanding WITH
                   Credit <- [topic \in Topics |-> 2 * Cardinality(RelatedSet[topic])]

OneOutstanding == Outstanding!Spec

(* What the docstrings promise of pending publishes: publishing on one      *)
(* entity's topic leaves the fresh entries of other entities in the table.  *)
PublishKeepsOthers ==
    [][\A topic \in Topics, payload \in Raw \cup {None} :
          Register(topic, payload) =>
              \A k \in Keys :
                  (pending[k] # None /\ pending[k].expires > now /\ k[1] \notin RelatedSet[topic])
                      => pending'[k] = pending[k]]_vars
=============================================================================
