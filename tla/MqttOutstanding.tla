------------------------- MODULE MqttOutstanding -------------------------
(* What the correlation table promises, without the table: there is at most *)
(* one outstanding publish, the newest one.  While it is younger than Ttl   *)
(* and has credit left a message may be matched with it; a publish that is  *)
(* no longer the newest is never matched again.                             *)
EXTENDS Naturals, Sequences

CONSTANTS
    Topics,         \* the topics publishes and messages use
    Texts,          \* the payload texts
    Credit,         \* how many messages one publish on a topic may be matched with
    Ttl             \* for how long

VARIABLES now, published, uses

vars == <<now, published, uses>>

Init == now = 0 /\ published = <<>> /\ uses = <<>>

Publish(topic, text) ==
    /\ published' = Append(published, [topic |-> topic, payload |-> text, at |-> now])
    /\ uses' = Append(uses, 0)
    /\ UNCHANGED now

MatchNewest ==
    LET newest == Len(published) IN
    /\ newest > 0
    /\ now < published[newest].at + Ttl
    /\ uses[newest] < Credit[published[newest].topic]
    /\ uses' = [uses EXCEPT ![newest] = @ + 1]
    /\ UNCHANGED <<now, published>>

Tick == now' = now + 1 /\ UNCHANGED <<published, uses>>

Next == \/ \E topic \in Topics, text \in Texts : Publish(topic, text)
        \/ MatchNewest
        \/ Tick

Spec == Init /\ [][Next]_vars
=============================================================================
