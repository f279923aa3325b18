------------------------ MODULE MCMqttCorrelation ------------------------
(* A small instance of MqttCorrelation: one base with its three discovery   *)
(* topics and a plain topic unrelated to them, one non-empty payload text   *)
(* that comes as bytes, and the None payload of a cleared topic.            *)
EXTENDS MqttCorrelation

CONSTANTS lamp, on, onBytes

MCBases  == {lamp}
MCText   == {on}
MCRaw    == {onBytes}
MCDecode == [r \in MCRaw |-> on]

=============================================================================
