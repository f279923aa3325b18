---------------------------- MODULE MCMqttFlow ----------------------------
(* A small instance of MqttFlow: commands to a lamp and to a plain topic,   *)
(* states from the lamp and echoes of both.                                 *)
EXTENDS MqttFlow

CONSTANTS lamp, on, onBytes

MCBases  == {lamp}
MCText   == {on}
MCRaw    == {onBytes}
MCDecode == [r \in MCRaw |-> on]

MCPublishOn == {[base |-> lamp, kind |-> "set"], [base |-> lamp, kind |-> "plain"]}
MCHearOn    == {[base |-> lamp, kind |-> "state"]}
MCPayloads  == {onBytes}
=============================================================================
