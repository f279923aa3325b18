-------------------------- MODULE TracingSwitch --------------------------
(* What setups, unloads and the loading of components amount to, without    *)
(* the patches: a runtime switches tracing on, late hooks join it, and all  *)
(* hooks go at once.  No hook changes hands, and a runtime is closed only   *)
(* while tracing is off.                                                    *)
CONSTANTS
    Hooks,
    Late,           \* the hooks that may come after the others
    Runtimes

VARIABLES
    tracers,        \* the runtimes each hook hands spans to
    closed          \* the runtimes that take none any more

vars == <<tracers, closed>>

Off == [h \in Hooks |-> {}]

Init == tracers = Off /\ closed = {}

SwitchOn(g) ==
    /\ tracers = Off /\ g \notin closed
    /\ tracers' = [h \in Hooks |-> IF h \in Late THEN {} ELSE {g}]
    /\ UNCHANGED closed

(* Late hooks join the runtime that has all the others.                     *)
Join(g, more) ==
    /\ \A h \in Hooks \ Late : tracers[h] = {g}
    /\ \A h \in more : tracers[h] = {}
    /\ g \notin closed
    /\ tracers' = [h \in Hooks |-> IF h \in more THEN {g} ELSE tracers[h]]
    /\ UNCHANGED closed

SwitchOff == tracers' = Off /\ UNCHANGED closed

Close(g) ==
    /\ tracers = Off
    /\ closed' = closed \cup {g}
    /\ UNCHANGED tracers

Next == \/ \E g \in Runtimes :
              \/ SwitchOn(g)
              \/ Close(g)
              \/ \E more \in SUBSET Late : Join(g, more)
        \/ SwitchOff

Spec == Init /\ [][Next]_vars
=============================================================================
