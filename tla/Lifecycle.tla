---------------------------- MODULE Lifecycle ----------------------------
(* Setting up, failing to set up, unloading and reloading the config entry  *)
(* (__init__.py), and the hooks its modules put into Home Assistant: every  *)
(* install_... saves what it finds and patches over it, every uninstall_... *)
(* puts back what was saved.  Home Assistant keeps running between the      *)
(* awaits of a setup: components load, the HTTP server comes up.            *)
EXTENDS Naturals, Sequences, FiniteSets

CONSTANTS
    None,           \* Python's None
    MaxRuntimes     \* bound: trace runtimes created in a behaviour

ASSUME MaxRuntimesAssumption == MaxRuntimes \in Nat /\ None \notin Nat

Hooks == {"websocket", "event", "propagation", "service", "mqtt", "rest"}

(* The functions that are patched, those a module always patches together   *)
(* as one.  ActiveConnection.context is patched by two modules.             *)
Slots == {"register_command", "connection_context", "event_bus", "ws_messages",
          "execute_service", "mqtt_client", "handler_factory"}

Patches == [websocket   |-> {"register_command", "connection_context"},
            event       |-> {"event_bus", "connection_context"},
            propagation |-> {"ws_messages"},
            service     |-> {"execute_service"},
            mqtt        |-> {"mqtt_client"},
            rest        |-> {"handler_factory"}]

(* The hooks that also wrap what is in a table of handlers, and the patched *)
(* function through which handlers get into the table later.                *)
Tables == {"websocket", "rest"}

Registrar == [websocket |-> "register_command", rest |-> "handler_factory"]

Runtimes == 1 .. MaxRuntimes

VARIABLES
    entry,          \* ConfigEntryState of the one entry
    step,           \* where async_setup_entry is
    runtime,        \* the trace runtime of this setup, or None
    provider,       \* what became of each TracerProvider
    slot,           \* what calling each patched function runs, innermost first
    saved,          \* what each hook saved (its hass.data key), or None
    listener,       \* the runtime of the component_loaded listener, or None
    mqtt,           \* the mqtt component: absent, in components, announced
    http,           \* whether hass.http exists
    table,          \* where the handler is that the next three are about
    handler,        \* any one synchronous command, or route of the REST API:
                    \* what is around it, innermost first; None before it is there
    original,       \* the same, as the installed hook has saved it, or None
    registered      \* history: the same, when it was registered

vars == <<entry, step, runtime, provider, slot, saved, listener, mqtt, http,
          table, handler, original, registered>>

Wrapper == [hook : Hooks, runtime : Runtimes]

By(h, g) == [hook |-> h, runtime |-> g]

ASSUME NoneIsNothingSaved == \A h \in Hooks : None \notin [Patches[h] -> Seq(Wrapper)]
ASSUME NoneIsNoHandler    == None \notin Seq(Wrapper)

-----------------------------------------------------------------------------
(* Installing and uninstalling.  A patched module is a record of its slots, *)
(* what was saved and whether an install_... has raised; after that nothing *)
(* more is installed by the same setup.                                     *)

Patched == [slot |-> slot, saved |-> saved, raised |-> FALSE]

Apply(m, hook, g) ==
    [slot   |-> [s \in Slots |-> IF s \in Patches[hook]
                                 THEN Append(m.slot[s], By(hook, g))
                                 ELSE m.slot[s]],
     saved  |-> [m.saved EXCEPT ![hook] = [s \in Patches[hook] |-> m.slot[s]]],
     raised |-> m.raised]

(* Definitions named ...Mutant are plausible faults of the definition that  *)
(* follows them; no specification uses them.                                *)
InstallMutant(m, hook, g) == IF m.raised THEN m ELSE Apply(m, hook, g)

(* install_...: "... is already installed" is raised if the key is there.   *)
Install(m, hook, g) ==
    IF m.raised THEN m
    ELSE IF m.saved[hook] # None THEN [m EXCEPT !.raised = TRUE]
    ELSE Apply(m, hook, g)

UninstallMutant(m, hook) ==
    IF m.saved[hook] = None THEN m
    ELSE [slot   |-> [s \in Slots |-> IF s \in Patches[hook]
                                      THEN m.saved[hook][s] ELSE m.slot[s]],
          saved  |-> [m.saved EXCEPT ![hook] = <<>>],
          raised |-> m.raised]

(* uninstall_...: nothing is done if the key is not there.                  *)
Uninstall(m, hook) ==
    IF m.saved[hook] = None THEN m
    ELSE [slot   |-> [s \in Slots |-> IF s \in Patches[hook]
                                      THEN m.saved[hook][s] ELSE m.slot[s]],
          saved  |-> [m.saved EXCEPT ![hook] = None],
          raised |-> m.raised]

InstallEarly(m, g) ==
    Install(Install(Install(Install(m, "websocket", g), "event", g),
                    "propagation", g), "service", g)

MqttAppliesMutant == FALSE

(* "mqtt" in hass.config.components                                         *)
MqttApplies == mqtt # "absent"

(* install_mqtt_tracing: at once if mqtt is among the components.           *)
InstallMqtt(m, g) == IF MqttApplies \/ m.saved["mqtt"] # None
                     THEN Install(m, "mqtt", g) ELSE m

(* install_rest_tracing needs hass.http.                                    *)
InstallRest(m, g) == IF ~http THEN [m EXCEPT !.raised = TRUE] ELSE Install(m, "rest", g)

UninstallAllMutant(m) ==
    Uninstall(Uninstall(Uninstall(Uninstall(Uninstall(Uninstall(m,
        "rest"), "mqtt"), "service"), "websocket"), "propagation"), "event")

(* async_unload_entry                                                       *)
UninstallAll(m) ==
    Uninstall(Uninstall(Uninstall(Uninstall(Uninstall(Uninstall(m,
        "rest"), "mqtt"), "service"), "event"), "propagation"), "websocket")

(* Object ids outlive the wrappers that had them: once tracing has been      *)
(* removed, a route's new handler may be taken for one of ours (RestRoutes).*)
IdKnown == table = "rest" /\ \E g \in Runtimes : provider[g] = "shut_down"

RestoredHandlerMutant == handler

(* restore_handlers, and the same loop for routes: what was saved.          *)
RestoredHandler == IF original # None THEN original ELSE handler

(* What becomes of the handler.  An installation saves and wraps it, except *)
(* a route that is wrapped already or taken to be.                          *)
HandlerFollows(m) ==
    LET installed == saved[table] = None /\ m.saved[table] # None
        removed   == saved[table] # None /\ m.saved[table] = None
        ours      == table = "rest" /\ handler # <<>>
    IN  \/ /\ installed /\ handler # None /\ ~ours
           /\ original' = handler
           /\ handler' = Append(handler, By(table, runtime))
        \/ /\ ~removed
           /\ installed => handler = None \/ ours \/ IdKnown
           /\ UNCHANGED <<handler, original>>
        \/ /\ removed
           /\ handler' = RestoredHandler
           /\ original' = None

Becomes(m) == /\ slot' = m.slot /\ saved' = m.saved
              /\ HandlerFollows(m)
              /\ UNCHANGED <<table, registered>>

-----------------------------------------------------------------------------
Init == /\ entry = "not_loaded" /\ step = "none"
        /\ runtime = None
        /\ provider = [g \in Runtimes |-> "none"]
        /\ slot = [s \in Slots |-> <<>>]
        /\ saved = [h \in Hooks |-> None]
        /\ listener = None
        /\ mqtt \in {"absent", "announced"}
        /\ http \in BOOLEAN
        /\ table \in Tables
        /\ handler \in {None, <<>>}
        /\ (table = "rest" /\ ~http) => handler = None
        /\ original = None /\ registered = handler

tables      == <<table, handler, original, registered>>
hooking     == <<slot, saved, listener, tables>>
environment == <<mqtt, http>>

(* Home Assistant calls async_setup_entry: at start, when the user enables  *)
(* or reloads the entry, or when the retry timer of a not-ready entry fires.*)
BeginSetup ==
    /\ entry \in {"not_loaded", "setup_retry", "setup_error"}
    /\ entry' = "setup" /\ step' = "validate"
    /\ runtime' = None
    /\ UNCHANGED <<provider, hooking, environment>>

FailSetup(state) == entry' = state /\ step' = "none"

(* The executor job that validates the connection returns.                  *)
Validate ==
    /\ step = "validate"
    /\ \/ step' = "runtime" /\ UNCHANGED entry
       \/ FailSetup("setup_error")      \* ConfigEntryAuthFailed, or any other error
       \/ FailSetup("setup_retry")      \* ConfigEntryNotReady
    /\ UNCHANGED <<runtime, provider, hooking, environment>>

(* The executor job setup_trace_runtime.                                    *)
SetupTraceRuntime ==
    /\ step = "runtime"
    /\ \/ \E g \in Runtimes :
            /\ provider[g] = "none"
            /\ \A f \in Runtimes : f < g => provider[f] # "none"
            /\ provider' = [provider EXCEPT ![g] = "live"]
            /\ runtime' = g
            /\ step' = "early" /\ UNCHANGED entry
       \/ /\ FailSetup("setup_retry")
          /\ UNCHANGED <<provider, runtime>>
    /\ UNCHANGED <<hooking, environment>>

(* The setup resumes and installs the hooks up to the next await.           *)
InstallHooks ==
    LET m == InstallEarly(Patched, runtime) IN
    /\ step = "early"
    /\ Becomes(m)
    /\ IF m.raised THEN FailSetup("setup_error")
       ELSE step' = "import" /\ UNCHANGED entry
    /\ UNCHANGED <<runtime, provider, listener, environment>>

(* Importing mqtt_apply imports the mqtt component, whose requirements may  *)
(* not be installed.                                                        *)
ImportFails ==
    /\ step = "import"
    /\ FailSetup("setup_error")
    /\ UNCHANGED <<runtime, provider, hooking, environment>>

(* The import returns; the rest of the setup has no await.                  *)
InstallLate ==
    LET withMqtt == InstallMqtt(Patched, runtime)
        m        == InstallRest(withMqtt, runtime)
    IN  /\ step = "import"
        /\ Becomes(m)
        /\ listener' = IF withMqtt.saved["mqtt"] = None THEN runtime ELSE listener
        /\ IF m.raised THEN FailSetup("setup_error")
           ELSE entry' = "loaded" /\ step' = "none"
        /\ UNCHANGED <<runtime, provider, environment>>

ListenerAfterUnloadMutant == listener

(* uninstall_mqtt_tracing drops the listener too.                           *)
ListenerAfterUnload == None

(* async_unload_entry up to its await ...                                   *)
Unload ==
    /\ entry = "loaded"
    /\ Becomes(UninstallAll(Patched))
    /\ listener' = ListenerAfterUnload
    /\ entry' = "unloading"
    /\ UNCHANGED <<step, runtime, provider, environment>>

(* ... the executor job that shuts the provider down.                       *)
Shutdown ==
    /\ entry = "unloading"
    /\ provider' = [provider EXCEPT ![runtime] = "shut_down"]
    /\ entry' = "not_loaded"
    /\ runtime' = None
    /\ UNCHANGED <<step, hooking, environment>>

(* Home Assistant does not call async_unload_entry of an entry that is not  *)
(* loaded; disabling or removing it only forgets its state.                 *)
ForgetFailed ==
    /\ entry \in {"setup_retry", "setup_error"}
    /\ entry' = "not_loaded"
    /\ UNCHANGED <<step, runtime, provider, hooking, environment>>

(* The mqtt component is added to hass.config.components ...                *)
MqttSetUp ==
    /\ mqtt = "absent"
    /\ mqtt' = "in_components"
    /\ UNCHANGED <<entry, step, runtime, provider, hooking, http>>

ListenerAppliesMutant(g) == Patched

(* _on_component_loaded                                                     *)
ListenerApplies(g) == Apply(Patched, "mqtt", g)

(* ... and component_loaded is fired: the listener removes itself and       *)
(* patches.                                                                 *)
MqttAnnounced ==
    /\ mqtt = "in_components"
    /\ mqtt' = "announced"
    /\ Becomes(IF listener = None THEN Patched ELSE ListenerApplies(listener))
    /\ listener' = None
    /\ UNCHANGED <<entry, step, runtime, provider, http>>

HttpStarts ==
    /\ ~http /\ http' = TRUE
    /\ UNCHANGED <<entry, step, runtime, provider, hooking, mqtt>>

(* The handler is registered: through the patched function or, by a caller  *)
(* that imported that before or for an id that is known, past it.           *)
Register ==
    /\ handler = None
    /\ table = "rest" => http
    /\ \/ handler' = slot[Registrar[table]]
       \/ handler' = <<>> /\ (table = "websocket" \/ IdKnown)
    /\ registered' = handler'
    /\ UNCHANGED <<entry, step, runtime, provider, slot, saved, listener, environment,
                   table, original>>

Next == \/ BeginSetup \/ Validate \/ SetupTraceRuntime \/ InstallHooks
        \/ ImportFails \/ InstallLate \/ Unload \/ Shutdown \/ ForgetFailed
        \/ MqttSetUp \/ MqttAnnounced \/ HttpStarts \/ Register

(* Home Assistant announces every component it has added.                   *)
Spec == Init /\ [][Next]_vars /\ WF_vars(MqttAnnounced)

-----------------------------------------------------------------------------
(* Types; a handler has been registered once it is there.                   *)
HandlerTypeOK ==
    /\ table \in Tables
    /\ {handler, original, registered} \subseteq Seq(Wrapper) \cup {None}
    /\ handler = None <=> registered = None

TypeOK ==
    /\ entry \in {"not_loaded", "setup", "loaded", "unloading", "setup_retry", "setup_error"}
    /\ step \in {"none", "validate", "runtime", "early", "import"}
    /\ runtime \in Runtimes \cup {None}
    /\ provider \in [Runtimes -> {"none", "live", "shut_down"}]
    /\ slot \in [Slots -> Seq(Wrapper)]
    /\ DOMAIN saved = Hooks
    /\ \A h \in Hooks : saved[h] = None \/ saved[h] \in [Patches[h] -> Seq(Wrapper)]
    /\ listener \in Runtimes \cup {None}
    /\ mqtt \in {"absent", "in_components", "announced"}
    /\ http \in BOOLEAN
    /\ HandlerTypeOK

(* No function is wrapped twice by the same module, whatever setups failed  *)
(* half way before, and no route: a second wrapper would report every call  *)
(* twice.  A command that was registered while tracing was installed has    *)
(* that wrapper for good; no more than one, the installed hook's, is ever   *)
(* put around it, however often tracing is set up again.                    *)
WrappedOnce ==
    /\ \A s \in Slots : \A i, j \in DOMAIN slot[s] :
          slot[s][i].hook = slot[s][j].hook => i = j
    /\ handler # None =>
          /\ handler \in {registered, registered \o slot[Registrar[table]]}
          /\ table = "rest" => Len(handler) <= 1

(* Once async_unload_entry has run up to its await, every patched function  *)
(* is Home Assistant's own again, also the one two modules patched, every   *)
(* handler is what its registration made it, and nothing is left that could *)
(* patch one later.                                                         *)
UnloadRestores ==
    entry = "unloading" =>
        /\ \A s \in Slots : slot[s] = <<>>
        /\ \A h \in Hooks : saved[h] = None
        /\ listener = None
        /\ handler = registered

(* No wrapper of a function, no listener waiting to place one, and no       *)
(* wrapper an installation has put around a handler hands spans to a        *)
(* provider that has been shut down.  One that a handler was registered     *)
(* with is not removed, and does (NoSpansWithoutHooks of WsCommands and     *)
(* HooksRemoved of RestRoutes are about those).                             *)
HooksExport ==
    /\ \A s \in Slots : \A i \in DOMAIN slot[s] : provider[slot[s][i].runtime] # "shut_down"
    /\ listener # None => provider[listener] # "shut_down"
    /\ handler # None =>
          \A i \in DOMAIN handler :
              i > Len(registered) => provider[handler[i].runtime] # "shut_down"

(* A loaded entry has patched every function, with its own runtime; only    *)
(* MQTT's may still be waiting, for a component not announced yet.          *)
LoadedIsHooked ==
    entry = "loaded" =>
        /\ provider[runtime] = "live"
        /\ \A h \in Hooks \ {"mqtt"} : \A s \in Patches[h] :
              [hook |-> h, runtime |-> runtime] \in {slot[s][i] : i \in DOMAIN slot[s]}
        /\ \/ slot["mqtt_client"] = <<[hook |-> "mqtt", runtime |-> runtime]>>
           \/ slot["mqtt_client"] = <<>> /\ listener = runtime /\ mqtt # "announced"

(* An mqtt component that finishes loading after the entry is traced, as    *)
(* long as the entry stays loaded.                                          *)
MqttGetsTraced ==
    (entry = "loaded" /\ mqtt = "in_components")
        ~> (entry # "loaded" \/ slot["mqtt_client"] # <<>>)

(* The patches implement TracingSwitch: whatever fails half way, the hooks  *)
(* that need nothing come together, the others join their runtime, none     *)
(* changes hands, all go at once, and only then a provider is shut down.    *)
Tracers(slots) ==
    [h \in Hooks |-> {g \in Runtimes : \E s \in Patches[h] : \E i \in DOMAIN slots[s] :
                                          slots[s][i] = [hook |-> h, runtime |-> g]}]

Switch == INSTANCE TracingSwitch WITH
              Late    <- {"mqtt", "rest"},
              tracers <- Tracers(slot),
              closed  <- {g \in Runtimes : provider[g] = "shut_down"}

OneSwitch == Switch!Spec

(* "... is already installed" is about an entry that is loaded: a setup     *)
(* finds no hooks of an earlier one.                                        *)
SetupFindsNoHooks ==
    step = "early" => \A h \in Hooks : saved[h] = None
=============================================================================
