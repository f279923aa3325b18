---------------------------- MODULE WsCommands ----------------------------
(* The table of WebSocket commands (hass.data["websocket_api"]) while       *)
(* websocket_tracing.py is installed over it and removed again, and other   *)
(* integrations go on registering commands.  Lifecycle says when install    *)
(* and uninstall are called; here they alternate.                           *)
EXTENDS Naturals, Sequences, FiniteSets

CONSTANTS
    Command,            \* names of commands
    CallService,        \* the member of _WS_COMMANDS_ACCEPTING_TRACE_CONTEXT
    None,               \* no entry, no patch
    MaxInstalls,        \* bound: installations in a behaviour
    MaxRegistrations    \* bound: registrations in a behaviour

ASSUME CommandAssumption == CallService \in Command
ASSUME BoundAssumption   == MaxInstalls \in Nat /\ MaxRegistrations \in Nat \ {0}

(* How a handler works: at once, in the task that async_response makes, or  *)
(* in such a task behind one more decorator, require_admin for example.     *)
Kinds == {"sync", "async", "guarded"}

(* What messages are checked against; extended, they may have trace fields. *)
Schemas == {"False", "plain", "extended"}

Installs == 1 .. MaxInstalls

(* The handler that some registration brought, inside traced_handlers, and  *)
(* its schema.  A traced_handler is named by the installation that made it. *)
Entry == [body : 1 .. MaxRegistrations, layers : Seq(Installs), schema : Schemas]

(* named: the command's name is an argument, and not taken from the handler. *)
Registration == [command : Command, kind : Kinds, schema : Schemas,
                 named : BOOLEAN, hooked : Installs \cup {None},
                 during : Installs \cup {None}]

ASSUME NoneAssumption == /\ None \notin Entry /\ None \notin Installs
                         /\ None \notin [Command -> Entry \cup {None}]

VARIABLES
    handlers,       \* command -> (handler, schema), or None
    patch,          \* what is saved while installed, or None
    installs,       \* how often install_websocket_tracing has run
    registered      \* history: the registrations, oldest first, with the
                    \* installation that was there when they were made, and
                    \* the one that was asked to make them, or None

vars == <<handlers, patch, installs, registered>>

-----------------------------------------------------------------------------
(* Definitions named ...Mutant are plausible faults of the definition that  *)
(* follows them; no specification uses them.                                *)
IsAsyncMutant(kind, layers) == FALSE

(* _is_async_websocket_handler: the name of the code object gives away what *)
(* async_response made, unless something has been put around it.            *)
IsAsync(kind, layers) == kind = "async" /\ layers = <<>>

(* _wrap_handler                                                            *)
Wrap(kind, layers, install) ==
    IF IsAsync(kind, layers) THEN layers ELSE Append(layers, install)

Extend(schema) == IF schema = "False" THEN schema ELSE "extended"

(* _wrap_existing_handlers, then _extend_trace_context_ws_schemas           *)
Traced(install) ==
    [c \in Command |->
        IF handlers[c] = None THEN None
        ELSE [handlers[c] EXCEPT
                 !.layers = Wrap(registered[handlers[c].body].kind, @, install),
                 !.schema = IF c = CallService THEN Extend(@) ELSE @]]

SavedMutant(install) == Traced(install)

(* original_handlers: a copy made before anything is wrapped.               *)
Saved(install) == handlers

RestoredMutant == patch

RestoredWrappedMutant ==
    [c \in Command |-> IF patch[c] # None /\ handlers[c].layers # <<>>
                       THEN patch[c] ELSE handlers[c]]

(* restore_handlers.  The schemas, restored before, are in what is saved.   *)
Restored == [c \in Command |-> IF patch[c] # None THEN patch[c] ELSE handlers[c]]

StoredMutant(body, r) == [body |-> body, layers |-> <<>>, schema |-> r.schema]

(* What becomes of a registration: traced_register_command wraps what it is *)
(* given, and adds the trace fields to a schema that comes with the name of *)
(* the command, not to one that comes with the handler.                     *)
Stored(body, r) ==
    [body   |-> body,
     layers |-> IF r.hooked = None THEN <<>> ELSE Wrap(r.kind, <<>>, r.hooked),
     schema |-> IF r.hooked # None /\ r.named /\ r.command = CallService
                THEN Extend(r.schema) ELSE r.schema]

-----------------------------------------------------------------------------
(* websocket_api has registered its own commands before.                    *)
Init == LET first == [command |-> CallService, kind |-> "async",
                      schema |-> "plain", named |-> FALSE, hooked |-> None, during |-> None]
        IN  /\ registered = <<first>>
            /\ handlers = [c \in Command |->
                             IF c = CallService THEN Stored(1, first) ELSE None]
            /\ patch = None
            /\ installs = 0

(* install_websocket_tracing                                                *)
Install == /\ patch = None
           /\ installs < MaxInstalls
           /\ installs' = installs + 1
           /\ patch' = Saved(installs + 1)
           /\ handlers' = Traced(installs + 1)
           /\ UNCHANGED registered

(* uninstall_websocket_tracing                                              *)
Uninstall == /\ patch # None
             /\ handlers' = Restored
             /\ patch' = None
             /\ UNCHANGED <<installs, registered>>

(* async_register_command, which replaces an earlier registration.  It runs *)
(* through the hook if one is installed and the caller looks the function   *)
(* up in websocket_api (late) and has not imported it by name before.       *)
RegisterCommand(c, kind, schema, named, late) ==
    LET r == [command |-> c, kind |-> kind, schema |-> schema, named |-> named,
              hooked |-> IF patch # None /\ late THEN installs ELSE None,
              during |-> IF patch # None THEN installs ELSE None]
        body == Len(registered) + 1
    IN  /\ body <= MaxRegistrations
        /\ named => schema = "plain"
        /\ registered' = Append(registered, r)
        /\ handlers' = [handlers EXCEPT ![c] = Stored(body, r)]
        /\ UNCHANGED <<patch, installs>>

Next == \/ Install
        \/ Uninstall
        \/ \E c \in Command, kind \in Kinds, schema \in {"False", "plain"},
              named, late \in BOOLEAN : RegisterCommand(c, kind, schema, named, late)

Spec == Init /\ [][Next]_vars

-----------------------------------------------------------------------------
(* The tracers that make a span of a message: one span per traced_handler,  *)
(* from the outside in, and one of the patched _handle_async_response.      *)
Spans(entry) ==
    LET n == Len(entry.layers) IN
    [i \in 1 .. n |-> entry.layers[n + 1 - i]]
        \o (IF registered[entry.body].kind # "sync" /\ patch # None
            THEN <<installs>> ELSE <<>>)

CurrentSpans(entry) == Cardinality({i \in DOMAIN Spans(entry) : Spans(entry)[i] = installs})

(* Types; a command that was registered once has a handler ever after, one   *)
(* that was registered for it.                                              *)
TypeOK ==
    /\ handlers \in [Command -> Entry \cup {None}]
    /\ patch = None \/ patch \in [Command -> Entry \cup {None}]
    /\ installs \in 0 .. MaxInstalls
    /\ registered \in Seq(Registration)
    /\ \A i \in DOMAIN registered : handlers[registered[i].command] # None
    /\ \A c \in Command : handlers[c] # None =>
          /\ handlers[c].body \in DOMAIN registered
          /\ registered[handlers[c].body].command = c

(* While tracing is installed, a message makes one span of the current      *)
(* tracer, however often tracing was installed, removed and bypassed before: *)
(* none if the registration of a synchronous handler bypassed the hook, and *)
(* two if async_response is hidden behind another decorator, which is what  *)
(* comes of the handler not being recognized (AsyncIsRecognized).           *)
Bypassed(entry) ==
    patch[registered[entry.body].command] # None
        => patch[registered[entry.body].command].body # entry.body

SpansPerMessage ==
    patch # None =>
        \A c \in Command : handlers[c] # None =>
            LET r      == registered[handlers[c].body]
                missed == Bypassed(handlers[c]) /\ r.hooked # installs
            IN  CurrentSpans(handlers[c]) =
                  CASE r.kind = "async"   -> 1
                    [] r.kind = "sync"    -> IF missed THEN 0 ELSE 1
                    [] r.kind = "guarded" -> IF missed THEN 1 ELSE 2

(* Removing tracing takes away exactly what installing it put there: every  *)
(* handler is as its registration left it, the schema included.             *)
AsRegistered ==
    patch = None =>
        \A c \in Command : handlers[c] # None =>
            handlers[c] = Stored(handlers[c].body, registered[handlers[c].body])

(* The handler in force is that of the command's newest registration, with  *)
(* one exception: a registration made while tracing is installed, for a     *)
(* command there was before, lasts until tracing is removed.                *)
Temporary(j) ==
    /\ registered[j].during # None
    /\ \E i \in 1 .. j - 1 : /\ registered[i].command = registered[j].command
                             /\ registered[i].during # registered[j].during

Outlived(j) == Temporary(j) /\ (patch # None => registered[j].during # installs)

NewestInForce ==
    \A c \in Command : handlers[c] # None =>
        /\ ~Outlived(handlers[c].body)
        /\ \A j \in DOMAIN registered :
              (registered[j].command = c /\ ~Outlived(j)) => j <= handlers[c].body

(* What "Remove WebSocket API tracing hooks." says: without the hooks, no   *)
(* message makes a span.                                                    *)
NoSpansWithoutHooks ==
    patch = None => \A c \in Command : handlers[c] # None => Spans(handlers[c]) = <<>>

(* What "Return True when the handler schedules work via async_response."   *)
(* says: a handler whose work goes through the patched                      *)
(* _handle_async_response gets no traced_handler besides.                   *)
AsyncIsRecognized ==
    \A c \in Command :
        (handlers[c] # None /\ registered[handlers[c].body].kind # "sync")
            => handlers[c].layers = <<>>
=============================================================================
