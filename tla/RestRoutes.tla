---------------------------- MODULE RestRoutes ----------------------------
(* rest_tracing.py: the handlers of the REST API's routes are wrapped in    *)
(* place, handlers of views registered later by way of a patched factory.   *)
(* Which handlers are wrapped already is kept as a set of object ids, that  *)
(* outlives the objects; Python gives the id of a dead object to a new one. *)
EXTENDS Naturals, Sequences, FiniteSets

CONSTANTS
    Route,          \* the routes that may come to exist
    Api,            \* those below /api (_is_api_route)
    Id,             \* object ids
    None,           \* Python's None; who made a handler that is not ours
    MaxInstalls     \* bound: calls of install_rest_tracing

ASSUME RestRoutesAssumption ==
    /\ Api \subseteq Route
    /\ MaxInstalls \in Nat /\ None \notin Nat

VARIABLES
    route,          \* the handler of every route: its layers, outermost last
    traced,         \* _TRACED_HANDLER_IDS
    patch,          \* the RestTracingPatch in hass.data, or None
    viewContext,    \* how HomeAssistantView.context is kept in its class
    installs,       \* how often tracing has been installed
    registered      \* history: every handler as it was registered

vars == <<route, traced, patch, viewContext, installs, registered>>

(* A function object: a view's handler (by None), or the traced_handle that *)
(* an installation put around the layers before it.                         *)
Layer   == [id : Id, by : (1 .. MaxInstalls) \cup {None}]
Handler == Seq(Layer)

(* A RestTracingPatch: which installation it is, and the handlers it wrapped.*)
PatchOf(R) == [number : 1 .. MaxInstalls, wrapped : [R -> Handler]]

ASSUME NoneIsNoPatch == \A R \in SUBSET Route : None \notin PatchOf(R)

Outer(handler) == handler[Len(handler)]

LayersOf(handlers) == UNION {{handlers[r][i] : i \in DOMAIN handlers[r]} : r \in DOMAIN handlers}

(* A new object may have any id that no living object has.                  *)
FreeIds == Id \ {layer.id : layer \in LayersOf(route)}

(* Definitions named ...Mutant are plausible faults of the definition that  *)
(* follows them; no specification uses them.                                *)
KnownMutant(handler) == FALSE

(* id(handler) in _TRACED_HANDLER_IDS                                       *)
Known(handler) == Outer(handler).id \in traced

Wrap(handler, id, number) == Append(handler, [id |-> id, by |-> number])

-----------------------------------------------------------------------------
(* Before the first setup Home Assistant's own views are there already.     *)
Init == /\ \E R \in SUBSET Route, id \in Id :
              route = [r \in R |-> <<[id |-> id, by |-> None]>>]
        /\ traced = {}
        /\ patch = None
        /\ viewContext = "staticmethod"
        /\ installs = 0
        /\ registered = route

UnknownApiRoutesMutant == {r \in DOMAIN route \cap Api : traced = {}}

(* The loop of install_rest_tracing wraps what is an API route and not one  *)
(* of our handlers.                                                         *)
UnknownApiRoutes == {r \in DOMAIN route \cap Api : ~Known(route[r])}

(* install_rest_tracing.  Every wrapper is a new object; the ids they get   *)
(* are different, since they live at the same time.                         *)
Install ==
    LET R      == UnknownApiRoutes
        number == installs + 1
    IN  /\ patch = None
        /\ installs < MaxInstalls
        /\ \E id \in [R -> FreeIds] :
              /\ \A r, q \in R : id[r] = id[q] => r = q
              /\ route' = [r \in DOMAIN route |-> IF r \in R
                                                  THEN Wrap(route[r], id[r], number)
                                                  ELSE route[r]]
              /\ traced' = traced \cup {id[r] : r \in R}
        /\ patch' = [number |-> number, wrapped |-> [r \in R |-> route[r]]]
        /\ viewContext' = "staticmethod"
        /\ installs' = number
        /\ UNCHANGED registered

(* The view whose context method was saved had been looked up through the   *)
(* class, which gives the plain function: that is what is put back.         *)
Saved == "function"

RestoredMutant == route

RestoredShortMutant == patch.wrapped

(* uninstall_rest_tracing: the handlers that are put back ...               *)
Restored == [r \in DOMAIN route |-> IF r \in DOMAIN patch.wrapped
                                    THEN patch.wrapped[r] ELSE route[r]]

(* ... and the ids that are discarded, those of the originals.              *)
Discarded == {Outer(patch.wrapped[r]).id : r \in DOMAIN patch.wrapped}

Uninstall ==
    /\ patch # None
    /\ route' = Restored
    /\ traced' = traced \ Discarded
    /\ patch' = None
    /\ viewContext' = Saved
    /\ UNCHANGED <<installs, registered>>

(* A view is registered: HomeAssistantView.register has one handler made by *)
(* request_handler_factory for all its urls.  While tracing is installed    *)
(* the factory wraps it, whether it is an API view or not.                  *)
RegisterView(R) ==
    \E id \in FreeIds :
        LET own   == <<[id |-> id, by |-> None]>>
            Put(handler) ==
                /\ route' = [r \in DOMAIN route \cup R |-> IF r \in R THEN handler ELSE route[r]]
                /\ registered' = [r \in DOMAIN registered \cup R |->
                                     IF r \in R THEN handler ELSE registered[r]]
        IN  /\ R # {} /\ R \cap DOMAIN route = {}
            /\ \/ /\ patch = None \/ Known(own)
                  /\ Put(own)
                  /\ UNCHANGED traced
               \/ \E wrapper \in FreeIds \ {id} :
                  /\ patch # None /\ ~Known(own)
                  /\ Put(Wrap(own, wrapper, patch.number))
                  /\ traced' = traced \cup {wrapper}
            /\ UNCHANGED <<patch, viewContext, installs>>

Next == Install \/ Uninstall \/ \E R \in SUBSET Route : RegisterView(R)

Spec == Init /\ [][Next]_vars

-----------------------------------------------------------------------------
(* What a request to route r produces: a span per layer that is ours, made  *)
(* by the tracer of the installation it belongs to.                         *)
SpansOf(r) == {i \in DOMAIN route[r] : route[r][i].by # None}

(* Types.                                                                   *)
TypeOK ==
    /\ DOMAIN route \subseteq Route
    /\ \A r \in DOMAIN route : route[r] \in Handler /\ route[r] # <<>>
    /\ traced \subseteq Id
    /\ patch # None =>
          /\ \E R \in SUBSET DOMAIN route : patch \in PatchOf(R)
          /\ patch.number = installs
          /\ \A r \in DOMAIN patch.wrapped : patch.wrapped[r] # <<>>
    /\ viewContext \in {"staticmethod", "function"}
    /\ installs \in 0 .. MaxInstalls
    /\ registered \in [DOMAIN route -> Handler]

(* However often tracing is installed and removed, and whenever views are   *)
(* registered in between, a request to a route makes at most one span.      *)
OneSpanPerRequest ==
    \A r \in DOMAIN route : Cardinality(SpansOf(r)) <= 1

(* While no tracing is installed every route has the very handler it was    *)
(* registered with.  That one is traced if tracing was installed then, and  *)
(* remains so: what the code promises of it is HooksRemoved.                *)
UninstallRestores ==
    patch = None => route = registered

(* While tracing is installed an API route is traced by this installation;  *)
(* by an earlier one if it was registered then; or not at all, because its  *)
(* handler got the id of a traced_handle that is no more.                   *)
WhoTraces ==
    patch # None =>
        \A r \in DOMAIN route \cap Api :
            \/ Outer(route[r]).by = patch.number
            \/ Outer(route[r]).by # None /\ route[r] = registered[r]
            \/ /\ Outer(route[r]).by = None
               /\ Outer(route[r]).id \in traced

(* "Remove REST API tracing hooks." says that without tracing the views'    *)
(* context method is as it was before, one that is called without the view, *)
(* and that no request makes a span.  At least one of the two.              *)
HooksRemoved ==
    patch = None => \/ viewContext = "staticmethod"
                    \/ \A r \in DOMAIN route : SpansOf(r) = {}
=============================================================================
