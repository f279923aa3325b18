-------------------------- MODULE LifecycleProofs --------------------------
(* Proofs about Lifecycle for any number of trace runtimes.                 *)
EXTENDS Lifecycle, SequenceTheorems, TLAPS

Early == {"websocket", "event", "propagation", "service"}

(* What is patched and saved when runtime g has installed the hooks H.      *)
SlotWith(H, g, s) ==
    CASE s = "register_command"   -> IF "websocket" \in H THEN <<By("websocket", g)>> ELSE <<>>
      [] s = "connection_context" -> IF "websocket" \in H
                                     THEN IF "event" \in H
                                          THEN <<By("websocket", g), By("event", g)>>
                                          ELSE <<By("websocket", g)>>
                                     ELSE <<>>
      [] s = "event_bus"          -> IF "event" \in H THEN <<By("event", g)>> ELSE <<>>
      [] s = "ws_messages"        -> IF "propagation" \in H THEN <<By("propagation", g)>> ELSE <<>>
      [] s = "execute_service"    -> IF "service" \in H THEN <<By("service", g)>> ELSE <<>>
      [] s = "mqtt_client"        -> IF "mqtt" \in H THEN <<By("mqtt", g)>> ELSE <<>>
      [] s = "handler_factory"    -> IF "rest" \in H THEN <<By("rest", g)>> ELSE <<>>

SavedBy(h, g) ==
    [s \in Patches[h] |-> IF h = "event" /\ s = "connection_context"
                          THEN <<By("websocket", g)>> ELSE <<>>]

SlotsWith(H, g) == [s \in Slots |-> SlotWith(H, g, s)]
SavedWith(H, g) == [h \in Hooks |-> IF h \in H THEN SavedBy(h, g) ELSE None]

PatchedWith(H, g) == [slot |-> SlotsWith(H, g), saved |-> SavedWith(H, g), raised |-> FALSE]

(* The event hook is installed on top of the WebSocket hook.                *)
InOrder(H) == "event" \in H => "websocket" \in H

Hooked(H, g) == slot = SlotsWith(H, g) /\ saved = SavedWith(H, g)

-----------------------------------------------------------------------------
(* What the hooks patch.                                                    *)
LEMMA PatchesOf ==
    /\ Patches["websocket"] = {"register_command", "connection_context"}
    /\ Patches["event"] = {"event_bus", "connection_context"}
    /\ Patches["propagation"] = {"ws_messages"}
    /\ Patches["service"] = {"execute_service"}
    /\ Patches["mqtt"] = {"mqtt_client"}
    /\ Patches["rest"] = {"handler_factory"}
BY DEF Patches

(* What a hook saves is never None.                                         *)
LEMMA SavedType ==
    ASSUME NEW h \in Hooks, NEW g \in Runtimes
    PROVE  SavedBy(h, g) \in [Patches[h] -> Seq(Wrapper)] /\ SavedBy(h, g) # None
<1>1. By("websocket", g) \in Wrapper
  BY DEF By, Wrapper, Hooks
<1>2. <<By("websocket", g)>> \in Seq(Wrapper) /\ <<>> \in Seq(Wrapper)
  BY <1>1
<1>3. SavedBy(h, g) \in [Patches[h] -> Seq(Wrapper)]
  BY <1>2 DEF SavedBy
<1> QED BY <1>3, NoneIsNothingSaved

(* Wrapping a function that is wrapped at most once.                        *)
LEMMA AppendWrapper ==
    ASSUME NEW x, NEW y
    PROVE  Append(<<>>, x) = <<x>> /\ Append(<<x>>, y) = <<x, y>>
<1>1. <<>> \in Seq({x, y}) /\ <<x>> \in Seq({x, y}) /\ <<x, y>> \in Seq({x, y})
  OBVIOUS
<1>2. /\ Append(<<>>, x) \in Seq({x, y}) /\ Len(Append(<<>>, x)) = 1
      /\ Append(<<>>, x)[1] = x
  BY <1>1, AppendProperties
<1>3. /\ Append(<<x>>, y) \in Seq({x, y}) /\ Len(Append(<<x>>, y)) = 2
      /\ Append(<<x>>, y)[1] = x /\ Append(<<x>>, y)[2] = y
  BY <1>1, AppendProperties
<1>4. \A i \in 1 .. 2 : Append(<<x>>, y)[i] = <<x, y>>[i]
  BY <1>3
<1>5. \A i \in 1 .. 1 : Append(<<>>, x)[i] = <<x>>[i]
  BY <1>2
<1> QED BY <1>1, <1>2, <1>3, <1>4, <1>5, SeqEqual

(* Applying one more hook, in order.                                        *)
LEMMA ApplyAdds ==
    ASSUME NEW H \in SUBSET Hooks, NEW g \in Runtimes, NEW h \in Hooks \ H, NEW raised \in BOOLEAN,
           InOrder(H \cup {h}), h = "websocket" => "event" \notin H
    PROVE  Apply([slot |-> SlotsWith(H, g), saved |-> SavedWith(H, g), raised |-> raised], h, g)
           = [slot |-> SlotsWith(H \cup {h}, g), saved |-> SavedWith(H \cup {h}, g),
              raised |-> raised]
<1> DEFINE m == [slot |-> SlotsWith(H, g), saved |-> SavedWith(H, g), raised |-> raised]
           a == [s \in Slots |-> IF s \in Patches[h]
                                 THEN Append(SlotsWith(H, g)[s], By(h, g))
                                 ELSE SlotsWith(H, g)[s]]
           b == [s \in Patches[h] |-> SlotsWith(H, g)[s]]
<1>1. ASSUME NEW s \in Slots PROVE a[s] = SlotWith(H \cup {h}, g, s)
  <2>1. SlotsWith(H, g)[s] = SlotWith(H, g, s)
    BY DEF SlotsWith
  <2>2. a[s] = IF s \in Patches[h] THEN Append(SlotWith(H, g, s), By(h, g)) ELSE SlotWith(H, g, s)
    BY <2>1
  <2> HIDE DEF a
  <2>3. CASE h = "websocket"
    BY <2>2, <2>3, PatchesOf, AppendWrapper DEF SlotWith, Slots, InOrder
  <2>4. CASE h = "event"
    BY <2>2, <2>4, PatchesOf, AppendWrapper DEF SlotWith, Slots, InOrder
  <2>5. CASE h \in {"propagation", "service"}
    BY <2>2, <2>5, PatchesOf, AppendWrapper DEF SlotWith, Slots, InOrder
  <2>6. CASE h \in {"mqtt", "rest"}
    BY <2>2, <2>6, PatchesOf, AppendWrapper DEF SlotWith, Slots, InOrder
  <2> QED BY <2>3, <2>4, <2>5, <2>6 DEF Hooks
<1>2. a = SlotsWith(H \cup {h}, g)
  BY <1>1 DEF SlotsWith
<1>3. b = SavedBy(h, g)
  <2>1. ASSUME NEW s \in Patches[h]
        PROVE  SlotsWith(H, g)[s] = IF h = "event" /\ s = "connection_context"
                                    THEN <<By("websocket", g)>> ELSE <<>>
    <3>1. s \in Slots
      BY PatchesOf DEF Slots, Hooks
    <3>2. SlotsWith(H, g)[s] = SlotWith(H, g, s)
      BY <3>1 DEF SlotsWith
    <3> QED BY <3>1, <3>2, PatchesOf DEF SlotWith, Slots, Hooks, InOrder
  <2> QED BY <2>1 DEF SavedBy
<1>4. [SavedWith(H, g) EXCEPT ![h] = SavedBy(h, g)] = SavedWith(H \cup {h}, g)
  BY DEF SavedWith
<1>5. [SavedWith(H, g) EXCEPT ![h] = b] = SavedWith(H \cup {h}, g)
  BY <1>3, <1>4
<1>6. /\ m.slot = SlotsWith(H, g) /\ m.saved = SavedWith(H, g) /\ m.raised = raised
  OBVIOUS
<1>7. Apply(m, h, g) = [slot |-> a, saved |-> [SavedWith(H, g) EXCEPT ![h] = b],
                        raised |-> raised]
  BY <1>6 DEF Apply, By
<1> QED BY <1>2, <1>5, <1>7

(* The same for install_..., of a hook that is not installed.               *)
LEMMA InstallAdds ==
    ASSUME NEW H \in SUBSET Hooks, NEW g \in Runtimes, NEW h \in Hooks \ H,
           InOrder(H \cup {h}), h = "websocket" => "event" \notin H
    PROVE  Install(PatchedWith(H, g), h, g) = PatchedWith(H \cup {h}, g)
<1>1. PatchedWith(H, g).saved[h] = None /\ ~PatchedWith(H, g).raised
  BY DEF PatchedWith, SavedWith
<1>2. Install(PatchedWith(H, g), h, g) = Apply(PatchedWith(H, g), h, g)
  BY <1>1 DEF Install
<1> QED BY <1>2, ApplyAdds DEF PatchedWith

(* uninstall_... takes back the hook that was applied last to its slots.    *)
LEMMA UninstallRemoves ==
    ASSUME NEW H \in SUBSET Hooks, NEW g \in Runtimes, NEW h \in Hooks,
           InOrder(H), h = "websocket" => "event" \notin H
    PROVE  Uninstall(PatchedWith(H, g), h) = PatchedWith(H \ {h}, g)
<1> DEFINE m == PatchedWith(H, g)
           a == [s \in Slots |-> IF s \in Patches[h] THEN SavedBy(h, g)[s] ELSE SlotsWith(H, g)[s]]
<1>1. CASE h \notin H
  <2>1. m.saved[h] = None /\ H \ {h} = H
    BY <1>1 DEF PatchedWith, SavedWith
  <2>2. Uninstall(m, h) = m
    BY <2>1 DEF Uninstall
  <2> QED BY <2>1, <2>2
<1>2. CASE h \in H
  <2>1. m.saved[h] = SavedBy(h, g) /\ m.saved[h] # None
    BY <1>2, SavedType DEF PatchedWith, SavedWith
  <2>2. ASSUME NEW s \in Slots PROVE a[s] = SlotWith(H \ {h}, g, s)
    <3>1. a[s] = IF s \in Patches[h] THEN SavedBy(h, g)[s] ELSE SlotWith(H, g, s)
      BY DEF SlotsWith
    <3>2. s \in Patches[h] => SavedBy(h, g)[s] = IF h = "event" /\ s = "connection_context"
                                                  THEN <<By("websocket", g)>> ELSE <<>>
      BY DEF SavedBy
    <3>3. CASE h = "websocket"
      BY <3>1, <3>2, <3>3, PatchesOf DEF SlotWith, Slots, InOrder
    <3>4. CASE h = "event"
      BY <1>2, <3>1, <3>2, <3>4, PatchesOf DEF SlotWith, Slots, InOrder
    <3>5. CASE h \in {"propagation", "service"}
      BY <3>1, <3>2, <3>5, PatchesOf DEF SlotWith, Slots, InOrder
    <3>6. CASE h \in {"mqtt", "rest"}
      BY <3>1, <3>2, <3>6, PatchesOf DEF SlotWith, Slots, InOrder
    <3> QED BY <3>3, <3>4, <3>5, <3>6 DEF Hooks
  <2>3. a = SlotsWith(H \ {h}, g)
    BY <2>2 DEF SlotsWith
  <2>4. [SavedWith(H, g) EXCEPT ![h] = None] = SavedWith(H \ {h}, g)
    BY DEF SavedWith
  <2>5. /\ m.slot = SlotsWith(H, g) /\ m.saved = SavedWith(H, g) /\ m.raised = FALSE
    BY DEF PatchedWith
  <2>6. Uninstall(m, h) = [slot |-> a, saved |-> [SavedWith(H, g) EXCEPT ![h] = None],
                           raised |-> FALSE]
    BY <2>1, <2>5 DEF Uninstall
  <2> QED BY <2>3, <2>4, <2>6 DEF PatchedWith
<1> QED BY <1>1, <1>2

(* Installing when the WebSocket hook is already there, or after a failure, *)
(* changes no slot and saves nothing.                                       *)
LEMMA InstallRefused ==
    ASSUME NEW H \in SUBSET Hooks, NEW g \in Runtimes, NEW f, "websocket" \in H
    PROVE  LET m == InstallEarly(PatchedWith(H, g), f)
           IN  m.slot = SlotsWith(H, g) /\ m.saved = SavedWith(H, g) /\ m.raised = TRUE
<1> DEFINE m == PatchedWith(H, g)
           n == Install(m, "websocket", f)
<1>1. m.saved["websocket"] # None /\ m.raised = FALSE
  BY SavedType DEF PatchedWith, SavedWith, Hooks
<1>2. n = [m EXCEPT !.raised = TRUE]
  BY <1>1 DEF Install
<1>3. n.slot = SlotsWith(H, g) /\ n.saved = SavedWith(H, g) /\ n.raised = TRUE
  BY <1>2 DEF PatchedWith
<1> HIDE DEF n
<1>4. \A h : Install(n, h, f) = n
  BY <1>3 DEF Install
<1>5. InstallEarly(m, f) = n
  BY <1>4 DEF InstallEarly, n
<1> QED BY <1>3, <1>5

(* The hooks that are installed before the last await.                      *)
LEMMA InstallEarlyAdds ==
    ASSUME NEW g \in Runtimes
    PROVE  InstallEarly(PatchedWith({}, g), g) = PatchedWith(Early, g)
<1>1. Install(PatchedWith({}, g), "websocket", g) = PatchedWith({"websocket"}, g)
  <2>1. {} \cup {"websocket"} = {"websocket"}
    OBVIOUS
  <2> QED BY <2>1, InstallAdds DEF Hooks, InOrder
<1>2. Install(PatchedWith({"websocket"}, g), "event", g) = PatchedWith({"websocket", "event"}, g)
  <2>1. {"websocket"} \cup {"event"} = {"websocket", "event"}
    OBVIOUS
  <2> QED BY <2>1, InstallAdds DEF Hooks, InOrder
<1>3. Install(PatchedWith({"websocket", "event"}, g), "propagation", g)
      = PatchedWith({"websocket", "event", "propagation"}, g)
  <2>1. {"websocket", "event"} \cup {"propagation"} = {"websocket", "event", "propagation"}
    OBVIOUS
  <2> QED BY <2>1, InstallAdds DEF Hooks, InOrder
<1>4. Install(PatchedWith({"websocket", "event", "propagation"}, g), "service", g)
      = PatchedWith(Early, g)
  <2>1. {"websocket", "event", "propagation"} \cup {"service"} = Early
    BY DEF Early
  <2> QED BY <2>1, InstallAdds DEF Hooks, InOrder
<1> QED BY <1>1, <1>2, <1>3, <1>4 DEF InstallEarly

(* async_unload_entry removes all hooks, in an order that respects the one  *)
(* in which they were placed.                                               *)
LEMMA UninstallAllRemoves ==
    ASSUME NEW H \in SUBSET Hooks, NEW g \in Runtimes, InOrder(H)
    PROVE  UninstallAll(PatchedWith(H, g)) = PatchedWith({}, g)
<1> DEFINE H1 == H \ {"rest"}
           H2 == H1 \ {"mqtt"}
           H3 == H2 \ {"service"}
           H4 == H3 \ {"event"}
           H5 == H4 \ {"propagation"}
<1>0. /\ InOrder(H1) /\ InOrder(H2) /\ InOrder(H3) /\ InOrder(H4) /\ InOrder(H5)
      /\ "event" \notin H4 /\ "event" \notin H5
      /\ H1 \in SUBSET Hooks /\ H2 \in SUBSET Hooks /\ H3 \in SUBSET Hooks
      /\ H4 \in SUBSET Hooks /\ H5 \in SUBSET Hooks
  BY DEF InOrder
<1>7. /\ H1 = H \ {"rest"} /\ H2 = H1 \ {"mqtt"} /\ H3 = H2 \ {"service"}
      /\ H4 = H3 \ {"event"} /\ H5 = H4 \ {"propagation"} /\ H5 \ {"websocket"} = {}
  BY DEF Hooks
<1> HIDE DEF H1, H2, H3, H4, H5
<1>8. \A K \in SUBSET Hooks, h \in Hooks :
        (InOrder(K) /\ (h = "websocket" => "event" \notin K))
            => Uninstall(PatchedWith(K, g), h) = PatchedWith(K \ {h}, g)
  BY UninstallRemoves
<1>1. Uninstall(PatchedWith(H, g), "rest") = PatchedWith(H1, g)
  <2>1. Uninstall(PatchedWith(H, g), "rest") = PatchedWith(H \ {"rest"}, g)
    BY <1>0, <1>8 DEF Hooks
  <2> QED BY <2>1, <1>7
<1>2. Uninstall(PatchedWith(H1, g), "mqtt") = PatchedWith(H2, g)
  <2>1. Uninstall(PatchedWith(H1, g), "mqtt") = PatchedWith(H1 \ {"mqtt"}, g)
    BY <1>0, <1>8 DEF Hooks
  <2> QED BY <2>1, <1>7
<1>3. Uninstall(PatchedWith(H2, g), "service") = PatchedWith(H3, g)
  <2>1. Uninstall(PatchedWith(H2, g), "service") = PatchedWith(H2 \ {"service"}, g)
    BY <1>0, <1>8 DEF Hooks
  <2> QED BY <2>1, <1>7
<1>4. Uninstall(PatchedWith(H3, g), "event") = PatchedWith(H4, g)
  <2>1. Uninstall(PatchedWith(H3, g), "event") = PatchedWith(H3 \ {"event"}, g)
    BY <1>0, <1>8 DEF Hooks
  <2> QED BY <2>1, <1>7
<1>5. Uninstall(PatchedWith(H4, g), "propagation") = PatchedWith(H5, g)
  <2>1. Uninstall(PatchedWith(H4, g), "propagation") = PatchedWith(H4 \ {"propagation"}, g)
    BY <1>0, <1>8 DEF Hooks
  <2> QED BY <2>1, <1>7
<1>6. Uninstall(PatchedWith(H5, g), "websocket") = PatchedWith({}, g)
  <2>1. Uninstall(PatchedWith(H5, g), "websocket") = PatchedWith(H5 \ {"websocket"}, g)
    BY <1>0, <1>8 DEF Hooks
  <2> QED BY <2>1, <1>7
<1> QED BY <1>1, <1>2, <1>3, <1>4, <1>5, <1>6 DEF UninstallAll

-----------------------------------------------------------------------------
(* The inductive invariant.  Whatever is installed belongs to one runtime   *)
(* that is live, and is either nothing or all that is installed before the  *)
(* last await and perhaps more.                                             *)
Nothing == /\ slot = [s \in Slots |-> <<>>]
           /\ saved = [h \in Hooks |-> None]
           /\ listener = None

Something(H, g) == /\ Early \subseteq H
                   /\ Hooked(H, g)
                   /\ provider[g] = "live"
                   /\ listener = None \/ (listener = g /\ "mqtt" \notin H)

Shape == Nothing \/ \E g \in Runtimes, H \in SUBSET Hooks : Something(H, g)

(* Where the setup is, and what it has installed by then.                   *)
SetupInv ==
    /\ (entry = "setup") = (step # "none")
    /\ step \in {"early", "import"} => runtime \in Runtimes /\ provider[runtime] = "live"
    /\ step = "import" => Hooked(Early, runtime) /\ listener = None

EntryInv ==
    /\ entry = "loaded" =>
          /\ runtime \in Runtimes /\ provider[runtime] = "live"
          /\ \/ Hooked(Hooks, runtime) /\ listener = None
             \/ Hooked(Hooks \ {"mqtt"}, runtime) /\ listener = runtime /\ mqtt # "announced"
    /\ entry = "unloading" => Nothing

(* What is around the handler: what its registration put there and, if it   *)
(* was there when its hook was installed, one wrapper of that hook.         *)
HandlerInv ==
    /\ registered # None => \/ registered = <<>>
                            \/ \E g \in Runtimes : registered = <<By(table, g)>>
    /\ \/ original = None /\ handler = registered
       \/ /\ saved[table] # None /\ registered # None
          /\ table = "rest" => registered = <<>>
          /\ original = registered
          /\ handler = registered \o slot[Registrar[table]]

IInv == TypeOK /\ Shape /\ SetupInv /\ EntryInv /\ HandlerInv

(* No hooks, as a case of SlotsWith and SavedWith.                          *)
LEMMA NothingIsEmpty ==
    ASSUME NEW g
    PROVE  /\ SlotsWith({}, g) = [s \in Slots |-> <<>>]
           /\ SavedWith({}, g) = [h \in Hooks |-> None]
<1>1. \A s \in Slots : SlotWith({}, g, s) = <<>>
  BY DEF SlotWith, Slots
<1> QED BY <1>1 DEF SlotsWith, SavedWith

(* What is hooked has the right type.                                       *)
LEMMA HookedType ==
    ASSUME NEW H \in SUBSET Hooks, NEW g \in Runtimes
    PROVE  /\ SlotsWith(H, g) \in [Slots -> Seq(Wrapper)]
           /\ DOMAIN SavedWith(H, g) = Hooks
           /\ \A h \in Hooks : \/ SavedWith(H, g)[h] = None
                              \/ SavedWith(H, g)[h] \in [Patches[h] -> Seq(Wrapper)]
<1>1. \A h \in Hooks : By(h, g) \in Wrapper
  BY DEF By, Wrapper
<1>2. \A h \in Hooks : <<By(h, g)>> \in Seq(Wrapper)
  BY <1>1
<1>3. <<By("websocket", g), By("event", g)>> \in Seq(Wrapper) /\ <<>> \in Seq(Wrapper)
  BY <1>1 DEF Hooks
<1>4. \A s \in Slots : SlotWith(H, g, s) \in Seq(Wrapper)
  BY <1>2, <1>3 DEF SlotWith, Slots, Hooks
<1> QED BY <1>4, SavedType DEF SlotsWith, SavedWith

(* Whether an install_... has raised does not matter to what becomes of it. *)
LEMMA BecomesAlike ==
    ASSUME NEW m, NEW n, Becomes(m), n.slot = m.slot, n.saved = m.saved
    PROVE  Becomes(n)
BY DEF Becomes, HandlerFollows

(* A patched module that equals PatchedWith is hooked in the next state.    *)
LEMMA BecomesHooked ==
    ASSUME NEW H \in SUBSET Hooks, NEW g, Becomes(PatchedWith(H, g))
    PROVE  slot' = SlotsWith(H, g) /\ saved' = SavedWith(H, g)
BY DEF Becomes, PatchedWith

(* Whatever Shape says of the patched functions is a PatchedWith.           *)
LEMMA ShapeIsHooked ==
    ASSUME Shape
    PROVE  \/ Nothing
           \/ \E g \in Runtimes, H \in SUBSET Hooks :
                 Something(H, g) /\ Patched = PatchedWith(H, g)
BY DEF Shape, Something, Hooked, Patched, PatchedWith

LEMMA NothingIsHooked ==
    ASSUME Nothing, NEW g
    PROVE  Hooked({}, g)
BY NothingIsEmpty DEF Nothing, Hooked

LEMMA NothingIsPatchedWith ==
    ASSUME Nothing, NEW g
    PROVE  Patched = PatchedWith({}, g)
BY NothingIsEmpty DEF Nothing, Patched, PatchedWith

-----------------------------------------------------------------------------
(* What goes on with the one handler.  The function that registers it is    *)
(* patched, and something saved, exactly while its hook is installed.       *)
LEMMA RegistrarWith ==
    ASSUME NEW H \in SUBSET Hooks, NEW g \in Runtimes, table \in Tables
    PROVE  /\ SlotsWith(H, g)[Registrar[table]] = IF table \in H THEN <<By(table, g)>> ELSE <<>>
           /\ SavedWith(H, g)[table] = None <=> table \notin H
<1>1. table \in Hooks /\ Registrar[table] \in Slots
  BY DEF Tables, Hooks, Registrar, Slots
<1>2. SlotWith(H, g, Registrar[table]) = IF table \in H THEN <<By(table, g)>> ELSE <<>>
  <2>1. CASE table = "websocket"
    BY <2>1 DEF SlotWith, Registrar
  <2>2. CASE table = "rest"
    BY <2>2 DEF SlotWith, Registrar
  <2> QED BY <2>1, <2>2 DEF Tables
<1>3. SavedBy(table, g) # None
  BY <1>1, SavedType
<1> QED BY <1>1, <1>2, <1>3 DEF SlotsWith, SavedWith

(* Whatever is in place, there is no more than one such wrapper.            *)
LEMMA RegistrarHas ==
    ASSUME Shape, table \in Tables
    PROVE  \/ slot[Registrar[table]] = <<>> /\ saved[table] = None
           \/ \E g \in Runtimes : /\ provider[g] = "live"
                                  /\ slot[Registrar[table]] = <<By(table, g)>>
<1>1. table \in Hooks /\ Registrar[table] \in Slots
  BY DEF Tables, Hooks, Registrar, Slots
<1>2. CASE Nothing
  BY <1>1, <1>2 DEF Nothing
<1>3. ASSUME NEW g \in Runtimes, NEW H \in SUBSET Hooks, Something(H, g)
      PROVE  \/ slot[Registrar[table]] = <<>> /\ saved[table] = None
             \/ slot[Registrar[table]] = <<By(table, g)>> /\ provider[g] = "live"
  BY <1>3, RegistrarWith DEF Something, Hooked
<1> QED BY <1>2, <1>3 DEF Shape

(* A wrapper, and a wrapper around one, are sequences, so never None.       *)
LEMMA HandlerTypes == HandlerInv /\ Shape /\ table \in Tables => HandlerTypeOK
<1> SUFFICES ASSUME HandlerInv, Shape, table \in Tables PROVE HandlerTypeOK
  OBVIOUS
<1>1. \A g \in Runtimes : By(table, g) \in Wrapper
  BY DEF By, Wrapper, Tables, Hooks
<1>2. <<>> \in Seq(Wrapper) /\ \A g \in Runtimes : <<By(table, g)>> \in Seq(Wrapper)
  BY <1>1
<1>3. registered \in Seq(Wrapper) \cup {None}
  BY <1>2 DEF HandlerInv
<1>4. slot[Registrar[table]] \in Seq(Wrapper)
  BY <1>2, RegistrarHas
<1>5. ASSUME registered # None, handler = registered \o slot[Registrar[table]]
      PROVE  handler \in Seq(Wrapper) /\ handler # None
  <2>1. registered \in Seq(Wrapper)
    BY <1>3, <1>5
  <2>2. registered \o slot[Registrar[table]] \in Seq(Wrapper)
    BY <1>4, <2>1, ConcatProperties
  <2> QED BY <1>5, <2>2, NoneIsNoHandler
<1> QED BY <1>3, <1>5, NoneIsNoHandler DEF HandlerInv, HandlerTypeOK

LEMMA HandlerTypesAfter == (HandlerInv /\ Shape /\ table \in Tables => HandlerTypeOK)'
BY HandlerTypes, PTL

(* When hooks are added or removed.  A handler that is wrapped gets the     *)
(* wrapper that the function has which registers others.                    *)
LEMMA HandlerFollowsInv ==
    ASSUME HandlerInv, HandlerTypeOK, NEW m, Becomes(m),
           NEW H \in SUBSET Hooks, NEW K \in SUBSET Hooks, NEW g \in Runtimes,
           slot = SlotsWith(H, g), saved = SavedWith(H, g),
           m.slot = SlotsWith(K, g), m.saved = SavedWith(K, g),
           table \in K /\ table \notin H => runtime = g
    PROVE  HandlerInv'
<1>1. table \in Tables /\ table' = table /\ registered' = registered
  BY DEF HandlerTypeOK, Becomes
<1>2. /\ slot[Registrar[table]] = IF table \in H THEN <<By(table, g)>> ELSE <<>>
      /\ saved[table] = None <=> table \notin H
      /\ slot'[Registrar[table]] = IF table \in K THEN <<By(table, g)>> ELSE <<>>
      /\ saved'[table] = None <=> table \notin K
      /\ m.saved[table] = None <=> table \notin K
  BY <1>1, RegistrarWith DEF Becomes
<1>3. registered # None => registered = <<>> \/ \E f \in Runtimes : registered = <<By(table, f)>>
  BY DEF HandlerInv
<1>4. CASE /\ table \notin H /\ table \in K /\ handler # None
           /\ ~(table = "rest" /\ handler # <<>>)
           /\ original' = handler /\ handler' = Append(handler, By(table, runtime))
  <2>1. handler = registered /\ registered # None
    BY <1>2, <1>4 DEF HandlerInv
  <2>2. Append(registered, By(table, g)) = registered \o <<By(table, g)>>
    <3>1. By(table, g) \in Wrapper
      BY <1>1 DEF By, Wrapper, Tables, Hooks
    <3>2. registered \in Seq(Wrapper)
      BY <2>1 DEF HandlerTypeOK
    <3> QED BY <3>1, <3>2, AppendIsConcat
  <2> QED BY <1>1, <1>2, <1>3, <1>4, <2>1, <2>2 DEF HandlerInv
<1>5. CASE ~(table \in H /\ table \notin K) /\ UNCHANGED <<handler, original>>
  BY <1>1, <1>2, <1>3, <1>5 DEF HandlerInv
<1>6. CASE /\ table \in H /\ table \notin K
           /\ handler' = RestoredHandler /\ original' = None
  <2>1. handler' = registered
    BY <1>6 DEF HandlerInv, RestoredHandler
  <2> QED BY <1>1, <1>3, <1>6, <2>1 DEF HandlerInv
<1>7. \/ /\ table \notin H /\ table \in K /\ handler # None
         /\ ~(table = "rest" /\ handler # <<>>)
         /\ original' = handler /\ handler' = Append(handler, By(table, runtime))
      \/ ~(table \in H /\ table \notin K) /\ UNCHANGED <<handler, original>>
      \/ /\ table \in H /\ table \notin K
         /\ handler' = RestoredHandler /\ original' = None
  BY <1>2 DEF Becomes, HandlerFollows
<1> QED BY <1>4, <1>5, <1>6, <1>7

(* With what the hooks are after the step.                                  *)
LEMMA HandlerStepInv ==
    ASSUME HandlerInv, HandlerTypeOK, Shape',
           NEW H \in SUBSET Hooks, NEW K \in SUBSET Hooks, NEW g \in Runtimes,
           Hooked(H, g), Becomes(PatchedWith(K, g)),
           table \in K /\ table \notin H => runtime = g
    PROVE  HandlerInv' /\ HandlerTypeOK'
<1>1. PatchedWith(K, g).slot = SlotsWith(K, g) /\ PatchedWith(K, g).saved = SavedWith(K, g)
  BY DEF PatchedWith
<1>2. slot = SlotsWith(H, g) /\ saved = SavedWith(H, g)
  BY DEF Hooked
<1>3. HandlerInv'
  <2> DEFINE m == PatchedWith(K, g)
  <2>1. Becomes(m) /\ m.slot = SlotsWith(K, g) /\ m.saved = SavedWith(K, g)
    BY <1>1
  <2> HIDE DEF m
  <2> QED BY <1>2, <2>1, HandlerFollowsInv
<1>4. table' \in Tables
  BY DEF HandlerTypeOK, Becomes
<1> QED BY <1>3, <1>4, HandlerTypesAfter

(* When neither changes.                                                    *)
LEMMA HandlerStays ==
    ASSUME HandlerInv, HandlerTypeOK, UNCHANGED <<slot, saved, tables>>
    PROVE  HandlerInv' /\ HandlerTypeOK'
BY DEF HandlerInv, HandlerTypeOK, tables

LEMMA HandlerStaysIfBecomes ==
    ASSUME HandlerInv, HandlerTypeOK, NEW m, Becomes(m), m.slot = slot, m.saved = saved
    PROVE  HandlerInv' /\ HandlerTypeOK'
<1>1. UNCHANGED <<slot, saved, tables>>
  BY DEF Becomes, HandlerFollows, tables
<1> QED BY <1>1, HandlerStays

-----------------------------------------------------------------------------
(* Initially nothing is installed.                                          *)
LEMMA InitIInv == Init => IInv
<1> SUFFICES ASSUME Init PROVE IInv
  OBVIOUS
<1>1. Nothing
  BY DEF Init, Nothing
<1>2. slot \in [Slots -> Seq(Wrapper)]
  <2>1. <<>> \in Seq(Wrapper)
    OBVIOUS
  <2> QED BY <2>1 DEF Init
<1>3. HandlerInv /\ table \in Tables
  BY DEF Init, HandlerInv
<1>4. HandlerTypeOK
  BY <1>1, <1>3, HandlerTypes DEF Shape
<1>5. TypeOK
  BY <1>2, <1>4 DEF Init, TypeOK
<1>6. SetupInv /\ EntryInv
  BY DEF Init, SetupInv, EntryInv
<1> QED BY <1>1, <1>3, <1>5, <1>6 DEF IInv, Shape

(* Steps that leave the hooks, the providers and mqtt alone.                *)
LEMMA QuietStep ==
    ASSUME IInv, UNCHANGED <<slot, saved, listener, provider>>
    PROVE  Shape' /\ (Nothing => Nothing')
           /\ \A H, g : Hooked(H, g) => Hooked(H, g)'
BY DEF IInv, Shape, Nothing, Something, Hooked

LEMMA QuietHandler ==
    ASSUME IInv, UNCHANGED hooking
    PROVE  HandlerInv' /\ HandlerTypeOK'
BY HandlerStays DEF IInv, TypeOK, hooking

LEMMA BeginSetupIInv == ASSUME IInv, BeginSetup PROVE IInv'
<1>1. Shape'
  BY QuietStep DEF BeginSetup, hooking
<1>0. HandlerInv' /\ HandlerTypeOK'
  BY QuietHandler DEF BeginSetup
<1>2. TypeOK'
  BY <1>0 DEF IInv, TypeOK, BeginSetup, hooking, environment
<1>3. SetupInv' /\ EntryInv'
  BY DEF IInv, SetupInv, EntryInv, BeginSetup
<1> QED BY <1>0, <1>1, <1>2, <1>3 DEF IInv

LEMMA ValidateIInv == ASSUME IInv, Validate PROVE IInv'
<1>1. Shape'
  BY QuietStep DEF Validate, hooking
<1>0. HandlerInv' /\ HandlerTypeOK'
  BY QuietHandler DEF Validate
<1>2. TypeOK'
  BY <1>0 DEF IInv, TypeOK, Validate, FailSetup, hooking, environment
<1>3. SetupInv' /\ EntryInv'
  BY DEF IInv, SetupInv, EntryInv, Validate, FailSetup
<1> QED BY <1>0, <1>1, <1>2, <1>3 DEF IInv

LEMMA SetupTraceRuntimeIInv == ASSUME IInv, SetupTraceRuntime PROVE IInv'
<1>0. HandlerInv' /\ HandlerTypeOK'
  BY QuietHandler DEF SetupTraceRuntime
<1>1. CASE UNCHANGED provider
  <2>1. Shape'
    BY <1>1, QuietStep DEF SetupTraceRuntime, hooking
  <2>2. entry' = "setup_retry" /\ step' = "none" /\ UNCHANGED runtime
    BY <1>1 DEF SetupTraceRuntime, FailSetup, IInv, TypeOK
  <2>3. TypeOK'
    BY <1>0, <1>1, <2>2 DEF IInv, TypeOK, SetupTraceRuntime, hooking, environment
  <2>4. SetupInv' /\ EntryInv'
    BY <2>2 DEF SetupInv, EntryInv
  <2> QED BY <1>0, <2>1, <2>3, <2>4 DEF IInv
<1>2. ASSUME NEW g \in Runtimes, provider[g] = "none",
             provider' = [provider EXCEPT ![g] = "live"],
             runtime' = g, step' = "early", entry' = entry
      PROVE  IInv'
  <2> USE <1>2
  <2>1. provider' \in [Runtimes -> {"none", "live", "shut_down"}] /\ provider'[g] = "live"
    BY DEF IInv, TypeOK
  <2>2. TypeOK'
    BY <1>0, <2>1 DEF IInv, TypeOK, SetupTraceRuntime, hooking, environment
  <2>3. Shape'
    <3>1. UNCHANGED <<slot, saved, listener>>
      BY DEF SetupTraceRuntime, hooking
    <3>2. \A f \in Runtimes : provider[f] = "live" => provider'[f] = "live"
      BY DEF IInv, TypeOK
    <3> QED BY <3>1, <3>2 DEF IInv, Shape, Nothing, Something, Hooked
  <2>4. entry = "setup"
    BY DEF IInv, SetupInv, SetupTraceRuntime
  <2>5. SetupInv' /\ EntryInv'
    BY <2>1, <2>4 DEF SetupInv, EntryInv
  <2> QED BY <1>0, <2>2, <2>3, <2>5 DEF IInv
<1>3. UNCHANGED provider \/ \E g \in Runtimes :
            /\ provider[g] = "none"
            /\ provider' = [provider EXCEPT ![g] = "live"]
            /\ runtime' = g /\ step' = "early" /\ entry' = entry
  BY DEF SetupTraceRuntime
<1> QED BY <1>1, <1>2, <1>3

(* The setup places its first four hooks, or meets those of an earlier one. *)
LEMMA InstallHooksIInv == ASSUME IInv, InstallHooks PROVE IInv'
<1> DEFINE m == InstallEarly(Patched, runtime)
<1>1. step = "early" /\ runtime \in Runtimes /\ provider[runtime] = "live" /\ entry = "setup"
  BY DEF InstallHooks, IInv, SetupInv
<1>2. UNCHANGED <<runtime, provider, listener, mqtt, http>>
  BY DEF InstallHooks, environment
<1>3. CASE Nothing
  <2>1. m = PatchedWith(Early, runtime)
    BY <1>1, <1>3, NothingIsPatchedWith, InstallEarlyAdds
  <2>2. m.raised = FALSE
    BY <2>1 DEF PatchedWith
  <2>3. Becomes(PatchedWith(Early, runtime)) /\ step' = "import" /\ entry' = entry
    BY <2>1, <2>2 DEF InstallHooks
  <2>4. slot' = SlotsWith(Early, runtime) /\ saved' = SavedWith(Early, runtime)
    BY <2>3 DEF Becomes, PatchedWith
  <2>5. Early \in SUBSET Hooks /\ "mqtt" \notin Early
    BY DEF Early, Hooks
  <2>6. Hooked(Early, runtime)' /\ listener' = None /\ provider'[runtime] = "live"
    BY <1>1, <1>2, <1>3, <2>4 DEF Hooked, Nothing
  <2>7. Shape'
    BY <1>1, <1>2, <2>4, <2>5, <2>6 DEF Shape, Something, Hooked
  <2>8. HandlerInv' /\ HandlerTypeOK'
    BY <1>1, <1>3, <2>3, <2>5, <2>7, NothingIsHooked, HandlerStepInv DEF IInv, TypeOK
  <2>9. TypeOK'
    <3>1. slot' \in [Slots -> Seq(Wrapper)] /\ DOMAIN saved' = Hooks
          /\ \A h \in Hooks : saved'[h] = None \/ saved'[h] \in [Patches[h] -> Seq(Wrapper)]
      BY <1>1, <2>4, <2>5, HookedType
    <3> QED BY <1>2, <2>3, <2>8, <3>1 DEF IInv, TypeOK
  <2>10. SetupInv' /\ EntryInv'
    BY <1>1, <1>2, <2>3, <2>6 DEF SetupInv, EntryInv, Hooked
  <2> QED BY <2>7, <2>8, <2>9, <2>10 DEF IInv
<1>4. ASSUME NEW g \in Runtimes, NEW H \in SUBSET Hooks, Something(H, g),
             Patched = PatchedWith(H, g)
      PROVE  IInv'
  <2>1. "websocket" \in H
    BY <1>4 DEF Something, Early
  <2>2. m.slot = SlotsWith(H, g) /\ m.saved = SavedWith(H, g) /\ m.raised = TRUE
    BY <1>4, <2>1, InstallRefused
  <2>3. slot' = slot /\ saved' = saved /\ entry' = "setup_error" /\ step' = "none"
    BY <1>4, <2>2 DEF InstallHooks, Becomes, FailSetup, Something, Hooked
  <2>4. Shape'
    BY <1>2, <2>3, QuietStep
  <2>5. HandlerInv' /\ HandlerTypeOK'
    <3>1. Becomes(m) /\ m.slot = slot /\ m.saved = saved
      BY <1>4, <2>2 DEF InstallHooks, Something, Hooked
    <3> HIDE DEF m
    <3> QED BY <3>1, HandlerStaysIfBecomes DEF IInv, TypeOK
  <2>6. TypeOK'
    BY <1>2, <2>3, <2>5 DEF IInv, TypeOK
  <2>7. SetupInv' /\ EntryInv'
    BY <2>3 DEF SetupInv, EntryInv
  <2> QED BY <2>4, <2>5, <2>6, <2>7 DEF IInv
<1> QED BY <1>3, <1>4, ShapeIsHooked DEF IInv

LEMMA ImportFailsIInv == ASSUME IInv, ImportFails PROVE IInv'
<1>1. Shape'
  BY QuietStep DEF ImportFails, hooking
<1>0. HandlerInv' /\ HandlerTypeOK'
  BY QuietHandler DEF ImportFails
<1>2. TypeOK'
  BY <1>0 DEF IInv, TypeOK, ImportFails, FailSetup, hooking, environment
<1>3. SetupInv' /\ EntryInv'
  BY DEF SetupInv, EntryInv, ImportFails, FailSetup
<1> QED BY <1>0, <1>1, <1>2, <1>3 DEF IInv

(* The invariant for a patched module that is written back.                 *)
LEMMA HookedIsTyped ==
    ASSUME NEW H \in SUBSET Hooks, NEW g \in Runtimes,
           slot' = SlotsWith(H, g), saved' = SavedWith(H, g)
    PROVE  /\ slot' \in [Slots -> Seq(Wrapper)] /\ DOMAIN saved' = Hooks
           /\ \A h \in Hooks : saved'[h] = None \/ saved'[h] \in [Patches[h] -> Seq(Wrapper)]
BY HookedType

(* The rest of the setup: mqtt at once or when it is announced, then REST.  *)
LEMMA InstallLateAdds ==
    ASSUME IInv, InstallLate
    PROVE  /\ runtime \in Runtimes /\ provider[runtime] = "live" /\ Hooked(Early, runtime)
           /\ UNCHANGED <<runtime, provider, mqtt, http>>
           /\ \E more \in SUBSET {"mqtt", "rest"} :
                 /\ "mqtt" \in more <=> MqttApplies
                 /\ "rest" \in more <=> http
                 /\ slot' = SlotsWith(Early \cup more, runtime)
                 /\ saved' = SavedWith(Early \cup more, runtime)
                 /\ Becomes(PatchedWith(Early \cup more, runtime))
           /\ listener' = IF MqttApplies THEN None ELSE runtime
           /\ IF http THEN entry' = "loaded" /\ step' = "none"
              ELSE entry' = "setup_error" /\ step' = "none"
<1> DEFINE g == runtime
           withMqtt == InstallMqtt(Patched, g)
           m == InstallRest(withMqtt, g)
           H1 == IF MqttApplies THEN Early \cup {"mqtt"} ELSE Early
           H == IF http THEN H1 \cup {"rest"} ELSE H1
<1>1. /\ step = "import" /\ g \in Runtimes /\ provider[g] = "live"
      /\ Patched = PatchedWith(Early, g) /\ listener = None /\ entry = "setup"
  BY DEF InstallLate, IInv, SetupInv, Hooked, Patched, PatchedWith
<1>2. UNCHANGED <<runtime, provider, mqtt, http>>
  BY DEF InstallLate, environment
<1>3. /\ H1 \in SUBSET Hooks /\ H \in SUBSET Hooks /\ Early \subseteq H
      /\ InOrder(H1) /\ InOrder(H) /\ "rest" \notin H1
      /\ "mqtt" \in H1 <=> MqttApplies
      /\ "mqtt" \in H <=> MqttApplies
  <2>1. "websocket" \in Early /\ "mqtt" \notin Early /\ "rest" \notin Early /\ Early \subseteq Hooks
    BY DEF Early, Hooks
  <2>2. H1 \in SUBSET Hooks /\ "rest" \notin H1 /\ Early \subseteq H1 /\ ("mqtt" \in H1 <=> MqttApplies)
    BY <2>1 DEF Hooks
  <2> HIDE DEF H1
  <2>3. H \in SUBSET Hooks /\ Early \subseteq H /\ ("mqtt" \in H <=> "mqtt" \in H1)
    BY <2>2 DEF Hooks
  <2> QED BY <2>1, <2>2, <2>3 DEF InOrder
<1>4. withMqtt = PatchedWith(H1, g)
  <2>1. Patched.saved["mqtt"] = None
    BY <1>1 DEF PatchedWith, SavedWith, Hooks, Early
  <2>2. Install(PatchedWith(Early, g), "mqtt", g) = PatchedWith(Early \cup {"mqtt"}, g)
    <3>1. "mqtt" \in Hooks \ Early /\ InOrder(Early \cup {"mqtt"}) /\ Early \in SUBSET Hooks
      BY DEF Hooks, Early, InOrder
    <3> QED BY <1>1, <3>1, InstallAdds
  <2> QED BY <1>1, <2>1, <2>2 DEF InstallMqtt
<1>5. /\ m.slot = SlotsWith(H, g) /\ m.saved = SavedWith(H, g) /\ m.raised = IF http THEN FALSE ELSE TRUE
  <2>1. CASE http
    <3>1. "rest" \in Hooks \ H1 /\ InOrder(H1 \cup {"rest"}) /\ H = H1 \cup {"rest"}
      BY <1>3, <2>1 DEF Hooks, InOrder
    <3>2. m = PatchedWith(H, g)
      BY <1>1, <1>3, <1>4, <2>1, <3>1, InstallAdds DEF InstallRest
    <3> QED BY <2>1, <3>2 DEF PatchedWith
  <2>2. CASE ~http
    <3>1. m = [PatchedWith(H1, g) EXCEPT !.raised = TRUE] /\ H = H1
      BY <1>4, <2>2 DEF InstallRest
    <3> QED BY <2>2, <3>1 DEF PatchedWith
  <2> QED BY <2>1, <2>2 DEF IInv, TypeOK
<1>6. slot' = SlotsWith(H, g) /\ saved' = SavedWith(H, g)
  BY <1>5 DEF InstallLate, Becomes
<1>11. Becomes(PatchedWith(H, g))
  <2>1. Becomes(m)
    BY DEF InstallLate
  <2>2. PatchedWith(H, g).slot = m.slot /\ PatchedWith(H, g).saved = m.saved
    BY <1>5 DEF PatchedWith
  <2> HIDE DEF m
  <2> QED BY <2>1, <2>2, BecomesAlike
<1>7. listener' = IF MqttApplies THEN None ELSE g
  <2>1. (withMqtt.saved["mqtt"] = None) = ~MqttApplies
    <3>1. withMqtt.saved["mqtt"] = IF "mqtt" \in H1 THEN SavedBy("mqtt", g) ELSE None
      BY <1>4 DEF PatchedWith, SavedWith, Hooks
    <3>2. SavedBy("mqtt", g) # None
      BY <1>1, SavedType DEF Hooks
    <3> QED BY <1>3, <3>1, <3>2 DEF MqttApplies
  <2> QED BY <1>1, <2>1 DEF InstallLate
<1>8. IF http THEN entry' = "loaded" /\ step' = "none"
      ELSE entry' = "setup_error" /\ step' = "none"
  BY <1>5 DEF InstallLate, FailSetup, IInv, TypeOK
<1>9. Hooked(Early, runtime)
  BY DEF InstallLate, IInv, SetupInv
<1> DEFINE more == (IF MqttApplies THEN {"mqtt"} ELSE {}) \cup (IF http THEN {"rest"} ELSE {})
<1>10. /\ more \in SUBSET {"mqtt", "rest"} /\ H = Early \cup more
       /\ "mqtt" \in more <=> MqttApplies
       /\ "rest" \in more <=> http
  OBVIOUS
<1> HIDE DEF m, withMqtt, H1, H, more
<1> QED BY <1>1, <1>2, <1>6, <1>7, <1>8, <1>9, <1>10, <1>11

LEMMA InstallLateIInv == ASSUME IInv, InstallLate PROVE IInv'
<1> PICK more \in SUBSET {"mqtt", "rest"} :
        /\ "mqtt" \in more <=> MqttApplies
        /\ "rest" \in more <=> http
        /\ slot' = SlotsWith(Early \cup more, runtime)
        /\ saved' = SavedWith(Early \cup more, runtime)
        /\ Becomes(PatchedWith(Early \cup more, runtime))
  BY InstallLateAdds
<1>1. /\ runtime \in Runtimes /\ provider[runtime] = "live"
      /\ UNCHANGED <<runtime, provider, mqtt, http>>
      /\ listener' = IF MqttApplies THEN None ELSE runtime
      /\ IF http THEN entry' = "loaded" /\ step' = "none"
         ELSE entry' = "setup_error" /\ step' = "none"
  BY InstallLateAdds
<1> PICK H \in SUBSET Hooks : H = Early \cup more
  BY DEF Early, Hooks
<1>2. Early \subseteq H /\ ("mqtt" \in H <=> MqttApplies)
  BY DEF Early
<1>3. slot' = SlotsWith(H, runtime) /\ saved' = SavedWith(H, runtime)
  OBVIOUS
<1>4. Shape'
  <2>1. \A g \in Runtimes : g = runtime => Something(H, g)'
    BY <1>1, <1>2, <1>3 DEF Something, Hooked
  <2> QED BY <1>1, <2>1 DEF Shape
<1>8. HandlerInv' /\ HandlerTypeOK'
  <2>1. Hooked(Early, runtime) /\ Early \in SUBSET Hooks
    BY InstallLateAdds DEF Early, Hooks
  <2>2. Becomes(PatchedWith(H, runtime))
    OBVIOUS
  <2> QED BY <1>1, <1>4, <2>1, <2>2, HandlerStepInv DEF IInv, TypeOK
<1>5. TypeOK'
  <2>1. /\ slot' \in [Slots -> Seq(Wrapper)] /\ DOMAIN saved' = Hooks
        /\ \A h \in Hooks : saved'[h] = None \/ saved'[h] \in [Patches[h] -> Seq(Wrapper)]
    BY <1>1, <1>3, HookedIsTyped
  <2> QED BY <1>1, <1>8, <2>1 DEF IInv, TypeOK
<1>6. EntryInv'
  <2>1. ASSUME http PROVE H = IF MqttApplies THEN Hooks ELSE Hooks \ {"mqtt"}
    BY <2>1 DEF Hooks, Early
  <2> QED BY <1>1, <1>3, <2>1 DEF EntryInv, Hooked, MqttApplies
<1>7. SetupInv'
  BY <1>1 DEF SetupInv
<1> QED BY <1>4, <1>5, <1>6, <1>7, <1>8 DEF IInv

(* The unload removes everything up to its await.                           *)
LEMMA UnloadIInv == ASSUME IInv, Unload PROVE IInv'
<1>1. PICK H \in SUBSET Hooks : InOrder(H) /\ Patched = PatchedWith(H, runtime)
  <2>1. Hooked(Hooks, runtime) \/ Hooked(Hooks \ {"mqtt"}, runtime)
    BY DEF Unload, IInv, EntryInv
  <2>2. InOrder(Hooks) /\ InOrder(Hooks \ {"mqtt"})
    BY DEF InOrder, Hooks
  <2> QED BY <2>1, <2>2 DEF Hooked, Patched, PatchedWith
<1>2. runtime \in Runtimes
  BY DEF Unload, IInv, EntryInv
<1>3. UninstallAll(Patched) = PatchedWith({}, runtime)
  BY <1>1, <1>2, UninstallAllRemoves
<1>4. slot' = SlotsWith({}, runtime) /\ saved' = SavedWith({}, runtime)
  BY <1>3 DEF Unload, Becomes, PatchedWith
<1>5. Nothing'
  BY <1>4, NothingIsEmpty DEF Nothing, Unload, ListenerAfterUnload
<1>6. HandlerInv' /\ HandlerTypeOK'
  <2>1. Hooked(H, runtime) /\ Becomes(PatchedWith({}, runtime)) /\ Shape'
    BY <1>1, <1>3, <1>5 DEF Unload, Hooked, Patched, PatchedWith, Shape
  <2> QED BY <1>2, <2>1, HandlerStepInv DEF IInv, TypeOK
<1>7. TypeOK'
  <2>1. /\ slot' \in [Slots -> Seq(Wrapper)] /\ DOMAIN saved' = Hooks
        /\ \A h \in Hooks : saved'[h] = None \/ saved'[h] \in [Patches[h] -> Seq(Wrapper)]
    BY <1>2, <1>4, HookedIsTyped
  <2> QED BY <1>6, <2>1 DEF IInv, TypeOK, Unload, ListenerAfterUnload, environment
<1>8. SetupInv' /\ EntryInv'
  BY <1>5 DEF IInv, SetupInv, EntryInv, Unload
<1> QED BY <1>5, <1>6, <1>7, <1>8 DEF IInv, Shape

(* The provider that is shut down is nobody's any more.                     *)
LEMMA ShutdownIInv == ASSUME IInv, Shutdown PROVE IInv'
<1>1. Nothing'
  BY DEF IInv, EntryInv, Shutdown, Nothing, hooking
<1>0. HandlerInv' /\ HandlerTypeOK'
  BY QuietHandler DEF Shutdown
<1>2. TypeOK'
  BY <1>0 DEF IInv, TypeOK, Shutdown, hooking, environment
<1>3. SetupInv' /\ EntryInv'
  BY DEF IInv, SetupInv, EntryInv, Shutdown
<1> QED BY <1>0, <1>1, <1>2, <1>3 DEF IInv, Shape

LEMMA ForgetFailedIInv == ASSUME IInv, ForgetFailed PROVE IInv'
<1>1. Shape'
  BY QuietStep DEF ForgetFailed, hooking
<1>0. HandlerInv' /\ HandlerTypeOK'
  BY QuietHandler DEF ForgetFailed
<1>2. TypeOK'
  BY <1>0 DEF IInv, TypeOK, ForgetFailed, hooking, environment
<1>3. SetupInv' /\ EntryInv'
  BY DEF IInv, SetupInv, EntryInv, ForgetFailed
<1> QED BY <1>0, <1>1, <1>2, <1>3 DEF IInv

LEMMA EnvironmentIInv == ASSUME IInv, MqttSetUp \/ HttpStarts PROVE IInv'
<1>1. UNCHANGED <<entry, step, runtime, provider, slot, saved, listener>>
      /\ mqtt' \in {mqtt, "in_components"} /\ http' \in BOOLEAN
  BY DEF MqttSetUp, HttpStarts, hooking, IInv, TypeOK
<1>0. HandlerInv' /\ HandlerTypeOK'
  BY QuietHandler DEF MqttSetUp, HttpStarts
<1>2. Shape'
  BY <1>1, QuietStep
<1>3. TypeOK'
  BY <1>0, <1>1 DEF IInv, TypeOK
<1>4. SetupInv' /\ EntryInv'
  BY <1>1 DEF IInv, SetupInv, EntryInv, Hooked, Nothing
<1> QED BY <1>0, <1>2, <1>3, <1>4 DEF IInv

(* The handler gets what the function has that registers it, or nothing.    *)
LEMMA RegisterIInv == ASSUME IInv, Register PROVE IInv'
<1>1. UNCHANGED <<entry, step, runtime, provider, slot, saved, listener, mqtt, http, table, original>>
  BY DEF Register, environment
<1>2. Shape'
  BY <1>1, QuietStep
<1>3. table \in Tables /\ registered = None
  BY DEF Register, IInv, TypeOK, HandlerTypeOK
<1>4. original = None
  BY <1>3, NoneIsNoHandler DEF IInv, HandlerInv
<1>5. registered' = <<>> \/ \E g \in Runtimes : registered' = <<By(table, g)>>
  BY <1>3, RegistrarHas DEF Register, IInv
<1>6. HandlerInv'
  BY <1>1, <1>4, <1>5 DEF Register, HandlerInv
<1>7. HandlerTypeOK'
  BY <1>1, <1>2, <1>3, <1>6, HandlerTypesAfter
<1>8. TypeOK'
  BY <1>1, <1>7 DEF IInv, TypeOK
<1>9. SetupInv' /\ EntryInv'
  BY <1>1 DEF IInv, SetupInv, EntryInv, Hooked, Nothing
<1> QED BY <1>2, <1>6, <1>8, <1>9 DEF IInv

(* The listener places the mqtt hook of the runtime that is installed.      *)
LEMMA MqttAnnouncedIInv == ASSUME IInv, MqttAnnounced PROVE IInv'
<1>1. UNCHANGED <<entry, step, runtime, provider, http>> /\ listener' = None
      /\ mqtt' = "announced"
  BY DEF MqttAnnounced
<1>2. CASE listener = None
  <2>1. UNCHANGED <<slot, saved, listener>>
    BY <1>1, <1>2 DEF MqttAnnounced, Becomes, Patched
  <2>2. Shape'
    BY <1>1, <2>1, QuietStep
  <2>6. HandlerInv' /\ HandlerTypeOK'
    <3>1. Becomes(Patched) /\ Patched.slot = slot /\ Patched.saved = saved
      BY <1>2 DEF MqttAnnounced, Patched
    <3> QED BY <3>1, HandlerStaysIfBecomes DEF IInv, TypeOK
  <2>3. TypeOK'
    BY <1>1, <2>1, <2>6 DEF IInv, TypeOK
  <2>4. entry = "loaded" => Hooked(Hooks, runtime)
    BY <1>2, MaxRuntimesAssumption DEF IInv, EntryInv, Runtimes
  <2>5. SetupInv' /\ EntryInv'
    BY <1>1, <2>1, <2>4 DEF IInv, SetupInv, EntryInv, Hooked, Nothing
  <2> QED BY <2>2, <2>3, <2>5, <2>6 DEF IInv
<1>3. CASE listener # None
  <2>1. PICK g \in Runtimes, H \in SUBSET Hooks : Something(H, g) /\ Patched = PatchedWith(H, g)
    BY <1>3, ShapeIsHooked DEF IInv, Nothing
  <2>2. listener = g /\ "mqtt" \notin H /\ Early \subseteq H
    BY <1>3, <2>1 DEF Something
  <2>3. Apply(Patched, "mqtt", g) = PatchedWith(H \cup {"mqtt"}, g)
    <3>1. "mqtt" \in Hooks \ H /\ InOrder(H \cup {"mqtt"})
      BY <2>2 DEF Hooks, InOrder, Early
    <3> QED BY <2>1, <3>1, ApplyAdds DEF PatchedWith
  <2>4. slot' = SlotsWith(H \cup {"mqtt"}, g) /\ saved' = SavedWith(H \cup {"mqtt"}, g)
    BY <1>3, <2>2, <2>3 DEF MqttAnnounced, ListenerApplies, Becomes, PatchedWith
  <2>5. H \cup {"mqtt"} \in SUBSET Hooks /\ Early \subseteq H \cup {"mqtt"}
    BY <2>2 DEF Hooks
  <2>6. Something(H \cup {"mqtt"}, g)'
    BY <1>1, <2>1, <2>4, <2>5 DEF Something, Hooked
  <2>7. Shape'
    BY <2>5, <2>6 DEF Shape
  <2>11. HandlerInv' /\ HandlerTypeOK'
    <3>1. Hooked(H, g) /\ Becomes(PatchedWith(H \cup {"mqtt"}, g))
      BY <1>3, <2>1, <2>2, <2>3 DEF Something, MqttAnnounced, ListenerApplies
    <3>2. table # "mqtt"
      BY DEF IInv, TypeOK, HandlerTypeOK, Tables
    <3> QED BY <2>5, <2>7, <3>1, <3>2, HandlerStepInv DEF IInv, TypeOK
  <2>8. TypeOK'
    <3>1. /\ slot' \in [Slots -> Seq(Wrapper)] /\ DOMAIN saved' = Hooks
          /\ \A h \in Hooks : saved'[h] = None \/ saved'[h] \in [Patches[h] -> Seq(Wrapper)]
      BY <2>4, <2>5, HookedIsTyped
    <3> QED BY <1>1, <2>11, <3>1 DEF IInv, TypeOK
  <2>9. SetupInv'
    BY <1>1, <1>3 DEF IInv, SetupInv
  <2>10. EntryInv'
    <3>1. CASE entry = "loaded"
      <4>1. Hooked(Hooks \ {"mqtt"}, runtime) /\ listener = runtime
        BY <1>3, <3>1 DEF IInv, EntryInv
      <4>2. Patched = PatchedWith(Hooks \ {"mqtt"}, g) /\ g = runtime
        BY <2>2, <4>1 DEF Hooked, Patched, PatchedWith
      <4>3. Apply(Patched, "mqtt", g) = PatchedWith(Hooks, g)
        <5>1. /\ Hooks \ {"mqtt"} \in SUBSET Hooks /\ "mqtt" \in Hooks \ (Hooks \ {"mqtt"})
              /\ (Hooks \ {"mqtt"}) \cup {"mqtt"} = Hooks /\ InOrder(Hooks)
          BY DEF Hooks, InOrder
        <5>2. InOrder((Hooks \ {"mqtt"}) \cup {"mqtt"})
          BY <5>1
        <5>3. Apply(PatchedWith(Hooks \ {"mqtt"}, g), "mqtt", g) = PatchedWith((Hooks \ {"mqtt"}) \cup {"mqtt"}, g)
          BY <5>1, <5>2, ApplyAdds DEF PatchedWith
        <5> HIDE DEF PatchedWith
        <5> QED BY <4>2, <5>1, <5>3
      <4>4. Hooked(Hooks, runtime)'
        BY <1>1, <1>3, <2>2, <4>2, <4>3
           DEF MqttAnnounced, ListenerApplies, Becomes, PatchedWith, Hooked
      <4> QED BY <1>1, <3>1, <4>4 DEF IInv, EntryInv
    <3>2. CASE entry # "loaded"
      BY <1>1, <1>3, <3>2 DEF IInv, EntryInv, Nothing
    <3> QED BY <3>1, <3>2
  <2> QED BY <2>7, <2>8, <2>9, <2>10, <2>11 DEF IInv
<1> QED BY <1>2, <1>3

(* Every step, and every step that changes nothing.                         *)
LEMMA NextIInv == IInv /\ [Next]_vars => IInv'
<1> SUFFICES ASSUME IInv, [Next]_vars PROVE IInv'
  OBVIOUS
<1>1. CASE BeginSetup \/ Validate \/ SetupTraceRuntime \/ InstallHooks \/ ImportFails
  BY <1>1, BeginSetupIInv, ValidateIInv, SetupTraceRuntimeIInv, InstallHooksIInv, ImportFailsIInv
<1>2. CASE InstallLate \/ Unload \/ Shutdown \/ ForgetFailed
  BY <1>2, InstallLateIInv, UnloadIInv, ShutdownIInv, ForgetFailedIInv
<1>3. CASE MqttSetUp \/ MqttAnnounced \/ HttpStarts \/ Register
  BY <1>3, EnvironmentIInv, MqttAnnouncedIInv, RegisterIInv
<1>4. CASE UNCHANGED vars
  <2>1. UNCHANGED <<entry, step, runtime, provider, slot, saved, listener, mqtt, http>>
    BY <1>4 DEF vars
  <2>2. Shape'
    BY <2>1, QuietStep
  <2>3. HandlerInv' /\ HandlerTypeOK'
    BY <1>4, QuietHandler DEF vars, hooking, tables
  <2>4. TypeOK'
    BY <2>1, <2>3 DEF IInv, TypeOK
  <2>5. SetupInv' /\ EntryInv'
    BY <2>1 DEF IInv, SetupInv, EntryInv, Hooked, Nothing
  <2> QED BY <2>2, <2>3, <2>4, <2>5 DEF IInv
<1> QED BY <1>1, <1>2, <1>3, <1>4 DEF Next

-----------------------------------------------------------------------------
(* What the invariant says of the properties.                               *)
(* Around the handler there is what it was registered with, and at most the *)
(* one wrapper that its registration would give it now.                     *)
LEMMA HandlerIs ==
    ASSUME IInv, handler # None
    PROVE  /\ registered \in Seq(Wrapper) /\ handler \in Seq(Wrapper)
           /\ Registrar[table] \in Slots /\ slot[Registrar[table]] \in Seq(Wrapper)
           /\ \/ handler = registered
              \/ handler = registered \o slot[Registrar[table]] /\ (table = "rest" => registered = <<>>)
           /\ table = "rest" => Len(registered) <= 1
           /\ Len(slot[Registrar[table]]) <= 1
<1>1. /\ registered \in Seq(Wrapper) /\ handler \in Seq(Wrapper) /\ registered # None
      /\ table \in Tables /\ slot \in [Slots -> Seq(Wrapper)]
  BY DEF IInv, TypeOK, HandlerTypeOK
<1>2. Registrar[table] \in Slots
  BY <1>1 DEF Tables, Registrar, Slots
<1>3. Len(slot[Registrar[table]]) <= 1
  <2>1. slot[Registrar[table]] = <<>> \/ \E g \in Runtimes : slot[Registrar[table]] = <<By(table, g)>>
    BY <1>1, RegistrarHas DEF IInv
  <2>2. Len(<<>>) <= 1 /\ \A w : Len(<<w>>) <= 1
    OBVIOUS
  <2> QED BY <2>1, <2>2
<1>4. Len(registered) <= 1
  <2>1. registered = <<>> \/ \E g \in Runtimes : registered = <<By(table, g)>>
    BY <1>1 DEF IInv, HandlerInv
  <2>2. Len(<<>>) <= 1 /\ \A w : Len(<<w>>) <= 1
    OBVIOUS
  <2> QED BY <2>1, <2>2
<1> QED BY <1>1, <1>2, <1>3, <1>4 DEF IInv, HandlerInv

LEMMA SlotWrappedOnce ==
    ASSUME IInv, NEW s \in Slots, NEW i \in DOMAIN slot[s], NEW j \in DOMAIN slot[s],
           slot[s][i].hook = slot[s][j].hook
    PROVE  i = j
<1>1. CASE Nothing
  BY <1>1 DEF Nothing
<1>2. ASSUME NEW g \in Runtimes, NEW H \in SUBSET Hooks, Something(H, g)
      PROVE  i = j
  <2>1. slot[s] = SlotWith(H, g, s)
    BY <1>2 DEF Something, Hooked, SlotsWith
  <2>2. \/ slot[s] = <<>>
        \/ \E w : slot[s] = <<w>>
        \/ slot[s] = <<By("websocket", g), By("event", g)>>
    BY <2>1 DEF SlotWith, Slots
  <2> QED BY <2>2 DEF By
<1> QED BY <1>1, <1>2 DEF IInv, Shape

LEMMA IInvWrappedOnce == IInv => WrappedOnce
<1> SUFFICES ASSUME IInv PROVE WrappedOnce
  OBVIOUS
<1>1. ASSUME NEW s \in Slots, NEW i \in DOMAIN slot[s], NEW j \in DOMAIN slot[s],
             slot[s][i].hook = slot[s][j].hook
      PROVE  i = j
  BY <1>1, SlotWrappedOnce
<1>2. ASSUME handler # None
      PROVE  /\ handler \in {registered, registered \o slot[Registrar[table]]}
             /\ table = "rest" => Len(handler) <= 1
  <2>1. registered = <<>> => registered \o slot[Registrar[table]] = slot[Registrar[table]]
    BY <1>2, HandlerIs, ConcatEmptySeq
  <2> QED BY <1>2, <2>1, HandlerIs
<1> QED BY <1>1, <1>2 DEF WrappedOnce

LEMMA SlotsExport ==
    ASSUME IInv
    PROVE  /\ \A s \in Slots : \A i \in DOMAIN slot[s] : provider[slot[s][i].runtime] # "shut_down"
           /\ listener # None => provider[listener] # "shut_down"
<1> DEFINE Exporting ==
        /\ \A s \in Slots : \A i \in DOMAIN slot[s] : provider[slot[s][i].runtime] # "shut_down"
        /\ listener # None => provider[listener] # "shut_down"
<1>1. CASE Nothing
  BY <1>1 DEF Nothing
<1>2. ASSUME NEW g \in Runtimes, NEW H \in SUBSET Hooks, Something(H, g)
      PROVE  Exporting
  <2>1. ASSUME NEW s \in Slots, NEW i \in DOMAIN slot[s]
        PROVE  slot[s][i].runtime = g
    <3>1. slot[s] = SlotWith(H, g, s)
      BY <1>2 DEF Something, Hooked, SlotsWith
    <3>2. \/ slot[s] = <<>>
          \/ \E h \in Hooks : slot[s] = <<By(h, g)>>
          \/ slot[s] = <<By("websocket", g), By("event", g)>>
      BY <3>1 DEF SlotWith, Slots, Hooks
    <3>3. ASSUME NEW h \in Hooks, slot[s] = <<By(h, g)>> PROVE slot[s][i].runtime = g
      BY <3>3 DEF By
    <3>4. ASSUME slot[s] = <<By("websocket", g), By("event", g)>> PROVE slot[s][i].runtime = g
      BY <3>4 DEF By
    <3>5. slot[s] # <<>>
      OBVIOUS
    <3> QED BY <3>2, <3>3, <3>4, <3>5
  <2> QED BY <1>2, <2>1 DEF Something
<1> QED BY <1>1, <1>2 DEF IInv, Shape

LEMMA IInvHooksExport == IInv => HooksExport
<1> SUFFICES ASSUME IInv, handler # None, NEW i \in DOMAIN handler, i > Len(registered)
             PROVE  provider[handler[i].runtime] # "shut_down"
  BY SlotsExport DEF HooksExport
<1> DEFINE added == slot[Registrar[table]]
<1>1. /\ registered \in Seq(Wrapper) /\ handler \in Seq(Wrapper)
      /\ Registrar[table] \in Slots /\ added \in Seq(Wrapper)
      /\ handler = registered \/ handler = registered \o added
  BY HandlerIs
<1> HIDE DEF added
<1>2. handler = registered \o added /\ i \in 1 .. Len(handler)
  BY <1>1
<1>3. i - Len(registered) \in DOMAIN added /\ handler[i] = added[i - Len(registered)]
  BY <1>1, <1>2, ConcatProperties
<1> QED BY <1>1, <1>3, SlotsExport DEF added

LEMMA IInvUnloadRestores == IInv => UnloadRestores
<1> SUFFICES ASSUME IInv, entry = "unloading" PROVE UnloadRestores
  BY DEF UnloadRestores
<1>1. Nothing
  BY DEF IInv, EntryInv
<1>2. table \in Hooks
  BY DEF IInv, TypeOK, HandlerTypeOK, Tables, Hooks
<1>3. handler = registered
  BY <1>1, <1>2 DEF IInv, HandlerInv, Nothing
<1> QED BY <1>1, <1>3 DEF UnloadRestores, Nothing

LEMMA IInvLoadedIsHooked == IInv => LoadedIsHooked
<1> SUFFICES ASSUME IInv, entry = "loaded" PROVE LoadedIsHooked
  BY DEF LoadedIsHooked
<1>1. PICK H \in SUBSET Hooks :
        /\ Hooked(H, runtime) /\ Hooks \ {"mqtt"} \subseteq H
        /\ \/ "mqtt" \in H
           \/ "mqtt" \notin H /\ listener = runtime /\ mqtt # "announced"
  <2>1. CASE Hooked(Hooks, runtime)
    BY <2>1 DEF Hooks
  <2>2. CASE Hooked(Hooks \ {"mqtt"}, runtime) /\ listener = runtime /\ mqtt # "announced"
    <3>1. Hooks \ {"mqtt"} \in SUBSET Hooks /\ "mqtt" \notin Hooks \ {"mqtt"}
      OBVIOUS
    <3> QED BY <2>2, <3>1
  <2> QED BY <2>1, <2>2 DEF IInv, EntryInv
<1>2. provider[runtime] = "live" /\ runtime \in Runtimes
  BY DEF IInv, EntryInv
<1>3. \A s \in Slots : slot[s] = SlotWith(H, runtime, s)
  BY <1>1 DEF Hooked, SlotsWith
<1>4. ASSUME NEW h \in Hooks \ {"mqtt"}, NEW s \in Patches[h]
      PROVE  By(h, runtime) \in {slot[s][i] : i \in DOMAIN slot[s]}
  <2>1. s \in Slots /\ h \in H
    BY <1>1, PatchesOf DEF Hooks, Slots
  <2>2. "websocket" \in H /\ "event" \in H
    BY <1>1 DEF Hooks
  <2>3. \/ slot[s] = <<By(h, runtime)>>
        \/ slot[s] = <<By("websocket", runtime), By("event", runtime)>>
           /\ h \in {"websocket", "event"}
    BY <1>3, <2>1, <2>2, PatchesOf DEF SlotWith, Slots, Hooks
  <2>4. CASE slot[s] = <<By(h, runtime)>>
    <3>1. 1 \in DOMAIN slot[s] /\ slot[s][1] = By(h, runtime)
      BY <2>4
    <3> QED BY <3>1
  <2>5. CASE slot[s] = <<By("websocket", runtime), By("event", runtime)>>
           /\ h \in {"websocket", "event"}
    <3>1. /\ 1 \in DOMAIN slot[s] /\ slot[s][1] = By("websocket", runtime)
          /\ 2 \in DOMAIN slot[s] /\ slot[s][2] = By("event", runtime)
      BY <2>5
    <3> QED BY <2>5, <3>1
  <2> QED BY <2>3, <2>4, <2>5
<1>5. \/ slot["mqtt_client"] = <<By("mqtt", runtime)>>
      \/ slot["mqtt_client"] = <<>> /\ listener = runtime /\ mqtt # "announced"
  BY <1>1, <1>3 DEF SlotWith, Slots
<1> QED BY <1>2, <1>4, <1>5 DEF LoadedIsHooked, By

-----------------------------------------------------------------------------
(* The entry, the setup, the providers and the patched functions keep their *)
(* types: install_... and uninstall_... always meet what they expect.       *)
THEOREM TypeCorrect == Spec => []TypeOK
<1>1. IInv => TypeOK
  BY DEF IInv
<1> QED BY <1>1, InitIInv, NextIInv, PTL DEF Spec

(* No function and no route is ever wrapped twice by the same module,       *)
(* whatever setups failed, were retried or met hooks of an earlier one; nor *)
(* is a command, but for the wrapper of its registration (install_...).     *)
THEOREM NeverWrappedTwice == Spec => []WrappedOnce
BY InitIInv, NextIInv, IInvWrappedOnce, PTL DEF Spec

(* After async_unload_entry has run up to its await, every patched function *)
(* is Home Assistant's own, also where two modules patched the same one,    *)
(* and every handler what its registration made it.                         *)
THEOREM UnloadRestoresAll == Spec => []UnloadRestores
BY InitIInv, NextIInv, IInvUnloadRestores, PTL DEF Spec

(* No wrapper of a function, no component_loaded listener, and no wrapper   *)
(* that an install_... put around a handler belongs to a provider that has  *)
(* been shut down (TraceRuntime.shutdown).                                  *)
THEOREM HooksAlwaysExport == Spec => []HooksExport
BY InitIInv, NextIInv, IInvHooksExport, PTL DEF Spec

(* A loaded entry (async_setup_entry returned True) has all its hooks, of   *)
(* its own runtime; that of mqtt may wait for a component not announced yet.*)
THEOREM LoadedEntryIsHooked == Spec => []LoadedIsHooked
BY InitIInv, NextIInv, IInvLoadedIsHooked, PTL DEF Spec

-----------------------------------------------------------------------------
(* The refinement of TracingSwitch.  Which runtimes the hooks hand spans to *)
(* when runtime g has installed the hooks H.                                *)
TracersWith(H, g) == [h \in Hooks |-> IF h \in H THEN {g} ELSE {}]

LEMMA TracersOfHooked ==
    ASSUME NEW H \in SUBSET Hooks, NEW g \in Runtimes
    PROVE  Tracers(SlotsWith(H, g)) = TracersWith(H, g)
<1>1. \A s \in Slots : SlotsWith(H, g)[s] = SlotWith(H, g, s)
  BY DEF SlotsWith
<1>2. ASSUME NEW s \in Slots, NEW i \in DOMAIN SlotWith(H, g, s)
      PROVE  \E k \in H : SlotWith(H, g, s)[i] = By(k, g)
  <2>1. \/ SlotWith(H, g, s) = <<>>
        \/ \E k \in H : SlotWith(H, g, s) = <<By(k, g)>>
        \/ /\ SlotWith(H, g, s) = <<By("websocket", g), By("event", g)>>
           /\ "websocket" \in H /\ "event" \in H
    BY DEF SlotWith, Slots
  <2>2. ASSUME NEW k \in H, SlotWith(H, g, s) = <<By(k, g)>>
        PROVE  SlotWith(H, g, s)[i] = By(k, g)
    BY <2>2
  <2>3. ASSUME SlotWith(H, g, s) = <<By("websocket", g), By("event", g)>>
        PROVE  SlotWith(H, g, s)[i] \in {By("websocket", g), By("event", g)}
    BY <2>3
  <2>4. SlotWith(H, g, s) # <<>>
    OBVIOUS
  <2> QED BY <2>1, <2>2, <2>3, <2>4
<1>3. ASSUME NEW h \in H
      PROVE  \E s \in Patches[h] : SlotWith(H, g, s) = <<By(h, g)>>
  BY PatchesOf DEF SlotWith, Slots, Hooks
<1>4. \A h \in Hooks : Patches[h] \subseteq Slots
  BY PatchesOf DEF Slots, Hooks
<1>5. ASSUME NEW h \in Hooks, NEW f \in Runtimes
      PROVE  (\E s \in Patches[h] : \E i \in DOMAIN SlotsWith(H, g)[s] :
                 SlotsWith(H, g)[s][i] = By(h, f)) <=> h \in H /\ f = g
  <2>1. ASSUME NEW s \in Patches[h], NEW i \in DOMAIN SlotsWith(H, g)[s],
               SlotsWith(H, g)[s][i] = By(h, f)
        PROVE  h \in H /\ f = g
    <3>1. s \in Slots /\ SlotsWith(H, g)[s] = SlotWith(H, g, s)
      BY <1>1, <1>4
    <3>2. PICK k \in H : By(k, g) = By(h, f)
      BY <1>2, <2>1, <3>1
    <3> QED BY <3>2 DEF By
  <2>2. ASSUME h \in H /\ f = g
        PROVE  \E s \in Patches[h] : \E i \in DOMAIN SlotsWith(H, g)[s] :
                   SlotsWith(H, g)[s][i] = By(h, f)
    <3>1. PICK s \in Patches[h] : SlotWith(H, g, s) = <<By(h, g)>>
      BY <1>3, <2>2
    <3>2. SlotsWith(H, g)[s] = <<By(h, g)>>
      BY <1>1, <1>4, <3>1
    <3>3. 1 \in DOMAIN SlotsWith(H, g)[s] /\ SlotsWith(H, g)[s][1] = By(h, f)
      BY <2>2, <3>2
    <3> QED BY <3>3
  <2> QED BY <2>1, <2>2
<1>6. \A h \in Hooks : Tracers(SlotsWith(H, g))[h] = IF h \in H THEN {g} ELSE {}
  BY <1>5 DEF Tracers, By
<1> QED BY <1>6 DEF Tracers, TracersWith

(* What is in place, seen by TracingSwitch.                                 *)
LEMMA NothingIsOff ==
    Tracers([s \in Slots |-> <<>>]) = Switch!Off
<1>1. \A h \in Hooks : Patches[h] \subseteq Slots
  BY PatchesOf DEF Slots, Hooks
<1>2. \A s \in Slots : DOMAIN [r \in Slots |-> <<>>][s] = {}
  OBVIOUS
<1>3. \A h \in Hooks : Tracers([s \in Slots |-> <<>>])[h] = {}
  BY <1>1, <1>2 DEF Tracers
<1> QED BY <1>3 DEF Tracers, Switch!Off

(* The first four hooks switch tracing on ...                               *)
LEMMA InstallHooksSwitches ==
    ASSUME IInv, InstallHooks
    PROVE  Switch!SwitchOn(runtime) \/ UNCHANGED Switch!vars
<1>1. runtime \in Runtimes /\ provider[runtime] = "live" /\ UNCHANGED provider
  BY DEF InstallHooks, IInv, SetupInv
<1>2. CASE Nothing
  <2>1. InstallEarly(Patched, runtime) = PatchedWith(Early, runtime)
    BY <1>1, <1>2, NothingIsPatchedWith, InstallEarlyAdds
  <2>2. slot' = SlotsWith(Early, runtime)
    BY <2>1 DEF InstallHooks, Becomes, PatchedWith
  <2>3. Early \in SUBSET Hooks /\ \A h \in Hooks : h \in Early <=> h \notin {"mqtt", "rest"}
    BY DEF Early, Hooks
  <2>4. Tracers(slot') = [h \in Hooks |-> IF h \in {"mqtt", "rest"} THEN {} ELSE {runtime}]
    BY <1>1, <2>2, <2>3, TracersOfHooked DEF TracersWith
  <2>5. Tracers(slot) = Switch!Off
    BY <1>2, NothingIsOff DEF Nothing
  <2> QED BY <1>1, <2>4, <2>5 DEF Switch!SwitchOn
<1>3. ASSUME NEW g \in Runtimes, NEW H \in SUBSET Hooks, Something(H, g),
             Patched = PatchedWith(H, g)
      PROVE  UNCHANGED Switch!vars
  <2>1. InstallEarly(Patched, runtime).slot = SlotsWith(H, g)
    BY <1>3, InstallRefused DEF Something, Early
  <2>2. slot' = slot
    BY <1>3, <2>1 DEF InstallHooks, Becomes, Something, Hooked
  <2> QED BY <1>1, <2>2 DEF Switch!vars
<1> QED BY <1>2, <1>3, ShapeIsHooked DEF IInv

(* ... and the others join them, at the end of the setup or later.          *)
LEMMA LateHooksJoin ==
    ASSUME NEW H \in SUBSET Hooks, NEW g \in Runtimes, NEW more \in SUBSET {"mqtt", "rest"},
           Early \subseteq H, H \cap more = {}, provider[g] = "live", UNCHANGED provider,
           slot = SlotsWith(H, g), slot' = SlotsWith(H \cup more, g)
    PROVE  Switch!Join(g, more)
<1>1. H \cup more \in SUBSET Hooks
  BY DEF Hooks
<1>2. Tracers(slot) = TracersWith(H, g) /\ Tracers(slot') = TracersWith(H \cup more, g)
  BY <1>1, TracersOfHooked
<1>3. \A h \in Hooks \ {"mqtt", "rest"} : h \in H
  BY DEF Early, Hooks
<1>4. \A h \in more : h \in Hooks /\ h \notin H
  BY DEF Hooks
<1> QED BY <1>2, <1>3, <1>4 DEF Switch!Join, TracersWith

(* Every step of the patches is a step of the switch, or none.              *)
LEMMA NextSwitches ==
    ASSUME IInv, IInv', [Next]_vars
    PROVE  [Switch!Next]_(Switch!vars)
<1>1. CASE BeginSetup \/ Validate \/ ImportFails \/ ForgetFailed \/ MqttSetUp \/ HttpStarts
           \/ Register \/ UNCHANGED vars
  <2>1. UNCHANGED <<slot, provider>>
    BY <1>1 DEF BeginSetup, Validate, ImportFails, ForgetFailed, MqttSetUp, HttpStarts, Register,
               hooking, vars
  <2> QED BY <2>1 DEF Switch!vars
<1>2. CASE SetupTraceRuntime
  <2>1. slot' = slot
    BY <1>2 DEF SetupTraceRuntime, hooking
  <2>2. \A g \in Runtimes : provider'[g] = "shut_down" <=> provider[g] = "shut_down"
    BY <1>2 DEF SetupTraceRuntime, IInv, TypeOK
  <2> QED BY <2>1, <2>2 DEF Switch!vars
<1>3. CASE InstallHooks
  <2>1. runtime \in Runtimes
    BY <1>3 DEF InstallHooks, IInv, SetupInv
  <2> QED BY <1>3, <2>1, InstallHooksSwitches DEF Switch!Next
<1>4. CASE InstallLate
  <2>1. /\ runtime \in Runtimes /\ provider[runtime] = "live" /\ UNCHANGED provider
        /\ slot = SlotsWith(Early, runtime)
    BY <1>4, InstallLateAdds DEF Hooked
  <2>2. PICK more \in SUBSET {"mqtt", "rest"} : slot' = SlotsWith(Early \cup more, runtime)
    BY <1>4, InstallLateAdds
  <2>3. Early \in SUBSET Hooks /\ Early \cap more = {}
    BY DEF Early, Hooks
  <2> QED BY <2>1, <2>2, <2>3, LateHooksJoin DEF Switch!Next
<1>5. CASE Unload
  <2>1. Nothing' /\ UNCHANGED provider
    BY <1>5 DEF Unload, IInv, EntryInv
  <2>2. Tracers(slot') = Switch!Off
    BY <2>1, NothingIsOff DEF Nothing
  <2> QED BY <2>1, <2>2 DEF Switch!SwitchOff, Switch!Next
<1>6. CASE Shutdown
  <2>1. Nothing /\ slot' = slot /\ provider' = [provider EXCEPT ![runtime] = "shut_down"]
    BY <1>6 DEF Shutdown, IInv, EntryInv, hooking
  <2>2. Tracers(slot) = Switch!Off
    BY <2>1, NothingIsOff DEF Nothing
  <2>3. CASE runtime \in Runtimes
    <3>1. {g \in Runtimes : provider'[g] = "shut_down"}
             = {g \in Runtimes : provider[g] = "shut_down"} \cup {runtime}
      BY <2>1, <2>3 DEF IInv, TypeOK
    <3> QED BY <2>1, <2>2, <2>3, <3>1 DEF Switch!Close, Switch!Next
  <2>4. CASE runtime \notin Runtimes
    BY <2>1, <2>4 DEF Switch!vars, IInv, TypeOK
  <2> QED BY <2>3, <2>4
<1>7. CASE MqttAnnounced
  <2>1. UNCHANGED provider
    BY <1>7 DEF MqttAnnounced
  <2>2. CASE listener = None
    BY <1>7, <2>1, <2>2 DEF MqttAnnounced, Becomes, Patched, Switch!vars
  <2>3. CASE listener # None
    <3>1. PICK g \in Runtimes, H \in SUBSET Hooks : Something(H, g) /\ Patched = PatchedWith(H, g)
      BY <2>3, ShapeIsHooked DEF IInv, Nothing
    <3>2. /\ listener = g /\ "mqtt" \notin H /\ Early \subseteq H /\ provider[g] = "live"
          /\ slot = SlotsWith(H, g)
      BY <2>3, <3>1 DEF Something, Hooked
    <3>3. Apply(Patched, "mqtt", g) = PatchedWith(H \cup {"mqtt"}, g)
      <4>1. "mqtt" \in Hooks \ H /\ InOrder(H \cup {"mqtt"})
        BY <3>2 DEF Hooks, InOrder, Early
      <4> QED BY <3>1, <4>1, ApplyAdds DEF PatchedWith
    <3>4. slot' = SlotsWith(H \cup {"mqtt"}, g)
      BY <1>7, <2>3, <3>2, <3>3 DEF MqttAnnounced, ListenerApplies, Becomes, PatchedWith
    <3>5. {"mqtt"} \in SUBSET {"mqtt", "rest"} /\ H \cap {"mqtt"} = {}
      BY <3>2
    <3>6. Switch!Join(g, {"mqtt"})
      BY <2>1, <3>2, <3>4, <3>5, LateHooksJoin
    <3> QED BY <3>5, <3>6 DEF Switch!Next
  <2> QED BY <2>2, <2>3
<1> QED BY <1>1, <1>2, <1>3, <1>4, <1>5, <1>6, <1>7 DEF Next

(* At first tracing is off and no runtime is closed.                        *)
LEMMA InitSwitches == Init => Switch!Init
<1> SUFFICES ASSUME Init PROVE Switch!Init
  OBVIOUS
<1>1. Tracers(slot) = Switch!Off
  BY NothingIsOff DEF Init
<1>2. {g \in Runtimes : provider[g] = "shut_down"} = {}
  BY DEF Init
<1> QED BY <1>1, <1>2 DEF Switch!Init

(* Whatever fails half way, tracing is switched on by one runtime, joined   *)
(* by its late hooks, switched off for all hooks in one step, and only then *)
(* is the runtime's provider shut down.                                     *)
THEOREM PatchesAreOneSwitch == Spec => OneSwitch
<1>1. IInv /\ IInv' /\ [Next]_vars => [Switch!Next]_(Switch!vars)
  BY NextSwitches
<1> QED BY <1>1, InitSwitches, InitIInv, NextIInv, PTL DEF Spec, OneSwitch, Switch!Spec
=============================================================================
