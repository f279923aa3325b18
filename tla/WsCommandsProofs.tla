------------------------- MODULE WsCommandsProofs -------------------------
(* Proofs about WsCommands for every set of commands and every number of    *)
(* installations and registrations.                                         *)
EXTENDS WsCommands, FiniteSetTheorems, SequenceTheorems, TLAPS

(* An entry that is what some registration of command c left.               *)
AsLeft(c, entry) ==
    /\ entry.body \in DOMAIN registered
    /\ registered[entry.body].command = c
    /\ entry = Stored(entry.body, registered[entry.body])

(* Why nothing remains of an installation: what is saved is as registration *)
(* left it, and so is what was registered where nothing is saved.           *)
SavedAsLeft ==
    patch # None => /\ installs \in Installs
                    /\ \A c \in Command : patch[c] # None => AsLeft(c, patch[c])

RestAsLeft ==
    \A c \in Command :
        (handlers[c] # None /\ (patch = None \/ patch[c] = None)) => AsLeft(c, handlers[c])

IInv == TypeOK /\ SavedAsLeft /\ RestAsLeft

-----------------------------------------------------------------------------
(* Wrapping keeps the layers installations.                                 *)
LEMMA WrapType ==
    ASSUME NEW kind, NEW layers \in Seq(Installs), NEW install \in Installs
    PROVE  Wrap(kind, layers, install) \in Seq(Installs)
BY DEF Wrap, IsAsync

(* What is stored for a registration is an entry of that registration.      *)
LEMMA StoredType ==
    ASSUME NEW body \in 1 .. MaxRegistrations, NEW r \in Registration
    PROVE  Stored(body, r) \in Entry /\ Stored(body, r).body = body
<1>1. <<>> \in Seq(Installs)
  OBVIOUS
<1>2. r.hooked # None => Wrap(r.kind, <<>>, r.hooked) \in Seq(Installs)
  BY <1>1, WrapType DEF Registration
<1>3. r.schema \in Schemas /\ Extend(r.schema) \in Schemas
  BY DEF Registration, Extend, Schemas
<1> QED BY <1>1, <1>2, <1>3 DEF Stored, Entry

(* The history holds registrations of commands.                             *)
LEMMA RegisteredType ==
    ASSUME TypeOK
    PROVE  \A i \in DOMAIN registered : registered[i].command \in Command
<1>1. registered \in Seq(Registration)
  BY DEF TypeOK
<1>2. \A i \in DOMAIN registered : registered[i] \in Registration
  BY <1>1
<1> QED BY <1>2 DEF Registration

(* websocket_api's own commands are as they were registered.                *)
LEMMA InitIInv == Init => IInv
<1> SUFFICES ASSUME Init PROVE IInv
  OBVIOUS
<1> DEFINE first == [command |-> CallService, kind |-> "async",
                     schema |-> "plain", named |-> FALSE, hooked |-> None,
                     during |-> None]
<1>1. first \in Registration
  BY CommandAssumption DEF Registration, Kinds, Schemas
<1>2. registered = <<first>> /\ registered \in Seq(Registration)
      /\ DOMAIN registered = {1} /\ registered[1] = first
  BY <1>1 DEF Init
<1>3. registered[1].command = CallService
  BY <1>2
<1>4. 1 \in 1 .. MaxRegistrations
  BY BoundAssumption
<1>5. Stored(1, first) \in Entry /\ Stored(1, first).body = 1
  BY <1>1, <1>4, StoredType
<1>6. handlers = [c \in Command |-> IF c = CallService THEN Stored(1, first) ELSE None]
  BY DEF Init
<1>7. patch = None /\ installs = 0
  BY DEF Init
<1> HIDE DEF first
<1>8. handlers[CallService] = Stored(1, first) /\ \A c \in Command \ {CallService} : handlers[c] = None
  BY <1>6, CommandAssumption
<1>9. AsLeft(CallService, handlers[CallService])
  BY <1>2, <1>5, <1>3, <1>8 DEF AsLeft
<1>10. TypeOK
  <2>1. handlers \in [Command -> Entry \cup {None}]
    BY <1>5, <1>6
  <2>2. handlers[registered[1].command] # None
    BY <1>5, <1>3, <1>8, NoneAssumption
  <2>3. \A c \in Command : handlers[c] # None =>
            handlers[c].body \in DOMAIN registered /\ registered[handlers[c].body].command = c
    BY <1>2, <1>5, <1>3, <1>8
  <2>4. installs \in 0 .. MaxInstalls
    BY <1>7, BoundAssumption
  <2> QED BY <1>2, <1>7, <2>1, <2>2, <2>3, <2>4 DEF TypeOK
<1> QED BY <1>7, <1>9, <1>10, <1>8 DEF IInv, SavedAsLeft, RestAsLeft

(* An installation wraps what it has saved.                                 *)
LEMMA InstallIInv == ASSUME IInv, Install PROVE IInv'
<1> USE DEF IInv
<1>1. installs' = installs + 1 /\ installs' \in Installs
  BY BoundAssumption DEF TypeOK, Install, Installs
<1>2. patch = None /\ patch' = handlers /\ handlers' = Traced(installs') /\ registered' = registered
  BY <1>1 DEF Install, Saved
<1>3. patch' # None
  BY <1>2, NoneAssumption DEF TypeOK
<1>4. ASSUME NEW c \in Command
      PROVE  /\ handlers[c] = None => handlers'[c] = None
             /\ handlers[c] # None => /\ handlers'[c] \in Entry
                                      /\ handlers'[c] # None
                                      /\ handlers'[c].body = handlers[c].body
  <2>1. CASE handlers[c] = None
    BY <1>2, <2>1 DEF Traced
  <2>2. CASE handlers[c] # None
    <3> DEFINE e == handlers[c]
               ls == Wrap(registered[e.body].kind, e.layers, installs')
               sc == IF c = CallService THEN Extend(e.schema) ELSE e.schema
    <3>1. e \in Entry
      BY <2>2 DEF TypeOK
    <3>2. handlers'[c] = [e EXCEPT !.layers = ls, !.schema = sc]
      BY <1>2, <2>2 DEF Traced
    <3>3. ls \in Seq(Installs)
      BY <1>1, <3>1, WrapType DEF Entry
    <3>4. sc \in Schemas
      BY <3>1 DEF Entry, Extend, Schemas
    <3> HIDE DEF ls, sc
    <3>5. handlers'[c] \in Entry /\ handlers'[c].body = e.body
      BY <3>1, <3>2, <3>3, <3>4 DEF Entry
    <3> QED BY <2>2, <3>5, NoneAssumption
  <2> QED BY <2>1, <2>2
<1>5. handlers' \in [Command -> Entry \cup {None}]
  <2>1. handlers' = [c \in Command |-> handlers'[c]]
    BY <1>2 DEF Traced
  <2> QED BY <1>4, <2>1
<1>6. TypeOK'
  <2>1. \A i \in DOMAIN registered' : handlers'[registered'[i].command] # None
    <3>1. \A i \in DOMAIN registered : registered[i].command \in Command
      BY RegisteredType
    <3> QED BY <1>2, <1>4, <3>1 DEF TypeOK
  <2>2. \A c \in Command : handlers'[c] # None =>
            handlers'[c].body \in DOMAIN registered' /\ registered'[handlers'[c].body].command = c
    BY <1>2, <1>4 DEF TypeOK
  <2>3. installs' \in 0 .. MaxInstalls
    BY <1>1, BoundAssumption DEF Installs
  <2> QED BY <1>2, <1>5, <2>1, <2>2, <2>3 DEF TypeOK
<1>7. SavedAsLeft'
  BY <1>1, <1>2 DEF RestAsLeft, SavedAsLeft, AsLeft
<1>8. RestAsLeft'
  BY <1>2, <1>3, <1>4 DEF RestAsLeft
<1> QED BY <1>6, <1>7, <1>8

(* A removal puts back what was saved and leaves the rest.                  *)
LEMMA UninstallIInv == ASSUME IInv, Uninstall PROVE IInv'
<1> USE DEF IInv
<1>1. /\ patch # None /\ patch' = None /\ UNCHANGED <<installs, registered>>
      /\ handlers' = [c \in Command |-> IF patch[c] # None THEN patch[c] ELSE handlers[c]]
  BY DEF Uninstall, Restored
<1>2. patch \in [Command -> Entry \cup {None}]
  BY <1>1 DEF TypeOK
<1>3. ASSUME NEW c \in Command, handlers'[c] # None
      PROVE  AsLeft(c, handlers'[c])
  BY <1>1, <1>3 DEF SavedAsLeft, RestAsLeft
<1>4. RestAsLeft'
  BY <1>1, <1>3 DEF RestAsLeft, AsLeft
<1>5. TypeOK'
  <2>1. \A c \in Command : handlers[c] # None => handlers'[c] # None
    BY <1>1
  <2>2. \A i \in DOMAIN registered : registered[i].command \in Command
    BY RegisteredType
  <2> QED BY <1>1, <1>2, <1>3, <2>1, <2>2 DEF TypeOK, AsLeft
<1>6. SavedAsLeft'
  BY <1>1 DEF SavedAsLeft
<1> QED BY <1>4, <1>5, <1>6

(* Earlier registrations are what they were.                                *)
LEMMA AsLeftKept ==
    ASSUME TypeOK, NEW r, registered' = Append(registered, r),
           NEW c \in Command, NEW entry, AsLeft(c, entry)
    PROVE  AsLeft(c, entry)'
<1>1. \A i \in DOMAIN registered : i \in DOMAIN registered' /\ registered'[i] = registered[i]
  BY DEF TypeOK
<1> QED BY <1>1 DEF AsLeft, Stored, Wrap, IsAsync, Extend

(* A registration replaces one entry, where nothing need be saved for it.   *)
LEMMA RegisterIInv ==
    ASSUME IInv, NEW c \in Command, NEW kind \in Kinds, NEW schema \in {"False", "plain"},
           NEW named \in BOOLEAN, NEW late \in BOOLEAN,
           RegisterCommand(c, kind, schema, named, late)
    PROVE  IInv'
<1> USE DEF IInv
<1> DEFINE r == [command |-> c, kind |-> kind, schema |-> schema, named |-> named,
                 hooked |-> IF patch # None /\ late THEN installs ELSE None,
                 during |-> IF patch # None THEN installs ELSE None]
           body == Len(registered) + 1
<1>1. r \in Registration
  BY DEF Registration, Schemas, SavedAsLeft
<1>2. /\ body <= MaxRegistrations
      /\ registered' = Append(registered, r)
      /\ handlers' = [handlers EXCEPT ![c] = Stored(body, r)]
      /\ UNCHANGED <<patch, installs>>
  BY DEF RegisterCommand
<1>3. body \in 1 .. MaxRegistrations
  BY <1>2, BoundAssumption DEF TypeOK
<1>4. Stored(body, r) \in Entry /\ Stored(body, r).body = body
  BY <1>1, <1>3, StoredType
<1> HIDE DEF r
<1>5. /\ registered' \in Seq(Registration)
      /\ DOMAIN registered' = DOMAIN registered \cup {body}
      /\ registered'[body] = r
      /\ \A i \in DOMAIN registered : registered'[i] = registered[i]
  BY <1>1, <1>2 DEF TypeOK
<1>6. r.command = c
  BY DEF r
<1>7. handlers' \in [Command -> Entry \cup {None}]
      /\ handlers'[c] = Stored(body, r)
      /\ \A d \in Command \ {c} : handlers'[d] = handlers[d]
  BY <1>2, <1>4 DEF TypeOK
<1>8. AsLeft(c, handlers[c])'
  BY <1>4, <1>5, <1>6, <1>7 DEF AsLeft, Stored, Wrap, IsAsync, Extend
<1>9. TypeOK'
  <2>1. handlers'[c] # None
    BY <1>4, <1>7, NoneAssumption
  <2>2. \A i \in DOMAIN registered : registered[i].command \in Command
    BY RegisteredType
  <2>3. \A i \in DOMAIN registered' : handlers'[registered'[i].command] # None
    BY <1>5, <1>6, <1>7, <2>1, <2>2 DEF TypeOK
  <2>4. \A d \in Command : handlers'[d] # None =>
            handlers'[d].body \in DOMAIN registered' /\ registered'[handlers'[d].body].command = d
    BY <1>4, <1>5, <1>6, <1>7 DEF TypeOK
  <2> QED BY <1>2, <1>5, <1>7, <2>3, <2>4 DEF TypeOK
<1>10. SavedAsLeft'
  <2>1. \A d \in Command : patch # None /\ patch[d] # None => AsLeft(d, patch[d])'
    BY <1>2, AsLeftKept DEF SavedAsLeft
  <2> QED BY <1>2, <2>1 DEF SavedAsLeft, AsLeft
<1>11. RestAsLeft'
  <2>1. ASSUME NEW d \in Command, handlers'[d] # None, patch' = None \/ patch'[d] = None, d # c
        PROVE  AsLeft(d, handlers[d])'
    <3>1. handlers'[d] = handlers[d] /\ AsLeft(d, handlers[d])
      BY <1>2, <1>7, <2>1 DEF RestAsLeft
    <3> QED BY <1>5, <3>1, <1>7, <2>1 DEF AsLeft, Stored, Wrap, IsAsync, Extend
  <2> QED BY <1>8, <2>1 DEF RestAsLeft
<1> QED BY <1>9, <1>10, <1>11

(* Every step keeps the invariant.                                          *)
LEMMA NextIInv == IInv /\ [Next]_vars => IInv'
<1> SUFFICES ASSUME IInv, [Next]_vars PROVE IInv'
  OBVIOUS
<1>1. CASE UNCHANGED vars
  BY <1>1 DEF vars, IInv, TypeOK, SavedAsLeft, RestAsLeft, AsLeft
<1> QED BY <1>1, InstallIInv, UninstallIInv, RegisterIInv DEF Next

(* In every reachable state the saved entries, and those nothing is saved   *)
(* for, are as some registration left them.                                 *)
THEOREM Invariance == Spec => []IInv
<1> QED BY InitIInv, NextIInv, PTL DEF Spec

(* The table is well typed, and no command that was registered is lost.     *)
THEOREM TypeCorrect == Spec => []TypeOK
<1>1. IInv => TypeOK
  BY DEF IInv
<1> QED BY <1>1, Invariance, PTL

(* Removing tracing leaves every handler as its registration left it.       *)
THEOREM UnloadLeavesAsRegistered == Spec => []AsRegistered
<1>1. IInv => AsRegistered
  BY DEF IInv, AsRegistered, RestAsLeft, AsLeft
<1> QED BY <1>1, Invariance, PTL

-----------------------------------------------------------------------------
(* How many spans a message makes.  An installation wraps what it finds,    *)
(* and what it finds was left by registrations that asked an earlier        *)
(* installation or none; what is registered later is not in what it saved.  *)
EarlierHooks ==
    \A i \in DOMAIN registered : registered[i].hooked # None => registered[i].hooked <= installs

WrappedOver(c) ==
    /\ patch[c].body = handlers[c].body
    /\ LET r == registered[handlers[c].body] IN
          /\ r.hooked # installs
          /\ handlers[c].layers = Wrap(r.kind, patch[c].layers, installs)

RegisteredSince(c) ==
    /\ patch[c] # None => patch[c].body # handlers[c].body
    /\ AsLeft(c, handlers[c])

LayersInv ==
    patch # None =>
        \A c \in Command : handlers[c] # None =>
            (patch[c] # None /\ WrappedOver(c)) \/ RegisteredSince(c)

CountInv == IInv /\ EarlierHooks /\ LayersInv

(* Nothing is installed at first.                                           *)
LEMMA InitCount == Init => CountInv
<1> SUFFICES ASSUME Init PROVE CountInv
  OBVIOUS
<1>1. LayersInv
  BY DEF Init, LayersInv
<1>2. EarlierHooks
  <2>1. DOMAIN registered = {1} /\ registered[1].hooked = None
    BY DEF Init
  <2> QED BY <2>1 DEF EarlierHooks
<1> QED BY <1>1, <1>2, InitIInv DEF CountInv

(* An installation is later than every hook a registration was given to.    *)
LEMMA InstallCount == ASSUME CountInv, Install PROVE EarlierHooks' /\ LayersInv'
<1>1. /\ installs' = installs + 1 /\ patch = None /\ patch' = handlers
      /\ handlers' = Traced(installs') /\ registered' = registered /\ installs \in Nat
  BY DEF CountInv, IInv, TypeOK, Install, Saved
<1>2. \A i \in DOMAIN registered : registered[i].hooked # None =>
         registered[i].hooked \in Nat /\ registered[i].hooked <= installs
  <2>1. \A i \in DOMAIN registered : registered[i] \in Registration
    BY ElementOfSeq DEF CountInv, IInv, TypeOK
  <2> QED BY <2>1 DEF CountInv, EarlierHooks, Registration, Installs
<1>3. EarlierHooks'
  BY <1>1, <1>2 DEF EarlierHooks
<1>4. ASSUME NEW c \in Command, handlers'[c] # None
      PROVE  patch'[c] # None /\ WrappedOver(c)'
  <2>1. handlers[c] # None
    BY <1>1, <1>4 DEF Traced
  <2>2. handlers[c] \in Entry /\ handlers[c].body \in DOMAIN registered
    BY <2>1 DEF CountInv, IInv, TypeOK
  <2>3. handlers'[c] = [handlers[c] EXCEPT
            !.layers = Wrap(registered[handlers[c].body].kind, handlers[c].layers, installs'),
            !.schema = IF c = CallService THEN Extend(handlers[c].schema) ELSE handlers[c].schema]
    BY <1>1, <2>1 DEF Traced
  <2>4. /\ handlers'[c].body = handlers[c].body
        /\ handlers'[c].layers = Wrap(registered[handlers[c].body].kind, handlers[c].layers, installs')
    BY <2>2, <2>3 DEF Entry
  <2>5. registered[handlers[c].body].hooked # installs'
    <3>1. installs' # None
      BY <1>1, NoneAssumption, BoundAssumption DEF Install, Installs
    <3> QED BY <1>1, <1>2, <2>2, <3>1
  <2>6. WrappedOver(c)'
    BY <1>1, <2>4, <2>5 DEF WrappedOver, Wrap, IsAsync
  <2> QED BY <1>1, <2>1, <2>6
<1>5. LayersInv'
  BY <1>4 DEF LayersInv, RegisteredSince, AsLeft, Stored, Wrap, IsAsync, Extend
<1> QED BY <1>3, <1>5

(* A registration replaces one handler and saves nothing.                   *)
LEMMA RegisterCount ==
    ASSUME CountInv, NEW c \in Command, NEW kind \in Kinds, NEW schema \in {"False", "plain"},
           NEW named \in BOOLEAN, NEW late \in BOOLEAN,
           RegisterCommand(c, kind, schema, named, late)
    PROVE  EarlierHooks' /\ LayersInv'
<1> DEFINE r == [command |-> c, kind |-> kind, schema |-> schema, named |-> named,
                 hooked |-> IF patch # None /\ late THEN installs ELSE None,
                 during |-> IF patch # None THEN installs ELSE None]
<1> PICK body : body = Len(registered) + 1
  OBVIOUS
<1>1. /\ body <= MaxRegistrations
      /\ registered' = Append(registered, r)
      /\ handlers' = [handlers EXCEPT ![c] = Stored(body, r)]
      /\ UNCHANGED <<patch, installs>>
  BY DEF RegisterCommand
<1>2. r \in Registration
  BY DEF CountInv, IInv, SavedAsLeft, Registration, Schemas
<1>3. r.command = c /\ (r.hooked # None => r.hooked = installs)
  OBVIOUS
<1> HIDE DEF r
<1>4. /\ DOMAIN registered' = DOMAIN registered \cup {body}
      /\ registered'[body] = r /\ body \notin DOMAIN registered
      /\ \A i \in DOMAIN registered : registered'[i] = registered[i]
      /\ body \in 1 .. MaxRegistrations
      /\ installs \in Nat
  BY <1>1, <1>2 DEF CountInv, IInv, TypeOK
<1>5. EarlierHooks'
  BY <1>1, <1>3, <1>4 DEF CountInv, EarlierHooks
<1>6. Stored(body, r) \in Entry /\ Stored(body, r).body = body
  BY <1>2, <1>4, StoredType
<1>7. /\ handlers'[c] = Stored(body, r)
      /\ \A d \in Command \ {c} : handlers'[d] = handlers[d]
  BY <1>1 DEF CountInv, IInv, TypeOK
<1>8. ASSUME patch # None
      PROVE  RegisteredSince(c)'
  <2>1. patch[c] # None => patch[c].body \in DOMAIN registered
    BY <1>8 DEF CountInv, IInv, SavedAsLeft, AsLeft
  <2>2. AsLeft(c, handlers[c])'
    BY <1>3, <1>4, <1>6, <1>7 DEF AsLeft, Stored, Wrap, IsAsync, Extend
  <2> QED BY <1>1, <1>4, <1>6, <1>7, <2>1, <2>2 DEF RegisteredSince
<1>9. ASSUME patch # None, NEW d \in Command \ {c}, handlers'[d] # None
      PROVE  (patch'[d] # None /\ WrappedOver(d)') \/ RegisteredSince(d)'
  <2>1. handlers[d].body \in DOMAIN registered
    BY <1>7, <1>9 DEF CountInv, IInv, TypeOK
  <2>2. CASE patch[d] # None /\ WrappedOver(d)
    BY <1>1, <1>4, <1>7, <2>1, <2>2 DEF WrappedOver, Wrap, IsAsync
  <2>3. CASE RegisteredSince(d)
    <3>1. AsLeft(d, handlers[d])'
      BY <1>4, <1>7, <2>1, <2>3 DEF RegisteredSince, AsLeft, Stored, Wrap, IsAsync, Extend
    <3> QED BY <1>1, <1>7, <2>3, <3>1 DEF RegisteredSince
  <2> QED BY <1>7, <1>9, <2>2, <2>3 DEF CountInv, LayersInv
<1>10. LayersInv'
  BY <1>1, <1>8, <1>9 DEF LayersInv
<1> QED BY <1>5, <1>10

(* Every step keeps the account of layers.                                  *)
LEMMA NextCount == CountInv /\ [Next]_vars => CountInv'
<1> SUFFICES ASSUME CountInv, [Next]_vars PROVE CountInv'
  OBVIOUS
<1>1. IInv'
  BY NextIInv DEF CountInv
<1>2. CASE Uninstall
  BY <1>1, <1>2 DEF Uninstall, CountInv, EarlierHooks, LayersInv
<1>3. CASE UNCHANGED vars
  BY <1>1, <1>3 DEF vars, CountInv, EarlierHooks, LayersInv, WrappedOver, RegisteredSince,
                    AsLeft, Stored, Wrap, IsAsync, Extend
<1> QED BY <1>1, <1>2, <1>3, InstallCount, RegisterCount DEF Next, CountInv

(* So it always is.                                                         *)
LEMMA CountInvariance == Spec => []CountInv
<1> QED BY InitCount, NextCount, PTL DEF Spec

(* A sequence of two is known by its elements.                              *)
LEMMA PairOf ==
    ASSUME NEW a, NEW b, NEW s \in Seq({a, b}), Len(s) = 2, s[1] = a, s[2] = b
    PROVE  s = <<a, b>>
  OBVIOUS

(* The same of three.                                                       *)
LEMMA TripleOf ==
    ASSUME NEW a, NEW b, NEW c, NEW s \in Seq({a, b, c}),
           Len(s) = 3, s[1] = a, s[2] = b, s[3] = c
    PROVE  s = <<a, b, c>>
  OBVIOUS

(* Adding one element at the end of a short sequence.                       *)
LEMMA OneMore ==
    ASSUME NEW a, NEW b, NEW c
    PROVE  /\ <<a>> \o <<b>> = <<a, b>> /\ Append(<<a>>, b) = <<a, b>>
           /\ <<a, b>> \o <<c>> = <<a, b, c>>
<1>1. PICK s : s = <<a>> \o <<b>>
  OBVIOUS
<1>2. s \in Seq({a, b}) /\ Len(s) = 2 /\ s[1] = a /\ s[2] = b
  BY <1>1
<1>3. PICK t : t = <<a, b>> \o <<c>>
  OBVIOUS
<1>4. t \in Seq({a, b, c}) /\ Len(t) = 3 /\ t[1] = a /\ t[2] = b /\ t[3] = c
  BY <1>3
<1>5. Append(<<a>>, b) = <<a>> \o <<b>>
  <2>1. PICK u : u = Append(<<a>>, b)
    OBVIOUS
  <2>2. u \in Seq({a, b}) /\ Len(u) = 2 /\ u[1] = a /\ u[2] = b
    BY <2>1
  <2>3. u = <<a, b>> /\ s = <<a, b>>
    BY <1>2, <2>2, PairOf
  <2> QED BY <1>1, <2>1, <2>3
<1> QED BY <1>1, <1>2, <1>3, <1>4, <1>5, PairOf, TripleOf

(* How many times a name is in a sequence of three at most.                 *)
LEMMA Occurrences ==
    ASSUME NEW x
    PROVE  /\ Cardinality({i \in DOMAIN <<>> : <<>>[i] = x}) = 0
           /\ \A a : Cardinality({i \in DOMAIN <<a>> : <<a>>[i] = x}) = IF a = x THEN 1 ELSE 0
           /\ \A a : Cardinality({i \in DOMAIN <<a, x>> : <<a, x>>[i] = x}) = IF a = x THEN 2 ELSE 1
           /\ \A a : a # x => Cardinality({i \in DOMAIN <<x, a>> : <<x, a>>[i] = x}) = 1
           /\ \A a : a # x => Cardinality({i \in DOMAIN <<x, a, x>> : <<x, a, x>>[i] = x}) = 2
<1>1. Cardinality({}) = 0 /\ \A i : Cardinality({i}) = 1
  BY FS_EmptySet, FS_Singleton
<1>2. Cardinality({1, 2}) = 2 /\ Cardinality({1, 3}) = 2
  <2> SUFFICES ASSUME NEW j \in {2, 3} PROVE Cardinality({1, j}) = 2
    OBVIOUS
  <2>1. IsFiniteSet({1}) /\ Cardinality({1}) = 1
    BY FS_Singleton
  <2>2. Cardinality({1} \cup {j}) = IF j \in {1} THEN Cardinality({1}) ELSE Cardinality({1}) + 1
    BY <2>1, FS_AddElement, Zenon
  <2>3. j \notin {1}
    OBVIOUS
  <2>4. {1} \cup {j} = {1, j}
    BY Zenon
  <2> QED BY <2>1, <2>2, <2>3, <2>4
<1>3. Cardinality({i \in DOMAIN <<>> : <<>>[i] = x}) = 0
  <2>1. {i \in DOMAIN <<>> : <<>>[i] = x} = {}
    OBVIOUS
  <2> QED BY <1>1, <2>1
<1>4. ASSUME NEW a
      PROVE  Cardinality({i \in DOMAIN <<a>> : <<a>>[i] = x}) = IF a = x THEN 1 ELSE 0
  <2>1. CASE a = x
    <3>1. {i \in DOMAIN <<a>> : <<a>>[i] = x} = {1}
      BY <2>1
    <3> QED BY <1>1, <2>1, <3>1
  <2>2. CASE a # x
    <3>1. {i \in DOMAIN <<a>> : <<a>>[i] = x} = {}
      BY <2>2
    <3> QED BY <1>1, <2>2, <3>1
  <2> QED BY <2>1, <2>2
<1>5. ASSUME NEW a
      PROVE  Cardinality({i \in DOMAIN <<a, x>> : <<a, x>>[i] = x}) = IF a = x THEN 2 ELSE 1
  <2>1. CASE a = x
    <3>1. {i \in DOMAIN <<a, x>> : <<a, x>>[i] = x} = {1, 2}
      BY <2>1
    <3> QED BY <1>2, <2>1, <3>1
  <2>2. CASE a # x
    <3>1. {i \in DOMAIN <<a, x>> : <<a, x>>[i] = x} = {2}
      BY <2>2
    <3> QED BY <1>1, <2>2, <3>1
  <2> QED BY <2>1, <2>2
<1>6. ASSUME NEW a, a # x
      PROVE  Cardinality({i \in DOMAIN <<x, a>> : <<x, a>>[i] = x}) = 1
  <2>1. {i \in DOMAIN <<x, a>> : <<x, a>>[i] = x} = {1}
    BY <1>6
  <2> QED BY <1>1, <2>1
<1>7. ASSUME NEW a, a # x
      PROVE  Cardinality({i \in DOMAIN <<x, a, x>> : <<x, a, x>>[i] = x}) = 2
  <2>1. {i \in DOMAIN <<x, a, x>> : <<x, a, x>>[i] = x} = {1, 3}
    BY <1>7
  <2> QED BY <1>2, <2>1
<1> QED BY <1>3, <1>4, <1>5, <1>6, <1>7

(* The spans of a message by the layers of its handler; an asynchronous one *)
(* makes one more in its task.                                              *)
LEMMA SpansOfLayers ==
    ASSUME NEW entry, NEW task \in {0, 1},
           task = IF registered[entry.body].kind # "sync" /\ patch # None THEN 1 ELSE 0
    PROVE  /\ entry.layers = <<>> => CurrentSpans(entry) = task
           /\ \A h : entry.layers = <<h>> =>
                 CurrentSpans(entry) = task + (IF h = installs THEN 1 ELSE 0)
           /\ \A h : entry.layers = <<h, installs>> /\ h # installs =>
                 CurrentSpans(entry) = task + 1
<1> PICK l : l = entry.layers
  OBVIOUS
<1> DEFINE own == [i \in 1 .. Len(l) |-> l[Len(l) + 1 - i]]
<1>1. /\ task = 1 => Spans(entry) = own \o <<installs>>
      /\ task = 0 => Spans(entry) = own \o <<>>
  BY DEF Spans
<1>2. ASSUME NEW all, Spans(entry) = all
      PROVE  CurrentSpans(entry) = Cardinality({i \in DOMAIN all : all[i] = installs})
  BY <1>2 DEF CurrentSpans
<1>3. /\ l = <<>> => own = <<>>
      /\ \A h : l = <<h>> => own = <<h>>
      /\ \A h : l = <<h, installs>> => own = <<installs, h>>
  <2>1. ASSUME l = <<>> PROVE own = <<>>
    BY <2>1
  <2>2. ASSUME NEW h, l = <<h>> PROVE own = <<h>>
    BY <2>2
  <2>3. ASSUME NEW h, l = <<h, installs>> PROVE own = <<installs, h>>
    BY <2>3
  <2> HIDE DEF own
  <2> QED BY <2>1, <2>2, <2>3
<1> HIDE DEF own
<1>4. <<>> \o <<>> = <<>> /\ <<>> \o <<installs>> = <<installs>>
  OBVIOUS
<1>5. ASSUME NEW h
      PROVE  /\ <<h>> \o <<>> = <<h>> /\ <<h>> \o <<installs>> = <<h, installs>>
             /\ <<installs, h>> \o <<>> = <<installs, h>>
             /\ <<installs, h>> \o <<installs>> = <<installs, h, installs>>
  <2>1. <<h>> \o <<>> = <<h>> /\ <<installs, h>> \o <<>> = <<installs, h>>
    OBVIOUS
  <2> QED BY <2>1, OneMore
<1>6. ASSUME entry.layers = <<>> PROVE CurrentSpans(entry) = task
  <2>1. CASE task = 0
    <3>1. Spans(entry) = <<>>
      BY <1>1, <1>3, <1>4, <1>6, <2>1
    <3> QED BY <1>2, <2>1, <3>1, Occurrences
  <2>2. CASE task = 1
    <3>1. Spans(entry) = <<installs>>
      BY <1>1, <1>3, <1>4, <1>6, <2>2
    <3> QED BY <1>2, <2>2, <3>1, Occurrences
  <2> QED BY <2>1, <2>2
<1>7. ASSUME NEW h, entry.layers = <<h>>
      PROVE  CurrentSpans(entry) = task + (IF h = installs THEN 1 ELSE 0)
  <2>1. CASE task = 0
    <3>1. Spans(entry) = <<h>>
      BY <1>1, <1>3, <1>5, <1>7, <2>1
    <3> QED BY <1>2, <2>1, <3>1, Occurrences
  <2>2. CASE task = 1
    <3>1. Spans(entry) = <<h, installs>>
      BY <1>1, <1>3, <1>5, <1>7, <2>2
    <3> DEFINE all == <<h, installs>>
    <3>2. Cardinality({i \in DOMAIN all : all[i] = installs}) = IF h = installs THEN 2 ELSE 1
      BY Occurrences
    <3> HIDE DEF all
    <3> QED BY <1>2, <2>2, <3>1, <3>2 DEF all
  <2> QED BY <2>1, <2>2
<1>8. ASSUME NEW h, entry.layers = <<h, installs>>, h # installs
      PROVE  CurrentSpans(entry) = task + 1
  <2>1. CASE task = 0
    <3>1. Spans(entry) = <<installs, h>>
      BY <1>1, <1>3, <1>5, <1>8, <2>1
    <3> QED BY <1>2, <1>8, <2>1, <3>1, Occurrences
  <2>2. CASE task = 1
    <3>1. Spans(entry) = <<installs, h, installs>>
      BY <1>1, <1>3, <1>5, <1>8, <2>2
    <3> DEFINE all == <<installs, h, installs>>
    <3>2. Cardinality({i \in DOMAIN all : all[i] = installs}) = 2
      BY <1>8, Occurrences
    <3> HIDE DEF all
    <3> QED BY <1>2, <2>2, <3>1, <3>2 DEF all
  <2> QED BY <2>1, <2>2
<1> QED BY <1>6, <1>7, <1>8

(* What a registration leaves has one layer at most, and none if it is for  *)
(* an asynchronous handler.                                                 *)
LEMMA LayersLeft ==
    ASSUME NEW c, NEW entry, AsLeft(c, entry), NEW r, r = registered[entry.body]
    PROVE  entry.layers = IF r.hooked = None \/ r.kind = "async" THEN <<>> ELSE <<r.hooked>>
<1>1. entry.layers = IF r.hooked = None THEN <<>> ELSE Wrap(r.kind, <<>>, r.hooked)
  BY DEF AsLeft, Stored
<1>2. Append(<<>>, r.hooked) = <<r.hooked>>
  OBVIOUS
<1> QED BY <1>1, <1>2 DEF Wrap, IsAsync

(* While tracing is installed a message makes exactly the spans it should,  *)
(* after any number of installations, removals and registrations.           *)
THEOREM SpansPerMessageAreExact == Spec => []SpansPerMessage
<1>1. CountInv => SpansPerMessage
  <2> SUFFICES ASSUME CountInv, patch # None, NEW c \in Command, handlers[c] # None,
                      NEW r, r = registered[handlers[c].body],
                      NEW missed, missed = (Bypassed(handlers[c]) /\ r.hooked # installs)
               PROVE  CurrentSpans(handlers[c]) =
                        CASE r.kind = "async"   -> 1
                          [] r.kind = "sync"    -> IF missed THEN 0 ELSE 1
                          [] r.kind = "guarded" -> IF missed THEN 1 ELSE 2
    BY DEF SpansPerMessage
  <2> PICK entry : entry = handlers[c]
    OBVIOUS
  <2> PICK task \in {0, 1} : task = IF r.kind # "sync" /\ patch # None THEN 1 ELSE 0
    OBVIOUS
  <2>1. r.kind \in Kinds /\ r.command = c
    <3>1. entry.body \in DOMAIN registered /\ r.command = c
      BY DEF CountInv, IInv, TypeOK
    <3>2. r \in Registration
      BY <3>1, ElementOfSeq DEF CountInv, IInv, TypeOK
    <3> QED BY <3>1, <3>2 DEF Registration
  <2>2. task = IF r.kind = "sync" THEN 0 ELSE 1
    OBVIOUS
  <2>3. CASE patch[c] # None /\ WrappedOver(c)
    <3>1. ~Bypassed(entry) /\ r.hooked # installs
      BY <2>1, <2>3 DEF WrappedOver, Bypassed
    <3>2. patch[c].layers = IF r.hooked = None \/ r.kind = "async" THEN <<>> ELSE <<r.hooked>>
      BY <2>3, LayersLeft DEF CountInv, IInv, SavedAsLeft, WrappedOver
    <3>3. entry.layers = Wrap(r.kind, patch[c].layers, installs)
      BY <2>3 DEF WrappedOver
    <3>4. missed = FALSE
      BY <3>1
    <3>5. CASE r.kind = "async"
      <4>1. entry.layers = <<>>
        BY <3>2, <3>3, <3>5 DEF Wrap, IsAsync
      <4>2. CurrentSpans(entry) = 1
        BY <3>5, <4>1, SpansOfLayers
      <4> QED BY <3>5, <4>2
    <3>6. CASE r.kind # "async"
      <4>1. CurrentSpans(entry) = task + 1
        <5>1. CASE r.hooked = None
          <6>1. entry.layers = Append(<<>>, installs)
            BY <3>2, <3>3, <3>6, <5>1 DEF Wrap, IsAsync
          <6>2. entry.layers = <<installs>>
            BY <6>1
          <6> QED BY <6>2, SpansOfLayers
        <5>2. CASE r.hooked # None
          <6>1. entry.layers = Append(<<r.hooked>>, installs)
            BY <3>2, <3>3, <3>6, <5>2 DEF Wrap, IsAsync
          <6>2. Append(<<r.hooked>>, installs) = <<r.hooked, installs>>
            BY OneMore
          <6>3. entry.layers = <<r.hooked, installs>>
            BY <6>1, <6>2
          <6> QED BY <3>1, <6>3, SpansOfLayers
        <5> QED BY <5>1, <5>2
      <4>2. CASE r.kind = "sync"
        BY <2>2, <3>4, <4>1, <4>2
      <4>3. CASE r.kind = "guarded"
        BY <2>2, <3>4, <4>1, <4>3
      <4> QED BY <2>1, <3>6, <4>2, <4>3 DEF Kinds
    <3> QED BY <3>5, <3>6
  <2>4. CASE RegisteredSince(c)
    <3>1. Bypassed(entry)
      BY <2>1, <2>4 DEF RegisteredSince, Bypassed
    <3>2. missed = (r.hooked # installs)
      BY <3>1
    <3>3. entry.layers = IF r.hooked = None \/ r.kind = "async" THEN <<>> ELSE <<r.hooked>>
      BY <2>4, LayersLeft DEF RegisteredSince
    <3>4. installs # None
      BY NoneAssumption DEF CountInv, IInv, SavedAsLeft
    <3>5. CASE r.kind = "async"
      <4>1. CurrentSpans(entry) = 1
        BY <3>3, <3>5, SpansOfLayers
      <4> QED BY <3>5, <4>1
    <3>6. CASE r.kind # "async"
      <4>1. CurrentSpans(entry) = task + (IF r.hooked = installs THEN 1 ELSE 0)
        <5>1. CASE r.hooked = None
          <6>1. CurrentSpans(entry) = task
            BY <3>3, <5>1, SpansOfLayers
          <6> QED BY <3>4, <5>1, <6>1
        <5>2. CASE r.hooked # None
          BY <3>3, <3>6, <5>2, SpansOfLayers
        <5> QED BY <5>1, <5>2
      <4>2. CASE r.hooked = installs
        <5>1. missed = FALSE /\ CurrentSpans(entry) = task + 1
          BY <3>2, <4>1, <4>2
        <5>2. CASE r.kind = "sync"
          BY <2>2, <5>1, <5>2
        <5>3. CASE r.kind = "guarded"
          BY <2>2, <5>1, <5>3
        <5> QED BY <2>1, <3>6, <5>2, <5>3 DEF Kinds
      <4>3. CASE r.hooked # installs
        <5>1. missed = TRUE /\ CurrentSpans(entry) = task
          <6>1. missed = TRUE
            BY <3>2, <4>3
          <6>2. CurrentSpans(entry) = task + 0
            BY <4>1, <4>3
          <6> QED BY <6>1, <6>2
        <5>2. CASE r.kind = "sync"
          BY <2>2, <5>1, <5>2
        <5>3. CASE r.kind = "guarded"
          BY <2>2, <5>1, <5>3
        <5> QED BY <2>1, <3>6, <5>2, <5>3 DEF Kinds
      <4> QED BY <4>2, <4>3
    <3> QED BY <3>5, <3>6
  <2> QED BY <2>3, <2>4 DEF CountInv, LayersInv
<1> QED BY <1>1, CountInvariance, PTL

-----------------------------------------------------------------------------
(* Which handler is in force.  What is saved is what will be: the newest    *)
(* registration that is there to stay; a command nothing is saved for has   *)
(* only registrations made since the installation.                          *)
DuringEarlier ==
    \A j \in DOMAIN registered :
        registered[j].during # None => registered[j].during \in 1 .. installs

SavedIsNewest(c) ==
    /\ \A j \in DOMAIN registered :
          (registered[j].command = c /\ ~Temporary(j)) => j <= patch[c].body
    /\ ~Temporary(patch[c].body)
    /\ registered[patch[c].body].during # installs

AllSince(c) ==
    \A j \in DOMAIN registered : registered[j].command = c => registered[j].during = installs

SavedInForce ==
    patch # None => \A c \in Command : IF patch[c] = None THEN AllSince(c) ELSE SavedIsNewest(c)

ForceInv == IInv /\ DuringEarlier /\ NewestInForce /\ SavedInForce

(* Nothing is installed at first, and there is one registration.            *)
LEMMA InitForce == Init => ForceInv
<1> SUFFICES ASSUME Init PROVE ForceInv
  OBVIOUS
<1>1. IInv
  BY InitIInv
<1>2. DOMAIN registered = {1} /\ registered[1].during = None /\ patch = None
  BY DEF Init
<1>3. ~Temporary(1)
  BY <1>2 DEF Temporary
<1>4. \A c \in Command : handlers[c] # None => handlers[c].body = 1
  BY <1>1, <1>2 DEF IInv, TypeOK
<1>5. NewestInForce
  BY <1>2, <1>3, <1>4 DEF NewestInForce, Outlived
<1> QED BY <1>1, <1>2, <1>5 DEF ForceInv, DuringEarlier, SavedInForce

(* An installation saves the handlers in force; no registration was made    *)
(* during it yet.                                                           *)
LEMMA InstallForce == ASSUME ForceInv, Install PROVE DuringEarlier' /\ NewestInForce' /\ SavedInForce'
<1>1. /\ patch = None /\ patch' = handlers /\ handlers' = Traced(installs')
      /\ installs' = installs + 1 /\ registered' = registered /\ installs \in Nat
  BY DEF ForceInv, IInv, TypeOK, Install, Saved
<1>2. \A j \in DOMAIN registered : registered[j].during # installs'
  <2>1. installs' # None
    BY <1>1, NoneAssumption, BoundAssumption DEF Install, Installs
  <2> QED BY <1>1, <2>1 DEF ForceInv, DuringEarlier
<1>3. DuringEarlier'
  BY <1>1 DEF ForceInv, DuringEarlier
<1>4. \A j \in DOMAIN registered : /\ Temporary(j)' <=> Temporary(j)
                                   /\ Outlived(j)' <=> Temporary(j)
                                   /\ Outlived(j) <=> Temporary(j)
  BY <1>1, <1>2 DEF Temporary, Outlived
<1>5. ASSUME NEW c \in Command, handlers'[c] # None
      PROVE  /\ handlers[c] # None /\ handlers'[c].body = handlers[c].body
             /\ handlers[c].body \in DOMAIN registered
  <2>1. handlers[c] # None
    BY <1>1, <1>5 DEF Traced
  <2>2. handlers[c] \in Entry /\ handlers[c].body \in DOMAIN registered
    BY <2>1 DEF ForceInv, IInv, TypeOK
  <2>3. handlers'[c] = [handlers[c] EXCEPT
            !.layers = Wrap(registered[handlers[c].body].kind, handlers[c].layers, installs'),
            !.schema = IF c = CallService THEN Extend(handlers[c].schema) ELSE handlers[c].schema]
    BY <1>1, <2>1 DEF Traced
  <2> QED BY <2>1, <2>2, <2>3 DEF Entry
<1>6. ASSUME NEW c \in Command, handlers[c] # None
      PROVE  /\ ~Temporary(handlers[c].body)
             /\ \A j \in DOMAIN registered :
                   (registered[j].command = c /\ ~Temporary(j)) => j <= handlers[c].body
  <2>1. handlers[c].body \in DOMAIN registered
    BY <1>6 DEF ForceInv, IInv, TypeOK
  <2> QED BY <1>4, <1>6, <2>1 DEF ForceInv, NewestInForce
<1>7. NewestInForce'
  BY <1>1, <1>4, <1>5, <1>6 DEF NewestInForce
<1>8. ASSUME NEW c \in Command
      PROVE  IF patch'[c] = None THEN AllSince(c)' ELSE SavedIsNewest(c)'
  <2>1. CASE handlers[c] = None
    <3>1. \A j \in DOMAIN registered : registered[j].command # c
      BY <2>1 DEF ForceInv, IInv, TypeOK
    <3> QED BY <1>1, <2>1, <3>1 DEF AllSince
  <2>2. CASE handlers[c] # None
    <3>1. handlers[c].body \in DOMAIN registered
      BY <2>2 DEF ForceInv, IInv, TypeOK
    <3>2. SavedIsNewest(c)'
      BY <1>1, <1>2, <1>4, <1>6, <2>2, <3>1 DEF SavedIsNewest
    <3> QED BY <1>1, <2>2, <3>2
  <2> QED BY <2>1, <2>2
<1>9. SavedInForce'
  BY <1>8 DEF SavedInForce
<1> QED BY <1>3, <1>7, <1>9

(* A removal puts the saved handlers in force; where nothing was saved, all *)
(* registrations are there to stay.                                         *)
LEMMA UninstallForce ==
    ASSUME ForceInv, Uninstall PROVE DuringEarlier' /\ NewestInForce' /\ SavedInForce'
<1>1. /\ patch # None /\ patch' = None /\ UNCHANGED <<installs, registered>>
      /\ handlers' = [c \in Command |-> IF patch[c] # None THEN patch[c] ELSE handlers[c]]
  BY DEF Uninstall, Restored
<1>2. DuringEarlier' /\ SavedInForce'
  BY <1>1 DEF ForceInv, DuringEarlier, SavedInForce
<1>3. \A j : Outlived(j)' <=> Temporary(j)
  BY <1>1 DEF Temporary, Outlived
<1>4. ASSUME NEW c \in Command, handlers'[c] # None
      PROVE  /\ ~Temporary(handlers'[c].body)
             /\ \A j \in DOMAIN registered :
                   (registered[j].command = c /\ ~Temporary(j)) => j <= handlers'[c].body
  <2>1. CASE patch[c] # None
    BY <1>1, <2>1 DEF ForceInv, SavedInForce, SavedIsNewest
  <2>2. CASE patch[c] = None
    <3>1. AllSince(c)
      BY <1>1, <2>2 DEF ForceInv, SavedInForce
    <3>2. handlers'[c] = handlers[c] /\ handlers[c] # None
      BY <1>1, <1>4, <2>2
    <3>3. /\ handlers[c].body \in DOMAIN registered
          /\ registered[handlers[c].body].command = c
      BY <3>2 DEF ForceInv, IInv, TypeOK
    <3>4. \A j \in DOMAIN registered : registered[j].command = c => ~Temporary(j) /\ ~Outlived(j)
      <4>1. \A j \in DOMAIN registered : 1 .. j - 1 \subseteq DOMAIN registered
        BY DEF ForceInv, IInv, TypeOK
      <4> QED BY <3>1, <4>1 DEF AllSince, Temporary, Outlived
    <3> QED BY <3>2, <3>3, <3>4 DEF ForceInv, NewestInForce
  <2> QED BY <2>1, <2>2
<1>5. NewestInForce'
  BY <1>1, <1>3, <1>4 DEF NewestInForce
<1> QED BY <1>2, <1>5

(* A new registration is in force; it stays if tracing is not installed, or *)
(* if it is the first of its command.                                       *)
LEMMA RegisterForce ==
    ASSUME ForceInv, NEW c \in Command, NEW kind \in Kinds, NEW schema \in {"False", "plain"},
           NEW named \in BOOLEAN, NEW late \in BOOLEAN,
           RegisterCommand(c, kind, schema, named, late)
    PROVE  DuringEarlier' /\ NewestInForce' /\ SavedInForce'
<1> DEFINE r == [command |-> c, kind |-> kind, schema |-> schema, named |-> named,
                 hooked |-> IF patch # None /\ late THEN installs ELSE None,
                 during |-> IF patch # None THEN installs ELSE None]
<1> PICK body : body = Len(registered) + 1
  OBVIOUS
<1>1. /\ registered' = Append(registered, r)
      /\ handlers' = [handlers EXCEPT ![c] = Stored(body, r)]
      /\ UNCHANGED <<patch, installs>>
  BY DEF RegisterCommand
<1>2. r.command = c /\ r.during = IF patch # None THEN installs ELSE None
  OBVIOUS
<1> HIDE DEF r
<1>3. /\ body \in Nat /\ DOMAIN registered = 1 .. body - 1 /\ DOMAIN registered' = 1 .. body
      /\ registered'[body] = r
      /\ \A i \in DOMAIN registered : registered'[i] = registered[i]
  BY <1>1 DEF ForceInv, IInv, TypeOK
<1>4. /\ handlers'[c].body = body
      /\ \A d \in Command \ {c} : handlers'[d] = handlers[d]
  BY <1>1 DEF ForceInv, IInv, TypeOK, Stored
<1>5. \A j \in DOMAIN registered : /\ Temporary(j)' <=> Temporary(j)
                                   /\ Outlived(j)' <=> Outlived(j)
  BY <1>1, <1>3 DEF Temporary, Outlived
<1>6. ~Outlived(body)'
  BY <1>1, <1>2, <1>3 DEF Temporary, Outlived
<1>7. DuringEarlier'
  <2>1. patch # None => installs \in 1 .. installs
    BY DEF ForceInv, IInv, SavedAsLeft, Installs
  <2> QED BY <1>1, <1>2, <1>3, <2>1 DEF ForceInv, DuringEarlier
<1>8. NewestInForce'
  <2> SUFFICES ASSUME NEW d \in Command, handlers'[d] # None
               PROVE  /\ ~Outlived(handlers[d].body)'
                      /\ \A j \in DOMAIN registered' :
                            (registered'[j].command = d /\ ~Outlived(j)') => j <= handlers'[d].body
    BY DEF NewestInForce
  <2> PICK b : b = handlers'[d].body
    OBVIOUS
  <2>0. Outlived(handlers[d].body)' <=> Outlived(b)'
    BY DEF Outlived, Temporary
  <2>1. CASE d = c
    BY <1>3, <1>4, <1>6, <2>0, <2>1
  <2>2. CASE d # c
    <3>1. handlers[d] # None /\ handlers[d].body = b /\ b \in DOMAIN registered
      BY <1>4, <2>2 DEF ForceInv, IInv, TypeOK
    <3>2. /\ ~Outlived(b)
          /\ \A j \in DOMAIN registered :
                (registered[j].command = d /\ ~Outlived(j)) => j <= b
      BY <3>1 DEF ForceInv, NewestInForce
    <3> QED BY <1>2, <1>3, <1>5, <2>0, <2>2, <3>1, <3>2
  <2> QED BY <2>1, <2>2
<1>9. ASSUME patch # None, NEW d \in Command
      PROVE  IF patch'[d] = None THEN AllSince(d)' ELSE SavedIsNewest(d)'
  <2>1. CASE patch[d] = None
    <3>1. AllSince(d)
      BY <1>9, <2>1 DEF ForceInv, SavedInForce
    <3> QED BY <1>1, <1>2, <1>3, <1>9, <2>1, <3>1 DEF AllSince
  <2>2. CASE patch[d] # None
    <3>1. SavedIsNewest(d)
      BY <1>9, <2>2 DEF ForceInv, SavedInForce
    <3>2. patch[d].body \in DOMAIN registered /\ registered[patch[d].body].command = d
      BY <1>9, <2>2 DEF ForceInv, IInv, SavedAsLeft, AsLeft
    <3>3. d = c => Temporary(body)'
      <4>1. installs # None
        BY <1>9, NoneAssumption DEF ForceInv, IInv, SavedAsLeft
      <4>2. patch[d].body \in 1 .. body - 1
        BY <1>3, <3>2
      <4> QED BY <1>1, <1>2, <1>3, <1>9, <3>1, <3>2, <4>1, <4>2 DEF SavedIsNewest, Temporary
    <3>4. /\ ~Temporary(patch[d].body)'
          /\ registered'[patch[d].body].during # installs
      <4> PICK b : b = patch[d].body
        OBVIOUS
      <4>1. Temporary(patch[d].body)' <=> Temporary(b)'
        BY <1>1 DEF Temporary
      <4> QED BY <1>3, <1>5, <3>1, <3>2, <4>1 DEF SavedIsNewest
    <3>5. \A j \in DOMAIN registered' :
              (registered'[j].command = d /\ ~Temporary(j)') => j <= patch[d].body
      BY <1>2, <1>3, <1>5, <3>1, <3>3 DEF SavedIsNewest
    <3> QED BY <1>1, <2>2, <3>4, <3>5 DEF SavedIsNewest
  <2> QED BY <2>1, <2>2
<1>10. SavedInForce'
  BY <1>1, <1>9 DEF SavedInForce
<1> QED BY <1>7, <1>8, <1>10

(* Every step keeps the account of what is in force.                        *)
LEMMA NextForce == ForceInv /\ [Next]_vars => ForceInv'
<1> SUFFICES ASSUME ForceInv, [Next]_vars PROVE ForceInv'
  OBVIOUS
<1>1. IInv'
  BY NextIInv DEF ForceInv
<1>2. CASE UNCHANGED vars
  BY <1>1, <1>2 DEF vars, ForceInv, DuringEarlier, NewestInForce, Outlived, Temporary,
                    SavedInForce, SavedIsNewest, AllSince
<1> QED BY <1>1, <1>2, InstallForce, UninstallForce, RegisterForce DEF Next, ForceInv

(* The newest registration of a command is in force, and one made while     *)
(* tracing is installed for a command there was before, until it is removed.*)
THEOREM NewestIsInForce == Spec => []NewestInForce
<1>1. ForceInv => NewestInForce
  BY DEF ForceInv
<1> QED BY <1>1, InitForce, NextForce, PTL DEF Spec
=============================================================================
