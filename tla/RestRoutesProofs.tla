------------------------- MODULE RestRoutesProofs -------------------------
(* Proofs about RestRoutes for every set of routes and object ids and any   *)
(* number of installations.                                                 *)
EXTENDS RestRoutes, SequenceTheorems, FiniteSetTheorems, TLAPS

(* A view's handler, and one that was wrapped once.                         *)
IsOwn(handler) == \E own \in Layer : own.by = None /\ handler = <<own>>

IsWrapped(handler) ==
    \E own, wrapper \in Layer : own.by = None /\ wrapper.by # None /\ handler = <<own, wrapper>>

(* What keeps a handler from being wrapped twice: the id of the wrapper is  *)
(* in the set as long as the wrapper is in place.                           *)
KnownWhenWrapped ==
    \A r \in DOMAIN route : \/ IsOwn(route[r])
                            \/ IsWrapped(route[r]) /\ route[r][2].id \in traced

(* What keeps it there, although an uninstall discards other ids: handlers  *)
(* and wrappers that live at the same time have different ids.              *)
IdsDiffer ==
    \A r, q \in DOMAIN route : IsWrapped(route[q]) => route[r][1].id # route[q][2].id

(* While tracing is installed: what it wrapped, and what it left.           *)
ByThisPatch(r) ==
    /\ IsOwn(registered[r]) /\ patch.wrapped[r] = registered[r]
    /\ \E w \in Layer : w.by = patch.number /\ route[r] = <<registered[r][1], w>>

NotByThisPatch(r) ==
    /\ route[r] = registered[r]
    /\ (r \in Api /\ IsOwn(route[r])) => route[r][1].id \in traced

PatchInv ==
    /\ patch = None => route = registered
    /\ patch # None => \A r \in DOMAIN route :
          IF r \in DOMAIN patch.wrapped THEN ByThisPatch(r) ELSE NotByThisPatch(r)

IInv == TypeOK /\ KnownWhenWrapped /\ IdsDiffer /\ PatchInv

-----------------------------------------------------------------------------
(* A handler of one layer, and a layer around it.                           *)
LEMMA WrapOwn ==
    ASSUME NEW own \in Layer, NEW id \in Id, NEW number \in 1 .. MaxInstalls
    PROVE  /\ [id |-> id, by |-> number] \in Layer
           /\ Wrap(<<own>>, id, number) = <<own, [id |-> id, by |-> number]>>
           /\ <<own>> \in Handler /\ <<own, [id |-> id, by |-> number]>> \in Handler
<1> DEFINE w == [id |-> id, by |-> number]
<1>1. w \in Layer
  BY DEF Layer
<1> HIDE DEF w
<1>2. <<own>> \in Seq(Layer) /\ <<own, w>> \in Seq(Layer)
  BY <1>1
<1>3. /\ Append(<<own>>, w) \in Seq(Layer) /\ Len(Append(<<own>>, w)) = 2
      /\ Append(<<own>>, w)[1] = own /\ Append(<<own>>, w)[2] = w
  BY <1>1, <1>2, AppendProperties
<1>4. \A i \in 1 .. 2 : Append(<<own>>, w)[i] = <<own, w>>[i]
  BY <1>3
<1>5. Append(<<own>>, w) = <<own, w>>
  BY <1>2, <1>3, <1>4, SeqEqual
<1> QED BY <1>1, <1>2, <1>5 DEF Wrap, Handler, w

(* The parts of a handler that is in place.                                 *)
LEMMA OwnFacts ==
    ASSUME NEW handler, IsOwn(handler)
    PROVE  /\ handler = <<handler[1]>> /\ handler[1] \in Layer /\ handler[1].by = None
           /\ Len(handler) = 1 /\ Outer(handler) = handler[1] /\ DOMAIN handler = {1}
           /\ ~IsWrapped(handler)
BY DEF IsOwn, IsWrapped, Outer

LEMMA WrappedFacts ==
    ASSUME NEW handler, IsWrapped(handler)
    PROVE  /\ handler = <<handler[1], handler[2]>>
           /\ handler[1] \in Layer /\ handler[1].by = None
           /\ handler[2] \in Layer /\ handler[2].by # None
           /\ Len(handler) = 2 /\ Outer(handler) = handler[2] /\ DOMAIN handler = {1, 2}
           /\ ~IsOwn(handler)
BY DEF IsOwn, IsWrapped, Outer

(* A new object's id is that of no living one.                              *)
LEMMA FreeIdsAreFree ==
    ASSUME NEW id \in FreeIds, NEW r \in DOMAIN route, NEW i \in DOMAIN route[r]
    PROVE  route[r][i].id # id /\ id \in Id
BY DEF FreeIds, LayersOf

-----------------------------------------------------------------------------
LEMMA InitIInv == Init => IInv
<1> SUFFICES ASSUME Init PROVE IInv
  OBVIOUS
<1>1. PICK R \in SUBSET Route, id \in Id : route = [r \in R |-> <<[id |-> id, by |-> None]>>]
  BY DEF Init
<1> DEFINE own == [id |-> id, by |-> None]
<1>2. own \in Layer /\ own.by = None
  BY DEF Layer
<1>3. \A r \in DOMAIN route : route[r] = <<own>> /\ IsOwn(route[r])
  BY <1>1, <1>2 DEF IsOwn
<1> HIDE DEF own
<1>4. <<own>> \in Handler /\ <<own>> # <<>>
  BY <1>2 DEF Handler
<1>5. TypeOK
  BY <1>1, <1>3, <1>4, RestRoutesAssumption DEF Init, TypeOK
<1>6. KnownWhenWrapped /\ IdsDiffer
  BY <1>3, OwnFacts DEF KnownWhenWrapped, IdsDiffer
<1> QED BY <1>5, <1>6 DEF Init, IInv, PatchInv

(* Only what is not known is wrapped, and that is never a wrapper.          *)
LEMMA InstallIInv == ASSUME IInv, Install PROVE IInv'
<1> DEFINE R == UnknownApiRoutes
           n == installs + 1
<1>1. PICK id \in [R -> FreeIds] :
        /\ route' = [r \in DOMAIN route |-> IF r \in R THEN Wrap(route[r], id[r], n) ELSE route[r]]
        /\ traced' = traced \cup {id[r] : r \in R}
        /\ \A r, q \in R : id[r] = id[q] => r = q
  BY DEF Install
<1>2. /\ patch = None /\ patch' = [number |-> n, wrapped |-> [r \in R |-> route[r]]]
      /\ installs' = n /\ registered' = registered /\ viewContext' = "staticmethod"
      /\ n \in 1 .. MaxInstalls /\ route = registered
  BY RestRoutesAssumption DEF Install, IInv, TypeOK, PatchInv
<1>3. R \subseteq DOMAIN route /\ R \subseteq Route /\ R \subseteq Api
  BY DEF UnknownApiRoutes, IInv, TypeOK
<1> DEFINE W(r) == [id |-> id[r], by |-> n]
<1>4. ASSUME NEW r \in R
      PROVE  /\ IsOwn(route[r]) /\ IsWrapped(route'[r])
             /\ route'[r] = <<route[r][1], W(r)>>
             /\ W(r) \in Layer /\ W(r).id = id[r] /\ W(r).by = n
             /\ route'[r] \in Handler
  <2>1. IsOwn(route[r])
    <3>1. Outer(route[r]).id \notin traced
      BY DEF UnknownApiRoutes, Known
    <3> QED BY <1>3, <3>1, WrappedFacts DEF IInv, KnownWhenWrapped
  <2>2. id[r] \in Id
    BY <1>1 DEF FreeIds
  <2>3. route'[r] = Wrap(<<route[r][1]>>, id[r], n)
    BY <1>1, <1>3, <2>1, OwnFacts
  <2>4. route[r][1] \in Layer /\ route[r][1].by = None
    BY <2>1, OwnFacts
  <2>5. /\ Wrap(<<route[r][1]>>, id[r], n) = <<route[r][1], W(r)>>
        /\ W(r) \in Layer /\ <<route[r][1], W(r)>> \in Handler
    BY <1>2, <2>2, <2>4, WrapOwn
  <2>6. W(r).id = id[r] /\ W(r).by = n /\ n # None
    BY <1>2, RestRoutesAssumption
  <2> HIDE DEF W, n
  <2>7. route'[r] = <<route[r][1], W(r)>> /\ route'[r] \in Handler
    BY <2>3, <2>5
  <2>8. IsWrapped(route'[r])
    BY <2>4, <2>5, <2>6, <2>7 DEF IsWrapped
  <2> QED BY <2>1, <2>5, <2>6, <2>7, <2>8
<1>5. \A r \in DOMAIN route \ R : route'[r] = route[r]
  BY <1>1
<1>6. DOMAIN route' = DOMAIN route
  BY <1>1
<1> HIDE DEF R, n, W
<1>7. TypeOK'
  <2>1. \A r \in DOMAIN route' : route'[r] \in Handler /\ route'[r] # <<>>
    <3>1. \A r \in R : route'[r] \in Handler /\ route'[r] # <<>>
      BY <1>4
    <3> QED BY <1>5, <1>6, <3>1 DEF IInv, TypeOK
  <2>2. patch' \in PatchOf(R)
    <3>1. [r \in R |-> route[r]] \in [R -> Handler]
      BY <1>3 DEF IInv, TypeOK
    <3> QED BY <1>2, <1>3, <3>1 DEF PatchOf
  <2>3. traced' \subseteq Id
    BY <1>1 DEF IInv, TypeOK, FreeIds
  <2>4. /\ patch'.number = installs' /\ DOMAIN patch'.wrapped = R
        /\ \A r \in R : patch'.wrapped[r] = route[r]
    BY <1>2
  <2>5. \A r \in DOMAIN route : route[r] # <<>>
    BY DEF IInv, TypeOK
  <2> QED BY <1>2, <1>3, <1>6, <2>1, <2>2, <2>3, <2>4, <2>5 DEF IInv, TypeOK
<1>8. KnownWhenWrapped'
  <2>1. ASSUME NEW r \in R PROVE IsWrapped(route'[r]) /\ route'[r][2].id \in traced'
    <3>1. route'[r][2] = W(r)
      BY <1>4
    <3>2. W(r).id \in traced'
      BY <1>1, <1>4
    <3> QED BY <1>4, <3>1, <3>2
  <2>2. \A r \in DOMAIN route \ R : \/ IsOwn(route'[r])
                                    \/ IsWrapped(route'[r]) /\ route'[r][2].id \in traced'
    BY <1>1, <1>5 DEF IInv, KnownWhenWrapped
  <2> QED BY <1>6, <2>1, <2>2 DEF KnownWhenWrapped
<1>9. IdsDiffer'
  <2> SUFFICES ASSUME NEW r \in DOMAIN route, NEW q \in DOMAIN route, IsWrapped(route'[q])
               PROVE  route'[r][1].id # route'[q][2].id
    BY <1>6 DEF IdsDiffer
  <2>1. route'[r][1] = route[r][1] /\ 1 \in DOMAIN route[r]
    <3>1. r \in R => route'[r][1] = route[r][1]
      BY <1>4
    <3>2. IsOwn(route[r]) \/ IsWrapped(route[r])
      BY DEF IInv, KnownWhenWrapped
    <3> QED BY <1>5, <3>1, <3>2, OwnFacts, WrappedFacts
  <2>2. CASE q \in R
    <3>1. route'[q][2].id = id[q] /\ id[q] \in FreeIds
      BY <1>1, <1>4, <2>2
    <3> QED BY <2>1, <3>1, FreeIdsAreFree
  <2>3. CASE q \notin R
    BY <1>5, <2>1, <2>3 DEF IInv, IdsDiffer
  <2> QED BY <2>2, <2>3
<1>10. PatchInv'
  <2>1. patch' # None
    <3>1. [r \in R |-> route[r]] \in [R -> Handler]
      BY <1>3 DEF IInv, TypeOK
    <3>2. patch' \in PatchOf(R)
      BY <1>2, <1>3, <3>1 DEF PatchOf
    <3> QED BY <1>3, <3>2, NoneIsNoPatch
  <2>2. DOMAIN patch'.wrapped = R /\ patch'.number = n /\ \A r \in R : patch'.wrapped[r] = route[r]
    BY <1>2
  <2>3. ASSUME NEW r \in R PROVE ByThisPatch(r)'
    <3> QED BY <1>2, <1>4, <2>2 DEF ByThisPatch
  <2>4. ASSUME NEW r \in DOMAIN route \ R PROVE NotByThisPatch(r)'
    <3>1. r \in Api => Outer(route[r]).id \in traced
      BY <2>4 DEF R, UnknownApiRoutes, Known
    <3>2. traced \subseteq traced'
      BY <1>1
    <3> QED BY <1>2, <1>5, <3>1, <3>2, OwnFacts DEF NotByThisPatch
  <2> QED BY <1>6, <2>1, <2>2, <2>3, <2>4 DEF PatchInv
<1> QED BY <1>7, <1>8, <1>9, <1>10 DEF IInv

(* The ids that are discarded are those of handlers, never of a wrapper     *)
(* that stays in place.                                                     *)
LEMMA UninstallIInv == ASSUME IInv, Uninstall PROVE IInv'
<1> DEFINE W == DOMAIN patch.wrapped
<1>1. /\ patch # None /\ patch' = None /\ traced' = traced \ Discarded
      /\ route' = Restored /\ viewContext' = "function"
      /\ installs' = installs /\ registered' = registered
  BY DEF Uninstall, Saved
<1>2. W \subseteq DOMAIN route /\ DOMAIN route' = DOMAIN route
  BY <1>1 DEF IInv, TypeOK, PatchOf, Restored
<1>3. /\ \A r \in W : ByThisPatch(r)
      /\ \A r \in DOMAIN route \ W : NotByThisPatch(r)
  BY <1>1, <1>2 DEF IInv, PatchInv
<1>4. ASSUME NEW r \in DOMAIN route PROVE route'[r] = registered[r]
  BY <1>1, <1>3 DEF Restored, ByThisPatch, NotByThisPatch
<1>5. ASSUME NEW r \in W
      PROVE  /\ IsOwn(route'[r]) /\ route'[r][1] = route[r][1]
             /\ Outer(patch.wrapped[r]).id = route[r][1].id
  <2>1. IsOwn(registered[r]) /\ patch.wrapped[r] = registered[r]
    BY <1>3 DEF ByThisPatch
  <2>2. route[r][1] = registered[r][1]
    BY <1>3 DEF ByThisPatch
  <2> QED BY <1>2, <1>4, <2>1, <2>2, OwnFacts
<1>6. ASSUME NEW r \in DOMAIN route \ W PROVE route'[r] = route[r]
  BY <1>1 DEF Restored
<1>7. ASSUME NEW q \in DOMAIN route, IsWrapped(route[q]), route[q][2].id \in traced
      PROVE  route[q][2].id \in traced'
  BY <1>1, <1>2, <1>5, <1>7 DEF Discarded, IInv, IdsDiffer
<1> HIDE DEF W
<1>8. TypeOK'
  <2>1. \A r \in DOMAIN route : route'[r] \in Handler /\ route'[r] # <<>>
    <3>1. \A r \in W : route'[r] # <<>>
      BY <1>5, OwnFacts
    <3>2. \A r \in DOMAIN route : route'[r] \in Handler
      BY <1>4 DEF IInv, TypeOK
    <3> QED BY <1>6, <3>1, <3>2 DEF IInv, TypeOK
  <2> QED BY <1>1, <1>2, <2>1 DEF IInv, TypeOK
<1>9. KnownWhenWrapped'
  <2>1. \A r \in DOMAIN route \ W : \/ IsOwn(route'[r])
                                    \/ IsWrapped(route'[r]) /\ route'[r][2].id \in traced'
    BY <1>6, <1>7 DEF IInv, KnownWhenWrapped
  <2> QED BY <1>2, <1>5, <2>1 DEF KnownWhenWrapped
<1>10. IdsDiffer'
  <2> SUFFICES ASSUME NEW r \in DOMAIN route, NEW q \in DOMAIN route, IsWrapped(route'[q])
               PROVE  route'[r][1].id # route'[q][2].id
    BY <1>2 DEF IdsDiffer
  <2>1. q \notin W
    BY <1>5, OwnFacts
  <2>2. route'[r][1] = route[r][1]
    BY <1>5, <1>6
  <2> QED BY <1>6, <2>1, <2>2 DEF IInv, IdsDiffer
<1>11. route' = registered
  <2>1. route' = [r \in DOMAIN route |-> route'[r]]
    BY <1>1 DEF Restored
  <2>2. \A r \in DOMAIN route : route'[r] = registered[r]
    BY <1>4
  <2>3. DOMAIN registered = DOMAIN route /\ registered = [r \in DOMAIN registered |-> registered[r]]
    BY DEF IInv, TypeOK
  <2> QED BY <2>1, <2>2, <2>3
<1> QED BY <1>1, <1>8, <1>9, <1>10, <1>11 DEF IInv, PatchInv


(* A new view's handler has an id of no living object, and so has the       *)
(* wrapper it may get.                                                      *)
LEMMA RegisterIInv == ASSUME IInv, NEW R \in SUBSET Route, RegisterView(R) PROVE IInv'
<1>1. PICK id, handler :
        LET own == <<[id |-> id, by |-> None]>>
        IN  /\ id \in FreeIds
            /\ route' = [r \in DOMAIN route \cup R |-> IF r \in R THEN handler ELSE route[r]]
            /\ registered' = [r \in DOMAIN registered \cup R |->
                                 IF r \in R THEN handler ELSE registered[r]]
            /\ \/ /\ patch = None \/ Known(own)
                  /\ handler = own
                  /\ traced' = traced
               \/ \E wrapper \in FreeIds \ {id} :
                  /\ patch # None
                  /\ handler = Wrap(own, wrapper, patch.number)
                  /\ traced' = traced \cup {wrapper}
  BY DEF RegisterView
<1> id \in FreeIds
  BY <1>1
<1>2. /\ R \cap DOMAIN route = {}
      /\ patch' = patch /\ viewContext' = viewContext /\ installs' = installs
  BY DEF RegisterView
<1> DEFINE own == [id |-> id, by |-> None]
<1>3. id \in Id /\ own \in Layer /\ own.by = None /\ own.id = id
  BY <1>1 DEF Layer, FreeIds
<1>4. <<own>>[1] = own /\ <<own>> \in Handler /\ <<own>> # <<>> /\ IsOwn(<<own>>)
  BY <1>3 DEF Handler, IsOwn
<1>5. \/ handler = <<own>> /\ traced' = traced /\ (patch = None \/ id \in traced)
      \/ \E w \in Layer : /\ w.id \in FreeIds \ {id} /\ w.by # None /\ patch # None
                          /\ handler = <<own, w>> /\ handler \in Handler
                          /\ IsWrapped(handler)
                          /\ traced' = traced \cup {w.id}
  <2>1. CASE handler = <<own>> /\ traced' = traced /\ (patch = None \/ Known(<<own>>))
    <3>1. Outer(<<own>>) = own
      BY <1>4, OwnFacts
    <3> QED BY <1>3, <2>1, <3>1 DEF Known
  <2>2. CASE \E wrapper \in FreeIds \ {id} :
               /\ patch # None
               /\ handler = Wrap(<<own>>, wrapper, patch.number)
               /\ traced' = traced \cup {wrapper}
    <3>1. PICK wrapper \in FreeIds \ {id} :
             /\ patch # None
             /\ handler = Wrap(<<own>>, wrapper, patch.number)
             /\ traced' = traced \cup {wrapper}
      BY <2>2
    <3>2. patch.number \in 1 .. MaxInstalls /\ wrapper \in Id
      BY <3>1 DEF IInv, TypeOK, PatchOf, FreeIds
    <3> DEFINE w == [id |-> wrapper, by |-> patch.number]
    <3>3. w.id = wrapper /\ w.by # None
      BY <3>2, RestRoutesAssumption
    <3>4. w \in Layer /\ handler = <<own, w>> /\ handler \in Handler
      BY <1>3, <3>1, <3>2, WrapOwn
    <3>5. IsWrapped(handler)
      BY <1>3, <3>3, <3>4 DEF IsWrapped
    <3> HIDE DEF w
    <3> QED BY <3>1, <3>3, <3>4, <3>5
  <2> QED BY <1>1, <2>1, <2>2
<1> HIDE DEF own
<1>6. handler \in Handler /\ handler # <<>> /\ handler[1] = own /\ traced \subseteq traced'
  BY <1>4, <1>5
<1>7. /\ DOMAIN route' = DOMAIN route \cup R
      /\ \A r \in R : route'[r] = handler
      /\ \A r \in DOMAIN route : route'[r] = route[r]
  BY <1>1, <1>2
<1>8. DOMAIN registered = DOMAIN route
  BY DEF IInv, TypeOK
<1>9. /\ \A r \in R : registered'[r] = handler
      /\ \A r \in DOMAIN route : registered'[r] = registered[r]
  BY <1>1, <1>2, <1>8
<1>10. TypeOK'
  <2>1. \A r \in DOMAIN route' : route'[r] \in Handler /\ route'[r] # <<>>
    BY <1>6, <1>7 DEF IInv, TypeOK
  <2>2. traced' \subseteq Id
    BY <1>5 DEF IInv, TypeOK, FreeIds
  <2>3. registered' \in [DOMAIN route' -> Handler]
    BY <1>1, <1>6, <1>7, <1>8 DEF IInv, TypeOK
  <2>4. DOMAIN route' \subseteq Route
    BY <1>7 DEF IInv, TypeOK
  <2> QED BY <1>2, <1>7, <2>1, <2>2, <2>3, <2>4 DEF IInv, TypeOK
<1>11. KnownWhenWrapped'
  <2>1. CASE handler = <<own>>
    BY <1>4, <1>6, <1>7, <2>1 DEF IInv, KnownWhenWrapped
  <2>2. CASE handler # <<own>>
    <3>1. IsWrapped(handler) /\ handler[2].id \in traced'
      BY <1>5, <2>2
    <3> QED BY <1>6, <1>7, <3>1 DEF IInv, KnownWhenWrapped
  <2> QED BY <2>1, <2>2
<1>12. IdsDiffer'
  <2> SUFFICES ASSUME NEW r \in DOMAIN route', NEW q \in DOMAIN route', IsWrapped(route'[q])
               PROVE  route'[r][1].id # route'[q][2].id
    BY DEF IdsDiffer
  <2>1. \A p \in DOMAIN route : /\ route[p][1].id # id /\ 1 \in DOMAIN route[p]
                                /\ IsWrapped(route[p]) => route[p][2].id # id
    <3> SUFFICES ASSUME NEW p \in DOMAIN route
                 PROVE  /\ route[p][1].id # id /\ 1 \in DOMAIN route[p]
                        /\ IsWrapped(route[p]) => route[p][2].id # id
      OBVIOUS
    <3>1. IsOwn(route[p]) \/ IsWrapped(route[p])
      BY DEF IInv, KnownWhenWrapped
    <3>2. /\ 1 \in DOMAIN route[p]
          /\ IsWrapped(route[p]) => 2 \in DOMAIN route[p]
      BY <3>1, OwnFacts, WrappedFacts
    <3> QED BY <3>2, FreeIdsAreFree
  <2>2. ASSUME q \in R
        PROVE  route'[q][2].id \in FreeIds \ {id}
    <3>1. IsWrapped(handler)
      BY <1>7, <2>2
    <3>2. handler # <<own>>
      BY <1>4, <3>1, OwnFacts
    <3> QED BY <1>5, <1>7, <2>2, <3>2
  <2>3. CASE r \in R /\ q \in R
    BY <1>3, <1>6, <1>7, <2>2, <2>3
  <2>4. CASE r \in R /\ q \notin R
    BY <1>3, <1>6, <1>7, <2>1, <2>4
  <2>5. CASE r \notin R /\ q \in R
    <3>1. r \in DOMAIN route /\ route'[r] = route[r] /\ 1 \in DOMAIN route[r]
      BY <1>7, <2>1, <2>5
    <3> QED BY <2>2, <2>5, <3>1, FreeIdsAreFree
  <2>6. CASE r \notin R /\ q \notin R
    BY <1>7, <2>6 DEF IInv, IdsDiffer
  <2> QED BY <2>3, <2>4, <2>5, <2>6
<1>13. PatchInv'
  <2>1. patch = None => route' = registered'
    BY <1>1, <1>8 DEF IInv, PatchInv
  <2>2. ASSUME patch # None, NEW r \in DOMAIN route'
        PROVE  IF r \in DOMAIN patch.wrapped THEN ByThisPatch(r)' ELSE NotByThisPatch(r)'
    <3>1. DOMAIN patch.wrapped \subseteq DOMAIN route
      BY <2>2 DEF IInv, TypeOK, PatchOf
    <3>2. CASE r \in R
      <4>1. r \notin DOMAIN patch.wrapped
        BY <1>2, <3>1, <3>2
      <4>2. IsOwn(handler) => handler[1].id \in traced'
        BY <1>3, <1>5, <1>6, <2>2, OwnFacts
      <4> QED BY <1>7, <1>9, <3>2, <4>1, <4>2 DEF NotByThisPatch
    <3>3. CASE r \in DOMAIN patch.wrapped
      BY <1>2, <1>7, <1>9, <2>2, <3>1, <3>3 DEF IInv, PatchInv, ByThisPatch
    <3>4. CASE r \in DOMAIN route \ DOMAIN patch.wrapped
      BY <1>6, <1>7, <1>9, <2>2, <3>4 DEF IInv, PatchInv, NotByThisPatch
    <3> QED BY <1>7, <3>2, <3>3, <3>4
  <2> QED BY <1>2, <2>1, <2>2 DEF PatchInv
<1> QED BY <1>10, <1>11, <1>12, <1>13 DEF IInv

LEMMA NextIInv == IInv /\ [Next]_vars => IInv'
<1> SUFFICES ASSUME IInv, [Next]_vars PROVE IInv'
  OBVIOUS
<1>1. CASE Install
  BY <1>1, InstallIInv
<1>2. CASE Uninstall
  BY <1>2, UninstallIInv
<1>3. ASSUME NEW R \in SUBSET Route, RegisterView(R) PROVE IInv'
  BY <1>3, RegisterIInv
<1>4. CASE UNCHANGED vars
  BY <1>4 DEF vars, IInv, TypeOK, KnownWhenWrapped, IdsDiffer, PatchInv, ByThisPatch,
              NotByThisPatch
<1> QED BY <1>1, <1>2, <1>3, <1>4 DEF Next

LEMMA Invariance == Spec => []IInv
BY InitIInv, NextIInv, PTL DEF Spec

-----------------------------------------------------------------------------
(* The types of the routes' handlers, the ids and the patch.                *)
THEOREM TypeCorrect == Spec => []TypeOK
<1>1. IInv => TypeOK
  BY DEF IInv
<1> QED BY <1>1, Invariance, PTL

(* No route is ever wrapped twice, although the ids of wrappers stay behind *)
(* and are given to other objects: a request makes at most one span.        *)
THEOREM NeverTwoSpans == Spec => []OneSpanPerRequest
<1>1. IInv => OneSpanPerRequest
  <2> SUFFICES ASSUME IInv, NEW r \in DOMAIN route PROVE Cardinality(SpansOf(r)) <= 1
    BY DEF OneSpanPerRequest
  <2>1. IsOwn(route[r]) \/ IsWrapped(route[r])
    BY DEF IInv, KnownWhenWrapped
  <2>2. SpansOf(r) \subseteq {2}
    BY <2>1, OwnFacts, WrappedFacts DEF SpansOf
  <2>3. IsFiniteSet({2}) /\ Cardinality({2}) = 1
    BY FS_Singleton
  <2>4. Cardinality(SpansOf(r)) <= Cardinality({2})
    BY <2>2, <2>3, FS_Subset
  <2> QED BY <2>3, <2>4
<1> QED BY <1>1, Invariance, PTL

(* After an uninstall every route has the handler it was registered with.   *)
THEOREM UninstallPutsBack == Spec => []UninstallRestores
<1>1. IInv => UninstallRestores
  BY DEF IInv, PatchInv, UninstallRestores
<1> QED BY <1>1, Invariance, PTL

(* Which installation traces an API route, and when none does.              *)
THEOREM ApiRoutesAreTraced == Spec => []WhoTraces
<1>1. IInv => WhoTraces
  <2> SUFFICES ASSUME IInv, patch # None, NEW r \in DOMAIN route \cap Api
               PROVE  \/ Outer(route[r]).by = patch.number
                      \/ Outer(route[r]).by # None /\ route[r] = registered[r]
                      \/ Outer(route[r]).by = None /\ Outer(route[r]).id \in traced
    BY DEF WhoTraces
  <2>1. IsOwn(route[r]) \/ IsWrapped(route[r])
    BY DEF IInv, KnownWhenWrapped
  <2>2. CASE r \in DOMAIN patch.wrapped
    <3>1. ByThisPatch(r)
      BY <2>2 DEF IInv, PatchInv
    <3>2. PICK w \in Layer : w.by = patch.number /\ route[r] = <<registered[r][1], w>>
      BY <3>1 DEF ByThisPatch
    <3>3. Outer(route[r]) = w
      BY <3>2 DEF Outer
    <3> QED BY <3>2, <3>3
  <2>3. CASE r \notin DOMAIN patch.wrapped
    BY <2>1, <2>3, OwnFacts, WrappedFacts DEF IInv, PatchInv, NotByThisPatch
  <2> QED BY <2>2, <2>3
<1> QED BY <1>1, Invariance, PTL

=============================================================================
