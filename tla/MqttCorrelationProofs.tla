---------------------- MODULE MqttCorrelationProofs ----------------------
(* Proofs about MqttCorrelation for every set of entities and payloads,     *)
(* every time to live and every bound.                                      *)
EXTENDS MqttCorrelation, FiniteSetTheorems, SequenceTheorems, TLAPS

(* Why the matches are right: at any time the table holds entries of the    *)
(* newest publish only, under keys of its own entity, with its own expiry.  *)
TableOfNewest ==
    \A k \in Keys : pending[k] # None =>
        /\ Len(published) > 0
        /\ pending[k].pub = Len(published)
        /\ pending[k].expires = published[Len(published)].at + Ttl
        /\ k \in RegisterKeys(published[Len(published)].topic, published[Len(published)].payload)

PublishedInThePast == \A p \in DOMAIN published : published[p].at <= now

IInv == TypeOK /\ TableOfNewest /\ PublishedInThePast

-----------------------------------------------------------------------------
(* _related_topics relates a topic to itself and, for the three discovery   *)
(* suffixes, to the two others with the same base.                          *)
LEMMA RelatedSetValue ==
    \A topic \in Topics :
        RelatedSet[topic] = IF topic.kind = "plain" THEN {topic}
                            ELSE {[base |-> topic.base, kind |-> k] : k \in {"state", "set", "config"}}
<1>1. SUFFICES ASSUME NEW topic \in Topics
               PROVE  RelatedSet[topic] = IF topic.kind = "plain" THEN {topic}
                            ELSE {[base |-> topic.base, kind |-> k] : k \in {"state", "set", "config"}}
  OBVIOUS
<1>2. RelatedSet[topic] = {Related[topic][i] : i \in DOMAIN Related[topic]}
  BY DEF RelatedSet
<1>3. /\ DOMAIN Related[topic] = DOMAIN RelatedKinds[topic.kind]
      /\ \A i \in DOMAIN RelatedKinds[topic.kind] :
            Related[topic][i] = [base |-> topic.base, kind |-> RelatedKinds[topic.kind][i]]
  BY DEF Related, Topics
<1>4. topic.kind \in Kinds
  BY DEF Topics
<1>5. CASE topic.kind = "plain"
  <2>1. RelatedKinds[topic.kind] = <<"plain">>
    BY <1>4, <1>5 DEF RelatedKinds
  <2>2. topic = [base |-> topic.base, kind |-> "plain"]
    BY <1>5 DEF Topics
  <2> QED BY <1>2, <1>3, <1>5, <2>1, <2>2
<1>6. CASE topic.kind # "plain"
  <2>1. PICK a, b, c \in {"state", "set", "config"} :
            /\ RelatedKinds[topic.kind] = <<a, b, c>>
            /\ {a, b, c} = {"state", "set", "config"}
    BY <1>4, <1>6 DEF RelatedKinds, Kinds
  <2>2. /\ DOMAIN Related[topic] = {1, 2, 3}
        /\ Related[topic][1] = [base |-> topic.base, kind |-> a]
        /\ Related[topic][2] = [base |-> topic.base, kind |-> b]
        /\ Related[topic][3] = [base |-> topic.base, kind |-> c]
    <3>1. /\ DOMAIN <<a, b, c>> = {1, 2, 3}
          /\ <<a, b, c>>[1] = a /\ <<a, b, c>>[2] = b /\ <<a, b, c>>[3] = c
      OBVIOUS
    <3> QED BY <1>3, <2>1, <3>1
  <2>3. RelatedSet[topic] = {[base |-> topic.base, kind |-> k] : k \in {a, b, c}}
    BY <1>2, <2>2
  <2>4. RelatedSet[topic] = {[base |-> topic.base, kind |-> k] : k \in {"state", "set", "config"}}
    BY <2>1, <2>3
  <2> QED BY <1>6, <2>4
<1> QED BY <1>5, <1>6

(* Related topics have the same related topics.                             *)
LEMMA RelatedShared ==
    \A s, t \in Topics : s \in RelatedSet[t] => RelatedSet[s] = RelatedSet[t]
<1>1. SUFFICES ASSUME NEW s \in Topics, NEW t \in Topics, s \in RelatedSet[t]
               PROVE  RelatedSet[s] = RelatedSet[t]
  OBVIOUS
<1>2. CASE t.kind = "plain"
  BY <1>1, <1>2, RelatedSetValue
<1>3. CASE t.kind # "plain"
  <2>1. RelatedSet[t] = {[base |-> t.base, kind |-> k] : k \in {"state", "set", "config"}}
    BY <1>3, RelatedSetValue
  <2>2. s.base = t.base /\ s.kind # "plain"
    BY <1>1, <2>1
  <2>3. RelatedSet[s] = {[base |-> s.base, kind |-> k] : k \in {"state", "set", "config"}}
    BY <2>2, RelatedSetValue
  <2> QED BY <2>1, <2>2, <2>3
<1> QED BY <1>2, <1>3

(* A topic is related to itself.                                            *)
LEMMA RelatedSelf ==
    \A t \in Topics : t \in RelatedSet[t] /\ RelatedSet[t] \subseteq Topics
<1>1. SUFFICES ASSUME NEW t \in Topics
               PROVE  t \in RelatedSet[t] /\ RelatedSet[t] \subseteq Topics
  OBVIOUS
<1>2. CASE t.kind = "plain"
  BY <1>2, RelatedSetValue
<1>3. CASE t.kind # "plain"
  <2>1. t.kind \in {"state", "set", "config"} /\ t = [base |-> t.base, kind |-> t.kind]
    BY <1>3 DEF Topics, Kinds
  <2>2. {[base |-> t.base, kind |-> k] : k \in {"state", "set", "config"}} \subseteq Topics
    BY DEF Topics, Kinds
  <2> QED BY <1>3, <2>1, <2>2, RelatedSetValue
<1> QED BY <1>2, <1>3

-----------------------------------------------------------------------------
(* Every key a lookup tries belongs to a topic related to the message's.    *)
LEMMA CandidatesRelated ==
    ASSUME NEW topic \in Topics, NEW text \in Texts,
           NEW j \in DOMAIN Candidates[<<topic, text>>]
    PROVE  /\ Candidates[<<topic, text>>][j] \in Keys
           /\ Candidates[<<topic, text>>][j][1] \in RelatedSet[topic]
<1> DEFINE n == Len(Related[topic])
           i == (j + 1) \div 2
<1>1. <<topic, text>> \in Keys
  BY DEF Keys
<1>2. Related[topic] \in Seq(Topics)
  <2>1. topic.kind \in Kinds
    BY DEF Topics
  <2>2. PICK m \in Nat : RelatedKinds[topic.kind] \in [1 .. m -> Kinds]
    <3>1. CASE topic.kind = "plain"
      <4>1. RelatedKinds[topic.kind] = <<"plain">> /\ "plain" \in Kinds
        BY <2>1, <3>1 DEF RelatedKinds, Kinds
      <4> QED BY <4>1
    <3>2. CASE topic.kind # "plain"
      <4>1. PICK a, b, c \in Kinds : RelatedKinds[topic.kind] = <<a, b, c>>
        BY <2>1, <3>2 DEF RelatedKinds, Kinds
      <4> QED BY <4>1
    <3> QED BY <3>1, <3>2
  <2>3. \A h \in 1 .. m : [topic EXCEPT !.kind = RelatedKinds[topic.kind][h]] \in Topics
    BY <2>2 DEF Topics
  <2>4. Related[topic] \in [1 .. m -> Topics]
    BY <2>2, <2>3 DEF Related
  <2> QED BY <2>4
<1>3. /\ DOMAIN Candidates[<<topic, text>>] = 1 .. 2 * n
      /\ Candidates[<<topic, text>>][j] =
            <<Related[topic][i], IF j % 2 = 1 THEN text ELSE Empty>>
  BY <1>1 DEF Candidates
<1>4. n \in Nat /\ DOMAIN Related[topic] = 1 .. n
  BY <1>2
<1>5. i \in 1 .. n
  BY <1>3, <1>4
<1>6. Related[topic][i] \in RelatedSet[topic]
  BY <1>4, <1>5 DEF RelatedSet
<1> QED BY <1>2, <1>3, <1>4, <1>5, <1>6 DEF Keys, Texts

(* A normalised payload is a text.                                          *)
LEMMA NormalizeType == ASSUME NEW payload \in Raw \cup {None} PROVE Normalize(payload) \in Texts
  BY DecodeAssumption DEF Normalize, Texts

-----------------------------------------------------------------------------
(* What the history says of a publish.                                      *)
LEMMA PublishedType ==
    ASSUME TypeOK, NEW p \in DOMAIN published
    PROVE  published[p].at \in Nat /\ published[p].topic \in Topics
<1>1. published[p] \in Publish
  BY ElementOfSeq DEF TypeOK
<1> QED BY <1>1 DEF Publish

(* The empty table satisfies the invariant.                                 *)
LEMMA InitIInv == Init => IInv
<1> SUFFICES ASSUME Init PROVE IInv
  OBVIOUS
<1>1. TypeOK
  BY DEF Init, TypeOK
<1>2. TableOfNewest /\ PublishedInThePast
  BY DEF Init, TableOfNewest, PublishedInThePast
<1> QED BY <1>1, <1>2 DEF IInv

(* What a lookup leaves in the table: some of the entries, unchanged.       *)
LEMMA PopShrinks ==
    ASSUME NEW topic, NEW text, NEW last, TypeOK
    PROVE  /\ Pop(topic, text, last) \in [Keys -> Entry \cup {None}]
           /\ \A k \in Keys : Pop(topic, text, last)[k] \in {None, pending[k]}
  BY DEF Pop, PurgeExpired, TypeOK

(* A publish purges whatever is not its own.                                *)
LEMMA RegisterIInv ==
    ASSUME IInv, NEW topic \in Topics, NEW payload \in Raw \cup {None},
           Register(topic, payload)
    PROVE  IInv'
<1> DEFINE text == Normalize(payload)
           id   == Len(published) + 1
           new  == [topic |-> topic, payload |-> text, at |-> now]
<1>1. text \in Texts
  BY NormalizeType
<1>2. new \in Publish /\ id \in Nat /\ Len(published) \in Nat /\ now \in Nat
  BY <1>1 DEF Publish, IInv, TypeOK
<1>3. /\ published' = Append(published, new)
      /\ published' \in Seq(Publish)
      /\ Len(published') = id
      /\ published'[id] = new
      /\ \A p \in DOMAIN published : published'[p] = published[p]
      /\ DOMAIN published' = DOMAIN published \cup {id}
  BY <1>1, <1>2 DEF Register, IInv, TypeOK
<1>4. uses' \in Seq(Nat) /\ Len(uses') = id
  BY DEF Register, IInv, TypeOK
<1>5. ExpiresAt(now) = now + Ttl /\ [pub |-> id, expires |-> ExpiresAt(now)] \in Entry
  BY <1>2, BoundsAssumption DEF ExpiresAt, Entry
<1>6. \A k \in Keys : k \notin RegisterKeys(topic, text) => pending'[k] = None
  <2>1. SUFFICES ASSUME NEW k \in Keys, k \notin RegisterKeys(topic, text)
                 PROVE  pending'[k] = None
    OBVIOUS
  <2>2. pending'[k] = PurgeExpired(k, ExpiresAt(now))
    BY <2>1 DEF Register
  <2>3. CASE pending[k] = None
    BY <2>2, <2>3 DEF PurgeExpired
  <2>4. CASE pending[k] # None
    <3>1. /\ pending[k].expires = published[Len(published)].at + Ttl
          /\ Len(published) \in DOMAIN published
      BY <2>4, <1>2 DEF IInv, TableOfNewest, TypeOK
    <3>2. published[Len(published)].at <= now /\ published[Len(published)].at \in Nat
      BY <3>1, PublishedType DEF IInv, PublishedInThePast
    <3>3. pending[k].expires <= ExpiresAt(now)
      BY <3>1, <3>2, <1>2, <1>5, BoundsAssumption
    <3> QED BY <2>2, <2>4, <3>3 DEF PurgeExpired
  <2> QED BY <2>3, <2>4
<1>7. \A k \in Keys : k \in RegisterKeys(topic, text) =>
          pending'[k] = [pub |-> id, expires |-> ExpiresAt(now)]
  BY DEF Register
<1>8. pending' \in [Keys -> Entry \cup {None}]
  <2>1. pending' = [k \in Keys |-> pending'[k]]
    BY DEF Register
  <2> QED BY <2>1, <1>5, <1>6, <1>7
<1>9. TypeOK'
  <2>1. now' \in Nat
    BY <1>2 DEF Register
  <2>2. \A k \in Keys : pending'[k] # None => pending'[k].pub \in 1 .. Len(published')
    BY <1>2, <1>3, <1>6, <1>7
  <2> QED BY <1>3, <1>4, <1>8, <2>1, <2>2 DEF TypeOK
<1>10. TableOfNewest'
  <2>1. SUFFICES ASSUME NEW k \in Keys, pending'[k] # None
                 PROVE  /\ Len(published') > 0
                        /\ pending'[k].pub = Len(published')
                        /\ pending'[k].expires = published'[Len(published')].at + Ttl
                        /\ k \in RegisterKeys(published'[Len(published')].topic,
                                               published'[Len(published')].payload)
    BY DEF TableOfNewest, RegisterKeys
  <2>2. k \in RegisterKeys(topic, text) /\ pending'[k] = [pub |-> id, expires |-> now + Ttl]
    BY <2>1, <1>5, <1>6, <1>7
  <2> QED BY <2>2, <1>2, <1>3 DEF RegisterKeys
<1>11. PublishedInThePast'
  <2>1. \A p \in DOMAIN published : published[p].at <= now
    BY DEF IInv, PublishedInThePast
  <2>2. now' = now /\ new.at <= now
    BY <1>2 DEF Register
  <2> QED BY <1>3, <2>1, <2>2 DEF PublishedInThePast
<1> QED BY <1>9, <1>10, <1>11 DEF IInv

(* A step that only forgets entries keeps the invariant.                    *)
LEMMA ShrinkIInv ==
    ASSUME IInv, UNCHANGED published,
           now' \in Nat, now' >= now,
           uses' \in Seq(Nat), Len(uses') = Len(uses),
           pending' \in [Keys -> Entry \cup {None}],
           \A k \in Keys : pending'[k] \in {None, pending[k]}
    PROVE  IInv'
<1>1. TypeOK'
  BY DEF IInv, TypeOK
<1>2. TableOfNewest'
  BY DEF IInv, TableOfNewest, RegisterKeys
<1>3. PublishedInThePast'
  <2>1. \A p \in DOMAIN published : published[p].at \in Nat /\ published[p].at <= now
    BY PublishedType DEF IInv, PublishedInThePast
  <2> QED BY <2>1 DEF IInv, TypeOK, PublishedInThePast
<1> QED BY <1>1, <1>2, <1>3 DEF IInv

(* The publish a lookup answers with is the one that owns the entry found.  *)
LEMMA FirstHitEntry ==
    ASSUME IInv, NEW topic \in Topics, NEW text \in Texts, NEW j \in FirstHit(topic, text)
    PROVE  LET k == Candidates[<<topic, text>>][j]
           IN  /\ k \in Keys
               /\ k[1] \in RelatedSet[topic]
               /\ pending[k] # None
               /\ pending[k].expires > now
               /\ pending[k].pub \in DOMAIN published
<1> DEFINE k == Candidates[<<topic, text>>][j]
<1>1. j \in DOMAIN Candidates[<<topic, text>>]
  BY DEF FirstHit
<1>2. k \in Keys /\ k[1] \in RelatedSet[topic]
  BY <1>1, CandidatesRelated
<1>3. PurgeExpired(k, now) # None /\ PurgeExpired(k, now).expires > now
  BY DEF FirstHit
<1>4. pending[k] # None /\ pending[k].expires > now
  BY <1>3 DEF PurgeExpired
<1>5. pending[k].pub \in DOMAIN published
  BY <1>2, <1>4 DEF IInv, TypeOK
<1> QED BY <1>2, <1>4, <1>5

(* Counting one more use.                                                   *)
LEMMA OneMore ==
    ASSUME NEW s \in Seq(Nat), NEW i \in DOMAIN s
    PROVE  /\ [s EXCEPT ![i] = @ + 1] \in Seq(Nat)
           /\ Len([s EXCEPT ![i] = @ + 1]) = Len(s)
OBVIOUS

(* A hit only removes entries.                                              *)
LEMMA LookupHitIInv ==
    ASSUME IInv, NEW topic \in Topics, NEW payload \in Raw \cup {None},
           LookupHit(topic, payload)
    PROVE  IInv'
<1> DEFINE text == Normalize(payload)
<1>1. text \in Texts
  BY NormalizeType
<1>2. PICK j \in FirstHit(topic, text) :
          /\ pending' = Pop(topic, text, j)
          /\ uses' = [uses EXCEPT ![pending[Candidates[<<topic, text>>][j]].pub] = @ + 1]
          /\ UNCHANGED <<now, published>>
  BY DEF LookupHit
<1>3. pending[Candidates[<<topic, text>>][j]].pub \in DOMAIN published
  BY <1>1, FirstHitEntry
<1>4. uses' \in Seq(Nat) /\ Len(uses') = Len(uses)
  <2>1. uses \in Seq(Nat) /\ DOMAIN uses = DOMAIN published
    BY DEF IInv, TypeOK
  <2> QED BY <1>2, <1>3, <2>1, OneMore
<1>5. /\ pending' \in [Keys -> Entry \cup {None}]
      /\ \A k \in Keys : pending'[k] \in {None, pending[k]}
  BY <1>2, PopShrinks DEF IInv
<1>6. now' \in Nat /\ now' >= now
  BY <1>2 DEF IInv, TypeOK
<1> QED BY <1>2, <1>4, <1>5, <1>6, ShrinkIInv

(* So does a miss.                                                          *)
LEMMA LookupMissIInv ==
    ASSUME IInv, NEW topic \in Topics, NEW payload \in Raw \cup {None},
           LookupMiss(topic, payload)
    PROVE  IInv'
<1> DEFINE text == Normalize(payload)
           last == Len(Candidates[<<topic, text>>])
<1>1. pending' = Pop(topic, text, last) /\ UNCHANGED <<now, published, uses>>
  BY DEF LookupMiss
<1>2. /\ pending' \in [Keys -> Entry \cup {None}]
      /\ \A k \in Keys : pending'[k] \in {None, pending[k]}
  BY <1>1, PopShrinks DEF IInv
<1>3. now' \in Nat /\ now' >= now /\ uses' \in Seq(Nat) /\ Len(uses') = Len(uses)
  BY <1>1 DEF IInv, TypeOK
<1> QED BY <1>1, <1>2, <1>3, ShrinkIInv

(* The clock only moves forward.                                            *)
LEMMA TickIInv == ASSUME IInv, Tick PROVE IInv'
<1>1. now' \in Nat /\ now' >= now /\ uses' \in Seq(Nat) /\ Len(uses') = Len(uses)
  BY DEF IInv, TypeOK, Tick
<1>2. /\ pending' \in [Keys -> Entry \cup {None}]
      /\ \A k \in Keys : pending'[k] \in {None, pending[k]}
  BY DEF IInv, TypeOK, Tick
<1> QED BY <1>1, <1>2, ShrinkIInv DEF Tick

(* Every step keeps the invariant.                                          *)
LEMMA NextIInv == IInv /\ [Next]_vars => IInv'
<1> SUFFICES ASSUME IInv, [Next]_vars PROVE IInv'
  OBVIOUS
<1>1. ASSUME NEW topic \in Topics, NEW payload \in Raw \cup {None}, Register(topic, payload)
      PROVE  IInv'
  BY <1>1, RegisterIInv
<1>2. ASSUME NEW topic \in Topics, NEW payload \in Raw \cup {None}, LookupHit(topic, payload)
      PROVE  IInv'
  BY <1>2, LookupHitIInv
<1>3. ASSUME NEW topic \in Topics, NEW payload \in Raw \cup {None}, LookupMiss(topic, payload)
      PROVE  IInv'
  BY <1>3, LookupMissIInv
<1>4. CASE Tick
  BY <1>4, TickIInv
<1>5. CASE RegisterUntraced \/ UNCHANGED vars
  BY <1>5 DEF RegisterUntraced, vars, IInv, TypeOK, TableOfNewest, PublishedInThePast, RegisterKeys
<1> QED BY <1>1, <1>2, <1>3, <1>4, <1>5 DEF Next

(* The inductive invariant holds in every reachable state.                  *)
THEOREM Invariance == Spec => []IInv
<1> QED BY InitIInv, NextIInv, PTL DEF Spec

(* The table and its history are well typed, and no entry names a publish   *)
(* that has not happened.                                                   *)
THEOREM TypeCorrect == Spec => []TypeOK
<1>1. IInv => TypeOK
  BY DEF IInv
<1> QED BY <1>1, Invariance, PTL

(* A lookup answers with an entry that is stored and fresh.                 *)
LEMMA AnswerEntry ==
    ASSUME IInv, NEW topic \in Topics, NEW text \in Texts, NEW p \in Answers(topic, text)
    PROVE  /\ p \in DOMAIN published
           /\ now < published[p].at + Ttl
           /\ topic \in RelatedSet[published[p].topic]
<1>1. PICK j \in FirstHit(topic, text) : p = pending[Candidates[<<topic, text>>][j]].pub
  BY DEF Answers
<1> DEFINE k == Candidates[<<topic, text>>][j]
<1>2. /\ k \in Keys /\ k[1] \in RelatedSet[topic]
      /\ pending[k] # None /\ pending[k].expires > now
      /\ p \in DOMAIN published
  BY <1>1, FirstHitEntry
<1>3. /\ p = Len(published)
      /\ pending[k].expires = published[p].at + Ttl
      /\ k[1] \in RelatedSet[published[p].topic]
  BY <1>1, <1>2 DEF IInv, TableOfNewest, RegisterKeys
<1>4. published[p].at \in Nat /\ published[p].topic \in Topics /\ now \in Nat
  BY <1>2, PublishedType DEF IInv, TypeOK
<1>5. now < published[p].at + Ttl
  BY <1>2, <1>3, <1>4, BoundsAssumption
<1>6. k[1] \in Topics
  BY <1>2 DEF Keys
<1>7. RelatedSet[k[1]] = RelatedSet[topic] /\ RelatedSet[k[1]] = RelatedSet[published[p].topic]
  BY <1>2, <1>3, <1>4, <1>6, RelatedShared
<1>8. topic \in RelatedSet[published[p].topic]
  BY <1>7, RelatedSelf
<1> QED BY <1>2, <1>5, <1>8

(* No message is ever matched with a publish older than the time to live.   *)
THEOREM MatchesAreFresh == Spec => []FreshMatch
<1>1. IInv => FreshMatch
  BY AnswerEntry DEF FreshMatch
<1> QED BY <1>1, Invariance, PTL

(* No message is ever matched with a publish of another entity's topic.     *)
THEOREM MatchesAreRelated == Spec => []RelatedMatch
<1>1. IInv => RelatedMatch
  BY AnswerEntry DEF RelatedMatch
<1> QED BY <1>1, Invariance, PTL

-----------------------------------------------------------------------------
(* A topic has finitely many related topics, and a publish leaves at most   *)
(* two entries for each.                                                    *)
LEMMA RelatedFinite ==
    ASSUME NEW topic \in Topics
    PROVE  IsFiniteSet(RelatedSet[topic]) /\ Cardinality(RelatedSet[topic]) \in Nat
<1> DEFINE three == {[base |-> topic.base, kind |-> k] : k \in {"state", "set", "config"}}
<1>1. IsFiniteSet({topic})
  BY FS_Singleton
<1>2. IsFiniteSet(three)
  <2> DEFINE one(k) == [base |-> topic.base, kind |-> k]
  <2>1. IsFiniteSet({one("state")})
    BY FS_Singleton
  <2>2. IsFiniteSet({one("state")} \cup {one("set")})
    BY <2>1, FS_AddElement
  <2>3. IsFiniteSet(({one("state")} \cup {one("set")}) \cup {one("config")})
    BY <2>2, FS_AddElement
  <2>4. three = ({one("state")} \cup {one("set")}) \cup {one("config")}
    OBVIOUS
  <2> QED BY <2>3, <2>4
<1>3. RelatedSet[topic] \in {{topic}, three}
  BY RelatedSetValue
<1> QED BY <1>1, <1>2, <1>3, FS_CardinalityType

(* A publish is stored under two keys per related topic at most.            *)
LEMMA RegisterKeysFinite ==
    ASSUME NEW topic \in Topics, NEW text
    PROVE  /\ IsFiniteSet(RegisterKeys(topic, text))
           /\ Cardinality(RegisterKeys(topic, text)) <= 2 * Cardinality(RelatedSet[topic])
<1>1. IsFiniteSet({text, Empty}) /\ Cardinality({text, Empty}) \in {1, 2}
  <2>1. IsFiniteSet({text}) /\ Cardinality({text}) = 1
    BY FS_Singleton
  <2>2. /\ IsFiniteSet({text} \cup {Empty})
        /\ Cardinality({text} \cup {Empty}) = IF Empty \in {text} THEN 1 ELSE 2
    BY <2>1, FS_AddElement
  <2>3. {text} \cup {Empty} = {text, Empty}
    OBVIOUS
  <2> QED BY <2>2, <2>3
<1>2. /\ IsFiniteSet(RelatedSet[topic] \X {text, Empty})
      /\ Cardinality(RelatedSet[topic] \X {text, Empty})
            = Cardinality(RelatedSet[topic]) * Cardinality({text, Empty})
  BY <1>1, RelatedFinite, FS_Product
<1>3. CASE Cardinality({text, Empty}) = 1
  BY <1>2, <1>3, RelatedFinite DEF RegisterKeys
<1>4. CASE Cardinality({text, Empty}) = 2
  BY <1>2, <1>4, RelatedFinite DEF RegisterKeys
<1> QED BY <1>1, <1>3, <1>4

(* A publish has finitely many entries.                                     *)
LEMMA RemainingFinite ==
    ASSUME IInv, NEW p
    PROVE  IsFiniteSet(Remaining(p)) /\ Cardinality(Remaining(p)) \in Nat
<1>1. CASE Len(published) > 0
  <2> DEFINE newest == published[Len(published)]
  <2>1. Len(published) \in DOMAIN published
    BY <1>1 DEF IInv, TypeOK
  <2>2. newest.topic \in Topics
    BY <2>1, PublishedType DEF IInv
  <2>3. Remaining(p) \subseteq RegisterKeys(newest.topic, newest.payload)
    BY DEF Remaining, IInv, TableOfNewest
  <2> QED BY <2>2, <2>3, RegisterKeysFinite, FS_Subset, FS_CardinalityType
<1>2. CASE ~(Len(published) > 0)
  <2>1. Remaining(p) = {}
    BY <1>2 DEF Remaining, IInv, TableOfNewest
  <2> QED BY <2>1, FS_EmptySet
<1> QED BY <1>1, <1>2

(* The bound on reuse is inductive together with IInv: what a publish may   *)
(* still be credited with is what is left of its entries.                   *)
CreditInv == IInv /\ BoundedReuse

(* Nothing has been used at first.                                          *)
LEMMA InitCredit == Init => CreditInv
<1> SUFFICES ASSUME Init PROVE CreditInv
  OBVIOUS
<1>1. DOMAIN published = {}
  BY DEF Init
<1> QED BY <1>1, InitIInv DEF CreditInv, BoundedReuse

(* Fewer entries and the same uses keep the bound of one publish.           *)
LEMMA FewerEntries ==
    ASSUME CreditInv, IInv', UNCHANGED published, NEW p \in DOMAIN published,
           uses'[p] = uses[p],
           \A k \in Keys : pending'[k] \in {None, pending[k]}
    PROVE  uses'[p] + Cardinality(Remaining(p)') <= 2 * Cardinality(RelatedSet[published'[p].topic])
<1>1. Remaining(p)' \subseteq Remaining(p)
  BY DEF Remaining
<1>2. IsFiniteSet(Remaining(p)) /\ Cardinality(Remaining(p)) \in Nat
  BY RemainingFinite DEF CreditInv
<1>3. Cardinality(Remaining(p)') \in Nat /\ Cardinality(Remaining(p)') <= Cardinality(Remaining(p))
  BY <1>1, <1>2, FS_Subset, FS_CardinalityType
<1>4. uses[p] \in Nat /\ Cardinality(RelatedSet[published[p].topic]) \in Nat
  BY PublishedType, RelatedFinite DEF CreditInv, IInv, TypeOK
<1>5. uses[p] + Cardinality(Remaining(p)) <= 2 * Cardinality(RelatedSet[published[p].topic])
  BY DEF CreditInv, BoundedReuse
<1> QED BY <1>2, <1>3, <1>4, <1>5

(* A new publish starts with no uses; older ones lose their entries.        *)
LEMMA RegisterCredit ==
    ASSUME CreditInv, IInv', NEW topic \in Topics, NEW payload \in Raw \cup {None},
           Register(topic, payload)
    PROVE  BoundedReuse'
<1> DEFINE text == Normalize(payload)
           new  == [topic |-> topic, payload |-> text, at |-> now]
<1> PICK id : id = Len(published) + 1
  OBVIOUS
<1>1. /\ Len(published) \in Nat /\ Len(uses) = Len(published)
      /\ published' = Append(published, new) /\ uses' = Append(uses, 0)
  BY DEF Register, CreditInv, IInv, TypeOK
<1>2. /\ DOMAIN published' = DOMAIN published \cup {id}
      /\ published'[id] = new /\ uses'[id] = 0 /\ Len(published') = id
      /\ \A p \in DOMAIN published :
            p # id /\ published'[p] = published[p] /\ uses'[p] = uses[p] /\ uses[p] \in Nat
  BY <1>1 DEF CreditInv, IInv, TypeOK
<1>3. \A k \in Keys : pending'[k] # None =>
          pending'[k].pub = id /\ k \in RegisterKeys(topic, text)
  BY <1>2 DEF IInv, TableOfNewest, RegisterKeys
<1>4. ASSUME NEW p \in DOMAIN published
      PROVE  uses'[p] + Cardinality(Remaining(p)') <= 2 * Cardinality(RelatedSet[published'[p].topic])
  <2>1. Remaining(p)' = {}
    BY <1>2, <1>3, <1>4 DEF Remaining
  <2>2. Cardinality(Remaining(p)') = 0
    BY <2>1, FS_EmptySet
  <2>3. Cardinality(Remaining(p)) \in Nat
    BY RemainingFinite DEF CreditInv
  <2>4. Cardinality(RelatedSet[published[p].topic]) \in Nat
    BY <1>4, PublishedType, RelatedFinite DEF CreditInv, IInv
  <2>5. uses[p] + Cardinality(Remaining(p)) <= 2 * Cardinality(RelatedSet[published[p].topic])
    BY <1>4 DEF CreditInv, BoundedReuse
  <2> QED BY <1>2, <1>4, <2>2, <2>3, <2>4, <2>5
<1>5. uses'[id] + Cardinality(Remaining(id)') <= 2 * Cardinality(RelatedSet[published'[id].topic])
  <2>1. Remaining(id)' \subseteq RegisterKeys(topic, text)
    BY <1>3 DEF Remaining
  <2>2. /\ IsFiniteSet(RegisterKeys(topic, text))
        /\ Cardinality(RegisterKeys(topic, text)) <= 2 * Cardinality(RelatedSet[topic])
    BY RegisterKeysFinite
  <2>3. /\ Cardinality(Remaining(id)') \in Nat
        /\ Cardinality(Remaining(id)') <= Cardinality(RegisterKeys(topic, text))
        /\ Cardinality(RegisterKeys(topic, text)) \in Nat
    BY <2>1, <2>2, FS_Subset, FS_CardinalityType
  <2>4. Cardinality(RelatedSet[topic]) \in Nat
    BY RelatedFinite
  <2> QED BY <1>2, <2>2, <2>3, <2>4
<1> QED BY <1>2, <1>4, <1>5 DEF BoundedReuse

(* A lookup that finds an entry of p leaves at most one less for p.         *)
LEMMA HitConsumes ==
    ASSUME IInv, NEW topic \in Topics, NEW text \in Texts, NEW j \in FirstHit(topic, text),
           pending' = Pop(topic, text, j),
           NEW p, p = pending[Candidates[<<topic, text>>][j]].pub
    PROVE  /\ Cardinality(Remaining(p)') + 1 <= Cardinality(Remaining(p))
           /\ Cardinality(Remaining(p)') \in Nat
<1> DEFINE k == Candidates[<<topic, text>>][j]
<1>1. k \in Keys /\ pending[k] # None
  BY FirstHitEntry
<1>2. j \in DOMAIN Candidates[<<topic, text>>] /\ j \in 1 .. j
  <2>1. j \in DOMAIN Candidates[<<topic, text>>]
    BY DEF FirstHit
  <2>2. <<topic, text>> \in Keys
    BY DEF Keys
  <2>3. j \in 1 .. 2 * Len(Related[topic])
    BY <2>1, <2>2 DEF Candidates
  <2> QED BY <2>1, <2>3
<1>3. pending'[k] = None
  BY <1>1, <1>2 DEF Pop
<1>4. \A key \in Keys : pending'[key] \in {None, pending[key]}
  BY PopShrinks DEF IInv
<1>5. Remaining(p)' \subseteq Remaining(p) \ {k}
  BY <1>3, <1>4 DEF Remaining
<1>6. k \in Remaining(p)
  BY <1>1 DEF Remaining
<1>7. IsFiniteSet(Remaining(p)) /\ Cardinality(Remaining(p)) \in Nat
  BY RemainingFinite
<1>8. /\ IsFiniteSet(Remaining(p) \ {k})
      /\ Cardinality(Remaining(p) \ {k}) = Cardinality(Remaining(p)) - 1
  BY <1>6, <1>7, FS_RemoveElement
<1>9. /\ Cardinality(Remaining(p)') \in Nat
      /\ Cardinality(Remaining(p)') <= Cardinality(Remaining(p) \ {k})
  BY <1>5, <1>8, FS_Subset, FS_CardinalityType
<1> QED BY <1>7, <1>8, <1>9

(* A hit trades an entry for a use.                                         *)
LEMMA LookupHitCredit ==
    ASSUME CreditInv, IInv', NEW topic \in Topics, NEW payload \in Raw \cup {None},
           LookupHit(topic, payload)
    PROVE  BoundedReuse'
<1> DEFINE text == Normalize(payload)
<1>1. text \in Texts
  BY NormalizeType
<1>2. PICK j \in FirstHit(topic, text) :
          /\ pending' = Pop(topic, text, j)
          /\ uses' = [uses EXCEPT ![pending[Candidates[<<topic, text>>][j]].pub] = @ + 1]
          /\ UNCHANGED <<now, published>>
  BY DEF LookupHit
<1> PICK owner : owner = pending[Candidates[<<topic, text>>][j]].pub
  OBVIOUS
<1>3. owner \in DOMAIN published /\ DOMAIN uses = DOMAIN published
  BY <1>1, FirstHitEntry DEF CreditInv, IInv, TypeOK
<1>4. ASSUME NEW p \in DOMAIN published, p # owner
      PROVE  uses'[p] + Cardinality(Remaining(p)') <= 2 * Cardinality(RelatedSet[published'[p].topic])
  <2>1. uses'[p] = uses[p]
    BY <1>2, <1>3, <1>4 DEF CreditInv, IInv, TypeOK
  <2>2. \A k \in Keys : pending'[k] \in {None, pending[k]}
    BY <1>2, PopShrinks DEF CreditInv, IInv
  <2> QED BY <1>2, <1>4, <2>1, <2>2, FewerEntries
<1>5. uses'[owner] + Cardinality(Remaining(owner)') <= 2 * Cardinality(RelatedSet[published'[owner].topic])
  <2>1. uses'[owner] = uses[owner] + 1 /\ uses[owner] \in Nat
    BY <1>2, <1>3 DEF CreditInv, IInv, TypeOK
  <2>2. /\ Cardinality(Remaining(owner)') + 1 <= Cardinality(Remaining(owner))
        /\ Cardinality(Remaining(owner)') \in Nat
    BY <1>1, <1>2, HitConsumes DEF CreditInv
  <2>3. Cardinality(Remaining(owner)) \in Nat
    BY RemainingFinite DEF CreditInv
  <2>4. Cardinality(RelatedSet[published[owner].topic]) \in Nat
    BY <1>3, PublishedType, RelatedFinite DEF CreditInv, IInv
  <2>5. uses[owner] + Cardinality(Remaining(owner)) <= 2 * Cardinality(RelatedSet[published[owner].topic])
    BY <1>3 DEF CreditInv, BoundedReuse
  <2>6. published' = published
    BY <1>2
  <2>7. \A n, m, r, b \in Nat : m + 1 <= r /\ n + r <= 2 * b => (n + 1) + m <= 2 * b
    OBVIOUS
  <2>8. (uses[owner] + 1) + Cardinality(Remaining(owner)') <= 2 * Cardinality(RelatedSet[published[owner].topic])
    BY <2>1, <2>2, <2>3, <2>4, <2>5, <2>7
  <2> QED BY <2>1, <2>6, <2>8
<1> QED BY <1>2, <1>3, <1>4, <1>5 DEF BoundedReuse

(* A step that forgets entries without answering from one keeps the bound.  *)
LEMMA ShrinkCredit ==
    ASSUME CreditInv, IInv', UNCHANGED <<published, uses>>,
           \A k \in Keys : pending'[k] \in {None, pending[k]}
    PROVE  BoundedReuse'
  BY FewerEntries DEF BoundedReuse

(* Every step keeps the sum of uses and entries within the credit.          *)
LEMMA NextCredit == CreditInv /\ [Next]_vars => CreditInv'
<1> SUFFICES ASSUME CreditInv, [Next]_vars PROVE CreditInv'
  OBVIOUS
<1>1. IInv'
  BY NextIInv DEF CreditInv
<1>2. ASSUME NEW topic \in Topics, NEW payload \in Raw \cup {None}, Register(topic, payload)
      PROVE  BoundedReuse'
  BY <1>1, <1>2, RegisterCredit
<1>3. ASSUME NEW topic \in Topics, NEW payload \in Raw \cup {None}, LookupHit(topic, payload)
      PROVE  BoundedReuse'
  BY <1>1, <1>3, LookupHitCredit
<1>4. ASSUME NEW topic \in Topics, NEW payload \in Raw \cup {None}, LookupMiss(topic, payload)
      PROVE  BoundedReuse'
  <2>1. \A k \in Keys : pending'[k] \in {None, pending[k]}
    BY <1>4, PopShrinks DEF LookupMiss, CreditInv, IInv
  <2> QED BY <1>1, <1>4, <2>1, ShrinkCredit DEF LookupMiss
<1>5. CASE Tick \/ RegisterUntraced \/ UNCHANGED vars
  <2>1. UNCHANGED <<pending, published, uses>>
    BY <1>5 DEF Tick, RegisterUntraced, vars
  <2>2. BoundedReuse'
    BY <1>1, <2>1, ShrinkCredit
  <2> QED BY <1>1, <2>2 DEF CreditInv
<1> QED BY <1>1, <1>2, <1>3, <1>4, <1>5 DEF Next, CreditInv

(* So it always is.                                                         *)
LEMMA CreditInvariance == Spec => []CreditInv
<1> QED BY InitCredit, NextCredit, PTL DEF Spec

(* No publish is ever credited with more messages than the table had        *)
(* entries for it.                                                          *)
THEOREM ReuseIsBounded == Spec => []BoundedReuse
<1>1. CreditInv => BoundedReuse
  BY DEF CreditInv
<1> QED BY <1>1, CreditInvariance, PTL

-----------------------------------------------------------------------------
(* A hit is an abstract match of the newest publish.                        *)
LEMMA HitMatchesNewest ==
    ASSUME CreditInv, NEW topic \in Topics, NEW payload \in Raw \cup {None},
           LookupHit(topic, payload)
    PROVE  Outstanding!MatchNewest
<1> DEFINE text == Normalize(payload)
           newest == Len(published)
<1>1. text \in Texts
  BY NormalizeType
<1>2. PICK j \in FirstHit(topic, text) :
          /\ pending' = Pop(topic, text, j)
          /\ uses' = [uses EXCEPT ![pending[Candidates[<<topic, text>>][j]].pub] = @ + 1]
          /\ UNCHANGED <<now, published>>
  BY DEF LookupHit
<1> DEFINE k == Candidates[<<topic, text>>][j]
<1>3. /\ k \in Keys /\ pending[k] # None /\ pending[k].expires > now
      /\ pending[k].pub \in DOMAIN published
  BY <1>1, FirstHitEntry DEF CreditInv
<1>4. newest > 0 /\ pending[k].pub = newest /\ pending[k].expires = published[newest].at + Ttl
  BY <1>3 DEF CreditInv, IInv, TableOfNewest
<1>5. published[newest].topic \in Topics
  BY <1>3, <1>4, PublishedType DEF CreditInv, IInv
<1>6. uses[newest] < 2 * Cardinality(RelatedSet[published[newest].topic])
  <2>1. Cardinality(Remaining(newest)) \in Nat /\ IsFiniteSet(Remaining(newest))
    BY RemainingFinite DEF CreditInv
  <2>2. k \in Remaining(newest)
    BY <1>3, <1>4 DEF Remaining
  <2>3. Cardinality(Remaining(newest)) # 0
    BY <2>1, <2>2, FS_EmptySet
  <2>4. uses[newest] + Cardinality(Remaining(newest)) <= 2 * Cardinality(RelatedSet[published[newest].topic])
    BY <1>3, <1>4 DEF CreditInv, BoundedReuse
  <2>5. uses[newest] \in Nat
    BY <1>3, <1>4 DEF CreditInv, IInv, TypeOK
  <2>6. Cardinality(RelatedSet[published[newest].topic]) \in Nat
    BY <1>5, RelatedFinite
  <2> QED BY <2>1, <2>3, <2>4, <2>5, <2>6
<1>7. now < published[newest].at + Ttl
  BY <1>3, <1>4
<1>8. uses' = [uses EXCEPT ![newest] = @ + 1]
  BY <1>2, <1>4
<1> QED BY <1>2, <1>4, <1>5, <1>6, <1>7, <1>8 DEF Outstanding!MatchNewest

(* The table implements the specification of a single outstanding publish.  *)
THEOREM TableImplementsOutstanding == Spec => OneOutstanding
<1>1. Init => Outstanding!Init
  BY DEF Init, Outstanding!Init
<1>2. CreditInv /\ [Next]_vars => [Outstanding!Next]_(Outstanding!vars)
  <2> SUFFICES ASSUME CreditInv, [Next]_vars
               PROVE  Outstanding!Next \/ UNCHANGED Outstanding!vars
    OBVIOUS
  <2>1. ASSUME NEW topic \in Topics, NEW payload \in Raw \cup {None}, Register(topic, payload)
        PROVE  Outstanding!Next
    <3>1. Outstanding!Publish(topic, Normalize(payload))
      BY <2>1 DEF Register, Outstanding!Publish
    <3> QED BY <3>1, NormalizeType DEF Outstanding!Next
  <2>2. ASSUME NEW topic \in Topics, NEW payload \in Raw \cup {None}, LookupHit(topic, payload)
        PROVE  Outstanding!Next
    BY <2>2, HitMatchesNewest DEF Outstanding!Next
  <2>3. ASSUME NEW topic \in Topics, NEW payload \in Raw \cup {None}, LookupMiss(topic, payload)
        PROVE  UNCHANGED Outstanding!vars
    BY <2>3 DEF LookupMiss, Outstanding!vars
  <2>4. CASE Tick
    BY <2>4 DEF Tick, Outstanding!Tick, Outstanding!Next
  <2>5. CASE RegisterUntraced \/ UNCHANGED vars
    BY <2>5 DEF RegisterUntraced, vars, Outstanding!vars
  <2> QED BY <2>1, <2>2, <2>3, <2>4, <2>5 DEF Next
<1> QED BY <1>1, <1>2, CreditInvariance, PTL DEF Spec, OneOutstanding, Outstanding!Spec

-----------------------------------------------------------------------------
(* A topic is related to itself alone, or to three topics.                  *)
LEMMA RelatedShape ==
    ASSUME NEW topic \in Topics
    PROVE  \/ /\ Len(Related[topic]) = 1 /\ DOMAIN Related[topic] = 1 .. 1
              /\ Cardinality(RelatedSet[topic]) = 1
           \/ /\ Len(Related[topic]) = 3 /\ DOMAIN Related[topic] = 1 .. 3
              /\ Cardinality(RelatedSet[topic]) = 3
<1>1. topic.kind \in Kinds
  BY DEF Topics
<1>2. /\ DOMAIN Related[topic] = DOMAIN RelatedKinds[topic.kind]
      /\ Related[topic] = [i \in DOMAIN RelatedKinds[topic.kind] |->
                             [topic EXCEPT !.kind = RelatedKinds[topic.kind][i]]]
  BY DEF Related
<1>3. CASE topic.kind = "plain"
  <2>1. RelatedKinds[topic.kind] = <<"plain">>
    BY <1>1, <1>3 DEF RelatedKinds
  <2>2. DOMAIN Related[topic] = 1 .. 1 /\ Len(Related[topic]) = 1
    <3>1. DOMAIN <<"plain">> = 1 .. 1
      OBVIOUS
    <3>2. DOMAIN Related[topic] = 1 .. 1
      BY <1>2, <2>1, <3>1
    <3> QED BY <1>2, <3>2, LenProperties
  <2>3. Cardinality(RelatedSet[topic]) = 1
    BY <1>3, RelatedSetValue, FS_Singleton
  <2> QED BY <2>2, <2>3
<1>4. CASE topic.kind # "plain"
  <2>1. PICK a, b, c \in {"state", "set", "config"} : RelatedKinds[topic.kind] = <<a, b, c>>
    BY <1>1, <1>4 DEF RelatedKinds, Kinds
  <2>2. DOMAIN Related[topic] = 1 .. 3 /\ Len(Related[topic]) = 3
    <3>1. DOMAIN <<a, b, c>> = 1 .. 3
      OBVIOUS
    <3>2. DOMAIN Related[topic] = 1 .. 3
      BY <1>2, <2>1, <3>1
    <3> QED BY <1>2, <3>2, LenProperties
  <2>3. Cardinality(RelatedSet[topic]) = 3
    <3> DEFINE one(k) == [base |-> topic.base, kind |-> k]
    <3>1. one("state") # one("set") /\ one("config") # one("set") /\ one("config") # one("state")
      <4>1. one("state").kind # one("set").kind /\ one("config").kind # one("set").kind
            /\ one("config").kind # one("state").kind
        OBVIOUS
      <4> QED BY <4>1
    <3> HIDE DEF one
    <3>2. IsFiniteSet({one("state")}) /\ Cardinality({one("state")}) = 1
      BY FS_Singleton
    <3>3. /\ IsFiniteSet({one("state")} \cup {one("set")})
          /\ Cardinality({one("state")} \cup {one("set")}) = 2
      BY <3>1, <3>2, FS_AddElement
    <3>4. Cardinality(({one("state")} \cup {one("set")}) \cup {one("config")}) = 3
      BY <3>1, <3>3, FS_AddElement
    <3>5. RelatedSet[topic] = ({one("state")} \cup {one("set")}) \cup {one("config")}
      BY <1>4, RelatedSetValue DEF one
    <3> QED BY <3>4, <3>5
  <2> QED BY <2>2, <2>3
<1> QED BY <1>3, <1>4

(* A lookup tries the message's payload and the wildcard under every        *)
(* related topic.                                                           *)
LEMMA CandidatesReach ==
    ASSUME NEW topic \in Topics, NEW text \in Texts,
           NEW s \in RelatedSet[topic], NEW x \in {text, Empty}
    PROVE  \E j \in DOMAIN Candidates[<<topic, text>>] : Candidates[<<topic, text>>][j] = <<s, x>>
<1>1. <<topic, text>> \in Keys
  BY DEF Keys
<1>2. /\ DOMAIN Candidates[<<topic, text>>] = 1 .. 2 * Len(Related[topic])
      /\ \A j \in 1 .. 2 * Len(Related[topic]) :
            Candidates[<<topic, text>>][j] =
               <<Related[topic][(j + 1) \div 2], IF j % 2 = 1 THEN text ELSE Empty>>
  BY <1>1 DEF Candidates
<1>3. PICK i \in DOMAIN Related[topic] : s = Related[topic][i]
  BY DEF RelatedSet
<1> PICK n : n = Len(Related[topic])
  OBVIOUS
<1>4. n \in {1, 3} /\ i \in 1 .. n
  BY <1>3, RelatedShape
<1>5. CASE x = text
  <2> DEFINE j == 2 * i - 1
  <2>1. j \in 1 .. 2 * n /\ (j + 1) \div 2 = i /\ j % 2 = 1
    BY <1>4
  <2> QED BY <1>2, <1>3, <1>5, <2>1
<1>6. CASE x = Empty
  <2> DEFINE j == 2 * i
  <2>1. j \in 1 .. 2 * n /\ (j + 1) \div 2 = i /\ j % 2 # 1
    BY <1>4
  <2> QED BY <1>2, <1>3, <1>6, <2>1
<1> QED BY <1>5, <1>6

(* A lookup has at most six candidates.                                     *)
LEMMA FirstOfSix ==
    ASSUME NEW S, S \subseteq 1 .. 6, S # {}
    PROVE  \E h \in S : \A i \in S : h <= i
<1>1. CASE 1 \in S
  BY <1>1
<1>2. CASE 1 \notin S /\ 2 \in S
  BY <1>2
<1>3. CASE 1 \notin S /\ 2 \notin S /\ 3 \in S
  BY <1>3
<1>4. CASE 1 \notin S /\ 2 \notin S /\ 3 \notin S /\ 4 \in S
  BY <1>4
<1>5. CASE 1 \notin S /\ 2 \notin S /\ 3 \notin S /\ 4 \notin S
  <2>1. S \subseteq {5, 6}
    BY <1>5
  <2>2. CASE 5 \in S
    BY <2>1, <2>2
  <2>3. CASE 5 \notin S
    <3>1. S = {6}
      BY <2>1, <2>3
    <3> QED BY <3>1
  <2> QED BY <2>2, <2>3
<1> QED BY <1>1, <1>2, <1>3, <1>4, <1>5

(* If a lookup has a candidate that is stored and fresh, it has a first.    *)
LEMMA HitExists ==
    ASSUME NEW topic \in Topics, NEW text \in Texts,
           NEW j \in DOMAIN Candidates[<<topic, text>>],
           PurgeExpired(Candidates[<<topic, text>>][j], now) # None,
           PurgeExpired(Candidates[<<topic, text>>][j], now).expires > now
    PROVE  FirstHit(topic, text) # {}
<1> DEFINE hits == {h \in DOMAIN Candidates[<<topic, text>>] :
                       LET entry == PurgeExpired(Candidates[<<topic, text>>][h], now)
                       IN  entry # None /\ entry.expires > now}
<1>1. <<topic, text>> \in Keys
  BY DEF Keys
<1>2. hits \subseteq 1 .. 6
  <2>1. Len(Related[topic]) \in {1, 3}
    BY RelatedShape
  <2>2. DOMAIN Candidates[<<topic, text>>] = 1 .. 2 * Len(Related[topic])
    BY <1>1 DEF Candidates
  <2>3. hits \subseteq DOMAIN Candidates[<<topic, text>>]
    OBVIOUS
  <2> HIDE DEF hits
  <2>4. CASE Len(Related[topic]) = 1
    <3>1. hits \subseteq 1 .. 2
      BY <2>2, <2>3, <2>4
    <3> QED BY <3>1
  <2>5. CASE Len(Related[topic]) = 3
    BY <2>2, <2>3, <2>5
  <2> QED BY <2>1, <2>4, <2>5
<1>3. j \in hits
  OBVIOUS
<1>4. FirstHit(topic, text) = {h \in hits : \A i \in hits : h <= i}
  BY DEF FirstHit
<1> HIDE DEF hits
<1>5. \E h \in hits : \A i \in hits : h <= i
  BY <1>2, <1>3, FirstOfSix
<1> QED BY <1>4, <1>5

-----------------------------------------------------------------------------
(* That the newest publish can be found is a lower bound on its entries, as *)
(* reuse is an upper one: while it is fresh, every entry it was stored      *)
(* under is there or has answered a message.  No purge and no other         *)
(* message's lookup loses one.                                              *)
Fresh      == Newest > 0 /\ now < published[Newest].at + Ttl
NewestKeys == RegisterKeys(published[Newest].topic, published[Newest].payload)

NoneLost == Fresh => uses[Newest] + Cardinality(Remaining(Newest)) = Cardinality(NewestKeys)

KeptInv == IInv /\ NoneLost

(* Every entry is as fresh as the newest publish.                           *)
LEMMA FreshEntries ==
    ASSUME IInv, Fresh, NEW k \in Keys
    PROVE  /\ PurgeExpired(k, now) = pending[k]
           /\ pending[k] # None => pending[k].expires > now /\ pending[k].pub = Newest
<1>1. pending[k] # None => /\ pending[k].expires = published[Newest].at + Ttl
                           /\ pending[k].pub = Newest
  BY DEF IInv, TableOfNewest, Newest
<1>2. Newest \in DOMAIN published /\ now \in Nat
  BY DEF Fresh, Newest, IInv, TypeOK
<1>3. published[Newest].at \in Nat
  BY <1>2, PublishedType DEF IInv
<1> QED BY <1>1, <1>2, <1>3, BoundsAssumption DEF Fresh, PurgeExpired

(* A candidate that is stored while the newest publish is fresh is a hit.   *)
LEMMA FreshIsHit ==
    ASSUME IInv, Fresh, NEW topic \in Topics, NEW text \in Texts,
           NEW j \in DOMAIN Candidates[<<topic, text>>],
           pending[Candidates[<<topic, text>>][j]] # None
    PROVE  /\ FirstHit(topic, text) # {}
           /\ \A h \in FirstHit(topic, text) : h <= j
<1> DEFINE k == Candidates[<<topic, text>>][j]
<1>1. k \in Keys
  BY CandidatesRelated
<1>2. PurgeExpired(k, now) # None /\ PurgeExpired(k, now).expires > now
  BY <1>1, FreshEntries
<1>3. FirstHit(topic, text) # {}
  BY <1>2, HitExists
<1>4. \A h \in FirstHit(topic, text) : h <= j
  BY <1>2 DEF FirstHit
<1> QED BY <1>3, <1>4

(* While it is fresh a lookup leaves the table as it is but for the entry   *)
(* it answers from.                                                         *)
LEMMA PopTakesOne ==
    ASSUME IInv, Fresh, NEW topic \in Topics, NEW text \in Texts, NEW j \in FirstHit(topic, text),
           NEW key \in Keys, key # Candidates[<<topic, text>>][j]
    PROVE  Pop(topic, text, j)[key] = pending[key]
<1>1. PurgeExpired(key, now) = pending[key]
  BY FreshEntries
<1>2. CASE \E h \in 1 .. j : key = Candidates[<<topic, text>>][h]
  <2>1. PICK h \in 1 .. j : key = Candidates[<<topic, text>>][h]
    BY <1>2
  <2>2. j \in DOMAIN Candidates[<<topic, text>>] /\ DOMAIN Candidates[<<topic, text>>] = 1 .. 2 * Len(Related[topic])
    BY DEF FirstHit, Candidates, Keys
  <2>3. Len(Related[topic]) \in Nat
    BY RelatedShape
  <2>4. h \in DOMAIN Candidates[<<topic, text>>] /\ ~(j <= h)
    BY <2>1, <2>2, <2>3
  <2>5. pending[key] = None
    BY <2>1, <2>4, FreshIsHit
  <2> QED BY <1>2, <2>5 DEF Pop
<1>3. CASE ~\E h \in 1 .. j : key = Candidates[<<topic, text>>][h]
  BY <1>1, <1>3 DEF Pop
<1> QED BY <1>2, <1>3

(* A lookup that finds nothing then leaves all of it.                       *)
LEMMA MissTakesNone ==
    ASSUME IInv, Fresh, NEW topic \in Topics, NEW text \in Texts, FirstHit(topic, text) = {},
           NEW key \in Keys
    PROVE  Pop(topic, text, Len(Candidates[<<topic, text>>]))[key] = pending[key]
<1> DEFINE last == Len(Candidates[<<topic, text>>])
<1>1. PurgeExpired(key, now) = pending[key]
  BY FreshEntries
<1>2. CASE \E h \in 1 .. last : key = Candidates[<<topic, text>>][h]
  <2>1. PICK h \in 1 .. last : key = Candidates[<<topic, text>>][h]
    BY <1>2
  <2>2. DOMAIN Candidates[<<topic, text>>] = 1 .. 2 * Len(Related[topic])
    BY DEF Candidates, Keys
  <2>3. last = 2 * Len(Related[topic])
    BY <2>2, RelatedShape, LenProperties
  <2>4. pending[key] = None
    BY <2>1, <2>2, <2>3, FreshIsHit
  <2> QED BY <1>2, <2>4 DEF Pop
<1>3. CASE ~\E h \in 1 .. last : key = Candidates[<<topic, text>>][h]
  BY <1>1, <1>3 DEF Pop
<1> QED BY <1>2, <1>3

(* A publish has a key per related topic, or two if its payload is not the  *)
(* wildcard.                                                                *)
LEMMA KeysOfPublish ==
    ASSUME NEW topic \in Topics, NEW text
    PROVE  Cardinality(RegisterKeys(topic, text))
              = (IF text = Empty THEN 1 ELSE 2) * Cardinality(RelatedSet[topic])
<1>1. IsFiniteSet({text}) /\ Cardinality({text}) = 1
  BY FS_Singleton
<1>2. /\ IsFiniteSet({text} \cup {Empty})
      /\ Cardinality({text} \cup {Empty}) = IF Empty \in {text} THEN 1 ELSE 2
  BY <1>1, FS_AddElement
<1>3. {text} \cup {Empty} = {text, Empty}
  OBVIOUS
<1>4. Cardinality(RelatedSet[topic] \X {text, Empty})
         = Cardinality(RelatedSet[topic]) * Cardinality({text, Empty})
  BY <1>2, <1>3, RelatedFinite, FS_Product
<1>5. CASE text = Empty
  BY <1>2, <1>3, <1>4, <1>5, RelatedFinite DEF RegisterKeys
<1>6. CASE text # Empty
  BY <1>2, <1>3, <1>4, <1>6, RelatedFinite DEF RegisterKeys
<1> QED BY <1>5, <1>6

(* Nothing was published at first.                                          *)
LEMMA InitKept == Init => KeptInv
<1> SUFFICES ASSUME Init PROVE KeptInv
  OBVIOUS
<1>1. ~Fresh
  BY DEF Init, Fresh, Newest
<1> QED BY <1>1, InitIInv DEF KeptInv, NoneLost

(* A publish is stored under all its keys, and nothing older is counted.    *)
LEMMA RegisterKept ==
    ASSUME IInv, NEW topic \in Topics, NEW payload \in Raw \cup {None},
           Register(topic, payload)
    PROVE  NoneLost'
<1> DEFINE text == Normalize(payload)
           new  == [topic |-> topic, payload |-> text, at |-> now]
<1> PICK id : id = Len(published) + 1
  OBVIOUS
<1>1. /\ Len(published) \in Nat /\ Len(uses) = Len(published)
      /\ published' = Append(published, new) /\ uses' = Append(uses, 0)
  BY DEF Register, IInv, TypeOK
<1>2. Newest' = id /\ published'[id] = new /\ uses'[id] = 0
  BY <1>1 DEF Newest, IInv, TypeOK
<1>3. NewestKeys' = RegisterKeys(topic, text)
  BY <1>2 DEF NewestKeys, RegisterKeys
<1>4. ASSUME NEW k \in Keys
      PROVE  pending'[k] # None /\ pending'[k].pub = id <=> k \in RegisterKeys(topic, text)
  <2>1. CASE k \in RegisterKeys(topic, text)
    <3>1. pending'[k] = [pub |-> id, expires |-> ExpiresAt(now)]
      BY <2>1 DEF Register
    <3>2. [pub |-> id, expires |-> ExpiresAt(now)] \in Entry
      BY <1>1, BoundsAssumption DEF ExpiresAt, Entry, IInv, TypeOK
    <3> QED BY <2>1, <3>1, <3>2, NoneAssumption
  <2>2. CASE k \notin RegisterKeys(topic, text)
    <3>1. pending'[k] # None => pending'[k] = pending[k] /\ pending[k] # None
      BY <2>2 DEF Register, PurgeExpired
    <3>2. pending[k] # None => pending[k].pub # id
      BY <1>1 DEF IInv, TypeOK
    <3> QED BY <2>2, <3>1, <3>2
  <2> QED BY <2>1, <2>2
<1>5. RegisterKeys(topic, text) \subseteq Keys
  <2>1. text \in Texts /\ Empty \in Texts
    BY NormalizeType DEF Texts
  <2> QED BY <2>1, RelatedSelf DEF RegisterKeys, Keys
<1>6. Remaining(id)' = RegisterKeys(topic, text)
  BY <1>4, <1>5 DEF Remaining
<1>7. Cardinality(RegisterKeys(topic, text)) \in Nat
  BY RegisterKeysFinite, FS_CardinalityType
<1>8. Remaining(Newest)' = Remaining(id)'
  BY <1>2 DEF Remaining
<1> QED BY <1>2, <1>3, <1>6, <1>7, <1>8 DEF NoneLost

(* What freshness is when only time passes or entries go.                   *)
LEMMA FreshBefore ==
    ASSUME IInv, UNCHANGED published, now' \in Nat, now' >= now
    PROVE  /\ Newest' = Newest /\ NewestKeys' = NewestKeys
           /\ Fresh' => Fresh
<1>1. Newest' = Newest /\ NewestKeys' = NewestKeys
  BY DEF Newest, NewestKeys, RegisterKeys
<1>2. ASSUME Fresh' PROVE Fresh
  <2>1. Newest > 0 /\ now' < published[Newest].at + Ttl
    BY <1>1, <1>2 DEF Fresh
  <2>2. Newest \in DOMAIN published /\ now \in Nat
    BY <2>1 DEF Newest, IInv, TypeOK
  <2>3. published[Newest].at \in Nat
    BY <2>2, PublishedType DEF IInv
  <2> QED BY <2>1, <2>2, <2>3, BoundsAssumption DEF Fresh
<1> QED BY <1>1, <1>2

(* A hit trades exactly one entry for a use.                                *)
LEMMA LookupHitKept ==
    ASSUME KeptInv, NEW topic \in Topics, NEW payload \in Raw \cup {None},
           LookupHit(topic, payload)
    PROVE  NoneLost'
<1> DEFINE text == Normalize(payload)
<1>1. text \in Texts
  BY NormalizeType
<1>2. PICK j \in FirstHit(topic, text) :
          /\ pending' = Pop(topic, text, j)
          /\ uses' = [uses EXCEPT ![pending[Candidates[<<topic, text>>][j]].pub] = @ + 1]
          /\ UNCHANGED <<now, published>>
  BY DEF LookupHit
<1> DEFINE k == Candidates[<<topic, text>>][j]
<1> SUFFICES ASSUME Fresh'
             PROVE  uses'[Newest'] + Cardinality(Remaining(Newest)') = Cardinality(NewestKeys')
  BY DEF NoneLost
<1>3. Fresh /\ Newest' = Newest /\ NewestKeys' = NewestKeys
  <2>1. now' \in Nat /\ now' >= now
    BY <1>2 DEF KeptInv, IInv, TypeOK
  <2> QED BY <1>2, <2>1, FreshBefore DEF KeptInv
<1>4. k \in Keys /\ pending[k] # None /\ pending[k].pub = Newest /\ Newest \in DOMAIN published
  BY <1>1, <1>3, FirstHitEntry, FreshEntries DEF KeptInv
<1>5. uses'[Newest] = uses[Newest] + 1 /\ uses[Newest] \in Nat
  BY <1>2, <1>4 DEF KeptInv, IInv, TypeOK
<1>6. j \in DOMAIN Candidates[<<topic, text>>] /\ j \in 1 .. j
  <2>1. j \in DOMAIN Candidates[<<topic, text>>]
    BY DEF FirstHit
  <2>2. j \in 1 .. 2 * Len(Related[topic])
    BY <1>1, <2>1 DEF Candidates, Keys
  <2> QED BY <2>1, <2>2, RelatedShape
<1>7. pending'[k] = None
  BY <1>2, <1>4, <1>6 DEF Pop
<1>8. \A key \in Keys : key # k => pending'[key] = pending[key]
  BY <1>1, <1>2, <1>3, PopTakesOne DEF KeptInv
<1>9. Remaining(Newest)' = Remaining(Newest) \ {k} /\ k \in Remaining(Newest)
  BY <1>3, <1>4, <1>7, <1>8 DEF Remaining
<1>10. IsFiniteSet(Remaining(Newest)) /\ Cardinality(Remaining(Newest)) \in Nat
  BY RemainingFinite DEF KeptInv
<1> HIDE DEF k
<1>11. Cardinality(Remaining(Newest) \ {k}) = Cardinality(Remaining(Newest)) - 1
  BY <1>9, <1>10, FS_RemoveElement
<1>12. uses[Newest] + Cardinality(Remaining(Newest)) = Cardinality(NewestKeys)
  BY <1>3 DEF KeptInv, NoneLost
<1> QED BY <1>3, <1>5, <1>9, <1>10, <1>11, <1>12

(* Entries that nothing takes stay.                                         *)
LEMMA StayKept ==
    ASSUME KeptInv, UNCHANGED <<published, uses>>, now' \in Nat, now' >= now,
           Fresh => \A key \in Keys : pending'[key] = pending[key]
    PROVE  NoneLost'
<1> SUFFICES ASSUME Fresh'
             PROVE  uses'[Newest'] + Cardinality(Remaining(Newest)') = Cardinality(NewestKeys')
  BY DEF NoneLost
<1>1. Fresh /\ Newest' = Newest /\ NewestKeys' = NewestKeys
  BY FreshBefore DEF KeptInv
<1>2. Remaining(Newest)' = Remaining(Newest)
  BY <1>1 DEF Remaining
<1> QED BY <1>1, <1>2 DEF KeptInv, NoneLost

(* Every step keeps the entries of a fresh newest publish accounted for.    *)
LEMMA NextKept == KeptInv /\ [Next]_vars => KeptInv'
<1> SUFFICES ASSUME KeptInv, [Next]_vars PROVE KeptInv'
  OBVIOUS
<1>1. IInv'
  BY NextIInv DEF KeptInv
<1>2. ASSUME NEW topic \in Topics, NEW payload \in Raw \cup {None}, Register(topic, payload)
      PROVE  NoneLost'
  BY <1>2, RegisterKept DEF KeptInv
<1>3. ASSUME NEW topic \in Topics, NEW payload \in Raw \cup {None}, LookupHit(topic, payload)
      PROVE  NoneLost'
  BY <1>3, LookupHitKept
<1>4. ASSUME NEW topic \in Topics, NEW payload \in Raw \cup {None}, LookupMiss(topic, payload)
      PROVE  NoneLost'
  <2>1. now \in Nat
    BY DEF KeptInv, IInv, TypeOK
  <2>2. Fresh => \A key \in Keys : pending'[key] = pending[key]
    BY <1>4, NormalizeType, MissTakesNone DEF LookupMiss, KeptInv
  <2> QED BY <1>4, <2>1, <2>2, StayKept DEF LookupMiss
<1>5. CASE Tick \/ RegisterUntraced \/ UNCHANGED vars
  <2>1. now' \in Nat /\ now' >= now /\ UNCHANGED <<pending, published, uses>>
    BY <1>5 DEF KeptInv, IInv, TypeOK, Tick, RegisterUntraced, vars
  <2>2. NoneLost'
    BY <2>1, StayKept
  <2> QED BY <1>1, <2>2 DEF KeptInv
<1> QED BY <1>1, <1>2, <1>3, <1>4, <1>5 DEF Next, KeptInv

(* So they always are.                                                      *)
LEMMA KeptInvariance == Spec => []KeptInv
<1> QED BY InitKept, NextKept, PTL DEF Spec

(* A related message finds the newest publish if an entry of it remains     *)
(* under the message's payload or the wildcard.                             *)
LEMMA RemainingIsFound ==
    ASSUME IInv, Fresh, NEW topic \in RelatedSet[published[Newest].topic], NEW text \in Texts,
           NEW k \in Remaining(Newest), k[2] \in {text, Empty}
    PROVE  Answers(topic, text) = {Newest}
<1>1. Newest \in DOMAIN published /\ published[Newest].topic \in Topics
  BY PublishedType DEF Fresh, Newest, IInv, TypeOK
<1>2. topic \in Topics /\ RelatedSet[topic] = RelatedSet[published[Newest].topic]
  BY <1>1, RelatedShared, RelatedSelf
<1>3. k \in Keys /\ pending[k] # None /\ k[1] \in RelatedSet[topic]
  BY <1>2 DEF Remaining, IInv, TableOfNewest, RegisterKeys, Newest
<1>4. PICK j \in DOMAIN Candidates[<<topic, text>>] : Candidates[<<topic, text>>][j] = <<k[1], k[2]>>
  BY <1>2, <1>3, CandidatesReach
<1>5. k = <<k[1], k[2]>>
  BY <1>3 DEF Keys
<1>6. FirstHit(topic, text) # {}
  BY <1>2, <1>3, <1>4, <1>5, FreshIsHit
<1>7. \A h \in FirstHit(topic, text) : pending[Candidates[<<topic, text>>][h]].pub = Newest
  BY <1>2, FirstHitEntry, FreshEntries
<1> QED BY <1>6, <1>7 DEF Answers

(* While it is fresh and has been matched less often than it has related    *)
(* topics - or twice as often, for messages with its own payload - the      *)
(* newest publish is found by every related message.                        *)
THEOREM NewestIsFound == Spec => []Findable
<1>1. KeptInv => Findable
  <2> SUFFICES ASSUME KeptInv, Fresh,
                      NEW topic \in RelatedSet[published[Newest].topic], NEW text \in Texts,
                      uses[Newest] < (IF text = published[Newest].payload /\ text # Empty
                                      THEN 2 * Cardinality(RelatedSet[published[Newest].topic])
                                      ELSE Cardinality(RelatedSet[published[Newest].topic]))
               PROVE  Answers(topic, text) = {Newest}
    BY DEF Findable, Fresh
  <2> DEFINE related == RelatedSet[published[Newest].topic]
             own     == published[Newest].payload
  <2>1. Newest \in DOMAIN published
    BY DEF Fresh, Newest, KeptInv, IInv, TypeOK
  <2>2. published[Newest].topic \in Topics /\ uses[Newest] \in Nat
    BY <2>1, PublishedType DEF KeptInv, IInv, TypeOK
  <2>3. IsFiniteSet(related) /\ Cardinality(related) \in Nat
    BY <2>2, RelatedFinite
  <2>4. uses[Newest] + Cardinality(Remaining(Newest)) = Cardinality(NewestKeys)
    BY DEF KeptInv, NoneLost
  <2>5. IsFiniteSet(Remaining(Newest)) /\ Cardinality(Remaining(Newest)) \in Nat
    BY RemainingFinite DEF KeptInv
  <2>6. ASSUME Remaining(Newest) \cap (related \X {text, Empty}) # {}
        PROVE  Answers(topic, text) = {Newest}
    BY <2>6, RemainingIsFound DEF KeptInv
  <2>7. Remaining(Newest) \subseteq related \X {own, Empty}
    BY DEF Remaining, KeptInv, IInv, TableOfNewest, RegisterKeys, Newest
  <2>8. CASE own = Empty \/ text = own
    <3>1. Cardinality(NewestKeys) = (IF own = Empty THEN 1 ELSE 2) * Cardinality(related)
      BY <2>2, KeysOfPublish DEF NewestKeys
    <3>2. Cardinality(Remaining(Newest)) # 0
      BY <2>2, <2>3, <2>4, <2>5, <2>8, <3>1
    <3>3. Remaining(Newest) # {}
      BY <3>2, FS_EmptySet
    <3>4. related \X {own, Empty} \subseteq related \X {text, Empty}
      BY <2>8
    <3> QED BY <2>6, <2>7, <3>3, <3>4
  <2>9. CASE own # Empty /\ text # own
    <3>1. Cardinality(NewestKeys) = 2 * Cardinality(related)
      BY <2>2, <2>9, KeysOfPublish DEF NewestKeys
    <3>2. /\ IsFiniteSet(related \X {own})
          /\ Cardinality(related \X {own}) = Cardinality(related)
      <4>1. IsFiniteSet({own}) /\ Cardinality({own}) = 1
        BY FS_Singleton
      <4> QED BY <2>3, <4>1, FS_Product
    <3>3. ~(Remaining(Newest) \subseteq related \X {own})
      <4>1. Cardinality(Remaining(Newest)) > Cardinality(related)
        BY <2>2, <2>3, <2>4, <2>5, <2>9, <3>1
      <4> QED BY <2>3, <2>5, <3>2, <4>1, FS_Subset
    <3> QED BY <2>6, <2>7, <3>3
  <2> QED BY <2>8, <2>9
<1> QED BY <1>1, KeptInvariance, PTL
=============================================================================
