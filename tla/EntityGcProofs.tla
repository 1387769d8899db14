--------------------------- MODULE EntityGcProofs ---------------------------
(***************************************************************************)
(* Proofs about EntityGc, for projects of every size and every graph of    *)
(* references.                                                             *)
(***************************************************************************)
EXTENDS EntityGc, FunctionTheorems, SequenceTheorems, TLAPS

-----------------------------------------------------------------------------
(* Sequences. *)

\* What is in a sequence is at the place that PlaceIn finds.
LEMMA PlaceInIsPlace ==
    ASSUME NEW s, NEW e, e \in Members(s)
    PROVE  PlaceIn(s, e) \in DOMAIN s /\ s[PlaceIn(s, e)] = e
  BY DEF Members, PlaceIn

\* Append adds one place and one member, and moves nothing.
LEMMA AppendFacts ==
    ASSUME NEW S, NEW s \in Seq(S), NEW x \in S
    PROVE  /\ Append(s, x) \in Seq(S)
           /\ Len(Append(s, x)) = Len(s) + 1
           /\ DOMAIN Append(s, x) = DOMAIN s \cup {Len(s) + 1}
           /\ Len(s) + 1 \notin DOMAIN s
           /\ Append(s, x)[Len(s) + 1] = x
           /\ \A i \in DOMAIN s : Append(s, x)[i] = s[i]
           /\ Members(Append(s, x)) = Members(s) \cup {x}
<1>1. /\ Append(s, x) \in Seq(S)
      /\ Len(Append(s, x)) = Len(s) + 1
      /\ Append(s, x)[Len(s) + 1] = x
      /\ \A i \in DOMAIN s : Append(s, x)[i] = s[i]
  OBVIOUS
<1>2. DOMAIN Append(s, x) = DOMAIN s \cup {Len(s) + 1} /\ Len(s) + 1 \notin DOMAIN s
  OBVIOUS
<1>3. Members(Append(s, x)) = Members(s) \cup {x}
  BY <1>1, <1>2 DEF Members
<1>4. QED
  BY <1>1, <1>2, <1>3

\* In a concatenation the second sequence follows the first.
LEMMA ConcatFacts ==
    ASSUME NEW S, NEW s \in Seq(S), NEW t \in Seq(S)
    PROVE  /\ s \o t \in Seq(S)
           /\ Len(s \o t) = Len(s) + Len(t)
           /\ \A i \in DOMAIN s : i \in DOMAIN (s \o t) /\ (s \o t)[i] = s[i]
           /\ \A i \in DOMAIN t : i + Len(s) \in DOMAIN (s \o t) /\ (s \o t)[i + Len(s)] = t[i]
           /\ \A i \in DOMAIN (s \o t) :
                i \in DOMAIN s \/ (i - Len(s) \in DOMAIN t /\ i > Len(s))
  OBVIOUS

-----------------------------------------------------------------------------
(* Entities and references before the collection ends. *)

\* An entity is a pool and a number.
LEMMA EntityFacts ==
    ASSUME NEW e \in Entities
    PROVE  e[1] \in Pools /\ e[2] \in Nat /\ e = <<e[1], e[2]>>
  BY DEF Entities

\* Until the collection ends the entity at a place of a pool is named by that place,
LEMMA Placed ==
    ASSUME StoreInv, phase # "collected", NEW p \in Pools, NEW i \in DOMAIN store[p]
    PROVE  /\ store[p][i] = <<p, i>>
           /\ <<p, i>> \in DOMAIN refs
           /\ <<p, i>> \in Entities
           /\ i \in Nat
<1>1. store[p] \in Seq(Entities) /\ store[p][i] = <<p, i>>
  BY DEF StoreInv
<1>2. <<p, i>> \in Members(store[p])
  BY <1>1 DEF Members
<1>3. QED
  BY <1>1, <1>2 DEF StoreInv, Live, Entities

\* and every entity is at the place that names it.
LEMMA Found ==
    ASSUME StoreInv, phase # "collected", NEW e \in DOMAIN refs
    PROVE  /\ e[1] \in Pools /\ e[2] \in DOMAIN store[e[1]] /\ e = <<e[1], e[2]>>
           /\ e \in Members(store[e[1]])
           /\ store[e[1]][e[2]] = e
<1>1. e \in Entities
  BY DEF StoreInv
<1>2. PICK p \in Pools : e \in Members(store[p])
  BY DEF StoreInv, Live
<1>3. PICK i \in DOMAIN store[p] : store[p][i] = e
  BY <1>2 DEF Members
<1>4. e = <<p, i>>
  BY <1>3 DEF StoreInv
<1>5. QED
  BY <1>2, <1>3, <1>4

\* The fields of a reference that an entity holds.
LEMMA RefFacts ==
    ASSUME StoreInv, NEW x \in DOMAIN refs, NEW i \in DOMAIN refs[x]
    PROVE  /\ refs[x] \in Seq(Reference) /\ refs[x][i] \in Reference /\ i \in Nat
           /\ refs[x][i].pool \in Pools /\ refs[x][i].at \in Nat /\ refs[x][i].of \in Entities
<1>1. refs[x] \in Seq(Reference)
  BY DEF StoreInv
<1>2. refs[x][i] \in Reference /\ i \in Nat
  BY <1>1
<1>3. QED
  BY <1>1, <1>2 DEF Reference

\* What the client adds: a reference that denotes what it refers to.
GoodRef(r) ==
    /\ r \in Reference
    /\ r.of \in DOMAIN refs /\ r.of[1] = r.pool
    /\ r.role = "overcall" <=> r.pool = "overload"
    /\ r.at \in DOMAIN store[r.pool]
    /\ Deref(r) = r.of

\* A reference to the entity at a place is one.
LEMMA RefToIsGood ==
    ASSUME StoreInv, phase # "collected", NEW role \in Roles, NEW pool \in Pools,
           NEW at \in DOMAIN store[pool], role = "overcall" <=> pool = "overload"
    PROVE  GoodRef(RefTo(role, pool, at)) /\ RefTo(role, pool, at).role = role
           /\ RefTo(role, pool, at).pool = pool
<1>1. store[pool][at] = <<pool, at>> /\ <<pool, at>> \in DOMAIN refs /\ at \in Nat
      /\ <<pool, at>> \in Entities
  BY Placed
<1>2. QED
  BY <1>1 DEF GoodRef, RefTo, Reference, Deref

\* Such a reference is at the place of what it denotes.
LEMMA PlaceOfDenoted ==
    ASSUME StoreInv, phase # "collected", NEW r, r.pool \in Pools,
           r.at \in DOMAIN store[r.pool], Deref(r) = r.of
    PROVE  r.of = <<r.pool, r.at>>
  BY Placed DEF Deref

-----------------------------------------------------------------------------
(* The client builds a project. *)

\* A list of such references, a parameter first if there is one.
GoodRefs(rs) ==
    /\ rs \in Seq(Reference)
    /\ \A i \in DOMAIN rs : GoodRef(rs[i]) /\ (rs[i].role = "param" => i = 1)

\* A new entity has a place of its own, and those that exist stay as they are.
LEMMA AddFacts ==
    ASSUME IInv, phase = "mutator", phase' = phase, NEW pool \in Pools, NEW rs, GoodRefs(rs),
           Add(pool, rs)
    PROVE  LET e == <<pool, Len(store[pool]) + 1>> IN
           /\ e \in Entities /\ e \notin DOMAIN refs
           /\ DOMAIN refs' = DOMAIN refs \cup {e} /\ refs'[e] = rs
           /\ \A x \in DOMAIN refs : refs'[x] = refs[x]
           /\ store' = [store EXCEPT ![pool] = Append(@, e)]
           /\ Len(store'[pool]) = Len(store[pool]) + 1
           /\ \A p \in Pools : \A i \in DOMAIN store[p] :
                i \in DOMAIN store'[p] /\ store'[p][i] = store[p][i]
           /\ \A p \in Pools : \A i \in DOMAIN store'[p] : store'[p][i] = <<p, i>>
           /\ \A p \in Pools : store'[p] \in Seq(Entities)
           /\ store' \in [Pools -> Seq(Entities)]
           /\ Live' = Live \cup {e}
<1> DEFINE n == Len(store[pool]) + 1
           e == <<pool, n>>
<1>1. /\ store \in [Pools -> Seq(Entities)] /\ StoreInv /\ store[pool] \in Seq(Entities)
      /\ phase # "collected"
  BY DEF IInv, StoreInv
<1>2. n \in Nat /\ n \notin DOMAIN store[pool] /\ e \in Entities
  BY <1>1 DEF Entities
<1>3. e \notin DOMAIN refs
  BY <1>1, <1>2, Found
<1>4. store' = [store EXCEPT ![pool] = Append(@, e)]
      /\ refs' = [x \in DOMAIN refs \cup {e} |-> IF x = e THEN rs ELSE refs[x]]
  BY DEF Add
<1>5. /\ store'[pool] = Append(store[pool], e)
      /\ \A p \in Pools : p # pool => store'[p] = store[p]
      /\ DOMAIN store' = Pools
  BY <1>1, <1>4
<1>6. /\ Append(store[pool], e) \in Seq(Entities)
      /\ Len(Append(store[pool], e)) = n
      /\ DOMAIN Append(store[pool], e) = DOMAIN store[pool] \cup {n}
      /\ Append(store[pool], e)[n] = e
      /\ \A i \in DOMAIN store[pool] : Append(store[pool], e)[i] = store[pool][i]
      /\ Members(Append(store[pool], e)) = Members(store[pool]) \cup {e}
  <2>1. n = Len(store[pool]) + 1
    OBVIOUS
  <2> HIDE DEF e, n
  <2>2. QED
    BY <1>1, <1>2, <2>1, AppendFacts
<1> HIDE DEF e, n
<1>7. \A p \in Pools : store'[p] \in Seq(Entities)
  BY <1>1, <1>5, <1>6
<1>8. store' \in [Pools -> Seq(Entities)]
  BY <1>1, <1>4, <1>6
<1>9. \A p \in Pools : \A i \in DOMAIN store[p] :
        i \in DOMAIN store'[p] /\ store'[p][i] = store[p][i]
  BY <1>5, <1>6
<1>10. \A p \in Pools : \A i \in DOMAIN store'[p] : store'[p][i] = <<p, i>>
  <2>1. \A p \in Pools : \A i \in DOMAIN store[p] : store[p][i] = <<p, i>>
    BY <1>1 DEF StoreInv
  <2>2. e = <<pool, n>>
    BY DEF e
  <2>3. SUFFICES ASSUME NEW p \in Pools, NEW i \in DOMAIN store'[p]
                 PROVE  store'[p][i] = <<p, i>>
    OBVIOUS
  <2>4. CASE p # pool
    BY <1>5, <2>1, <2>4
  <2>5. CASE p = pool /\ i = n
    BY <1>5, <1>6, <2>2, <2>5
  <2>6. CASE p = pool /\ i # n
    <3>1. i \in DOMAIN store[pool] /\ store'[p][i] = store[pool][i]
      BY <1>5, <1>6, <2>6
    <3>2. QED
      BY <2>1, <2>6, <3>1
  <2>7. QED
    BY <2>4, <2>5, <2>6
<1>11. Live' = Live \cup {e}
  <2>1. Members(store'[pool]) = Members(store[pool]) \cup {e}
    BY <1>5, <1>6
  <2>2. \A p \in Pools : p # pool => Members(store'[p]) = Members(store[p])
    BY <1>5
  <2>3. QED
    BY <2>1, <2>2 DEF Live
<1>12. DOMAIN refs' = DOMAIN refs \cup {e} /\ refs'[e] = rs /\ \A x \in DOMAIN refs : refs'[x] = refs[x]
  BY <1>3, <1>4
<1>13. QED
  BY <1>2, <1>3, <1>4, <1>5, <1>6, <1>7, <1>8, <1>9, <1>10, <1>11, <1>12 DEF e, n

\* What a new entity leaves of the invariant, the tables of types apart.
LEMMA AddInvariant ==
    ASSUME IInv, phase = "mutator", NEW pool \in Pools, NEW rs, GoodRefs(rs), Add(pool, rs),
           UNCHANGED <<chosen, phase, stack, client, seen, retraced>>
    PROVE  /\ StoreInv' /\ ChosenInv' /\ RefsInv' /\ MutatorInv' /\ StackInv' /\ TracingInv'
           /\ ReferencesFollow' /\ SurvivorsExact'
           /\ Fits(store, refs)' /\ (\A p \in Pools : Members(chosen[p]) \subseteq Members(store[p]))'
<1> DEFINE e == <<pool, Len(store[pool]) + 1>>
<1>1. /\ e \in Entities /\ e \notin DOMAIN refs
      /\ DOMAIN refs' = DOMAIN refs \cup {e} /\ refs'[e] = rs
      /\ \A x \in DOMAIN refs : refs'[x] = refs[x]
      /\ \A p \in Pools : \A i \in DOMAIN store[p] :
            i \in DOMAIN store'[p] /\ store'[p][i] = store[p][i]
      /\ \A p \in Pools : \A i \in DOMAIN store'[p] : store'[p][i] = <<p, i>>
      /\ store' \in [Pools -> Seq(Entities)]
      /\ Live' = Live \cup {e}
  BY AddFacts
<1> HIDE DEF e
<1>2. /\ phase' = "mutator" /\ phase # "collected" /\ DOMAIN refs = Live
      /\ refs \in [DOMAIN refs -> Seq(Reference)] /\ DOMAIN refs \subseteq Entities
      /\ chosen = [p \in Pools |-> <<>>] /\ chosen' = chosen
      /\ stack = <<>> /\ stack' = <<>> /\ client' = {} /\ seen' = {} /\ ~retraced'
  BY DEF IInv, StoreInv, MutatorInv
<1>3. StoreInv'
  <2>1. refs' \in [DOMAIN refs' -> Seq(Reference)]
    <3>1. \A x \in DOMAIN refs' : refs'[x] \in Seq(Reference)
      BY <1>1, <1>2 DEF GoodRefs
    <3>2. refs' = [x \in DOMAIN refs' |-> refs'[x]]
      BY DEF Add
    <3>3. QED
      BY <3>1, <3>2
  <2>2. chosen' \in [Pools -> Seq(Entities)]
    BY <1>2 DEF IInv, StoreInv
  <2>3. QED
    BY <1>1, <1>2, <2>1, <2>2 DEF StoreInv, IInv
<1>4. ChosenInv'
  <2>1. chosen'.overload = <<>>
    BY <1>2 DEF Pools
  <2>2. \A p \in Pools : chosen'[p] = <<>>
    BY <1>2
  <2>3. QED
    BY <2>1, <2>2 DEF ChosenInv, Members
<1>5. \A i \in DOMAIN rs : GoodRef(rs[i]) /\ (rs[i].role = "param" => i = 1) /\ rs[i].pool \in Pools
  BY DEF GoodRefs, GoodRef, Reference
<1>6. RefsInv'
  <2>1. SUFFICES ASSUME NEW x \in DOMAIN refs', NEW i \in DOMAIN refs'[x]
                 PROVE  LET r == refs'[x][i] IN
                        /\ r.of \in DOMAIN refs' /\ r.of[1] = r.pool
                        /\ r.role = "overcall" <=> r.pool = "overload"
                        /\ r.role = "param" => i = 1
                        /\ r.at \in DOMAIN store'[r.pool]
    BY DEF RefsInv
  <2>2. CASE x = e
    BY <1>1, <1>5, <2>2 DEF GoodRef
  <2>3. CASE x # e
    <3>1. x \in DOMAIN refs /\ refs'[x] = refs[x]
      BY <1>1, <2>3
    <3>2. refs[x][i].pool \in Pools
      BY <2>1, <3>1, RefFacts DEF IInv
    <3>3. LET r == refs[x][i] IN
          /\ r.of \in DOMAIN refs /\ r.of[1] = r.pool
          /\ r.role = "overcall" <=> r.pool = "overload"
          /\ r.role = "param" => i = 1
          /\ r.at \in DOMAIN store[r.pool]
      BY <1>2, <2>1, <3>1 DEF IInv, RefsInv
    <3>4. QED
      BY <1>1, <3>1, <3>2, <3>3
  <2>4. QED
    BY <2>2, <2>3
<1>7. \A x \in DOMAIN refs' : \A i \in DOMAIN refs'[x] : Deref(refs[x][i])' = refs'[x][i].of
  <2>1. SUFFICES ASSUME NEW x \in DOMAIN refs', NEW i \in DOMAIN refs'[x]
                 PROVE  store'[refs'[x][i].pool][refs'[x][i].at] = refs'[x][i].of
    BY DEF Deref
  <2>2. CASE x = e
    BY <1>1, <1>5, <2>2 DEF GoodRef, Deref
  <2>3. CASE x # e
    <3>1. x \in DOMAIN refs /\ refs'[x] = refs[x]
      BY <1>1, <2>3
    <3>2. refs[x][i].pool \in Pools
      BY <2>1, <3>1, RefFacts DEF IInv
    <3>3. /\ refs[x][i].at \in DOMAIN store[refs[x][i].pool]
          /\ store[refs[x][i].pool][refs[x][i].at] = refs[x][i].of
      BY <1>2, <2>1, <3>1 DEF IInv, RefsInv, MutatorInv, Deref
    <3>4. QED
      BY <1>1, <3>1, <3>2, <3>3
  <2>4. QED
    BY <2>2, <2>3
<1>8. MutatorInv'
  BY <1>2, <1>7 DEF MutatorInv
<1>9. StackInv'
  <2>1. <<>> \in Seq(Tasks)
    OBVIOUS
  <2>2. QED
    BY <1>2, <2>1 DEF StackInv
<1>10. TracingInv' /\ ReferencesFollow' /\ SurvivorsExact'
  BY <1>2 DEF TracingInv, ReferencesFollow, SurvivorsExact
<1>11. Fits(store, refs)'
  BY DEF Add
<1>12. (\A p \in Pools : Members(chosen[p]) \subseteq Members(store[p]))'
  BY <1>4 DEF ChosenInv
<1>13. QED
  BY <1>3, <1>4, <1>6, <1>8, <1>9, <1>10, <1>11, <1>12

\* References that all denote what they refer to.
Faithful(rs) ==
    \A i \in DOMAIN rs :
        /\ rs[i].pool \in Pools
        /\ rs[i].at \in DOMAIN store[rs[i].pool]
        /\ Deref(rs[i]) = rs[i].of

\* Lists of such references are equal by what they denote only if they are by places;
LEMMA DenotedGivesShape ==
    ASSUME StoreInv, phase # "collected", NEW rs, NEW qs, Faithful(rs), Faithful(qs),
           Denoted(rs) = Denoted(qs)
    PROVE  Shape(rs) = Shape(qs)
<1>1. DOMAIN rs = DOMAIN qs
  BY DEF Denoted
<1>2. ASSUME NEW i \in DOMAIN rs PROVE rs[i].role = qs[i].role /\ rs[i].at = qs[i].at
  <2>1. <<rs[i].role, rs[i].of>> = <<qs[i].role, qs[i].of>>
    BY <1>1 DEF Denoted
  <2>2. rs[i].of = <<rs[i].pool, rs[i].at>>
    BY PlaceOfDenoted DEF Faithful
  <2>3. qs[i].of = <<qs[i].pool, qs[i].at>>
    BY <1>1, PlaceOfDenoted DEF Faithful
  <2>4. rs[i].role = qs[i].role /\ <<rs[i].pool, rs[i].at>> = <<qs[i].pool, qs[i].at>>
    <3>1. rs[i].role = qs[i].role /\ rs[i].of = qs[i].of
      BY <2>1
    <3>2. QED
      BY <2>2, <2>3, <3>1
  <2>5. QED
    BY ONLY <2>4
<1>3. QED
  BY <1>1, <1>2 DEF Shape

\* and equal by places only if they are by what they denote, if all are to types.
LEMMA ShapeGivesDenoted ==
    ASSUME StoreInv, phase # "collected", NEW rs, NEW qs, Faithful(rs), Faithful(qs),
           \A i \in DOMAIN rs : rs[i].pool = "type", \A i \in DOMAIN qs : qs[i].pool = "type",
           Shape(rs) = Shape(qs)
    PROVE  Denoted(rs) = Denoted(qs)
<1>1. DOMAIN rs = DOMAIN qs
  BY DEF Shape
<1>2. ASSUME NEW i \in DOMAIN rs PROVE rs[i].role = qs[i].role /\ rs[i].of = qs[i].of
  <2>1. <<rs[i].role, rs[i].at>> = <<qs[i].role, qs[i].at>>
    BY <1>1 DEF Shape
  <2>2. rs[i].of = <<rs[i].pool, rs[i].at>>
    BY PlaceOfDenoted DEF Faithful
  <2>3. qs[i].of = <<qs[i].pool, qs[i].at>>
    BY <1>1, PlaceOfDenoted DEF Faithful
  <2>4. QED
    BY <1>1, <2>1, <2>2, <2>3
<1>3. QED
  BY <1>1, <1>2 DEF Denoted

\* Before a collection every list of references is faithful.
LEMMA MutatorFaithful ==
    ASSUME StoreInv, RefsInv, MutatorInv, phase = "mutator", NEW x \in DOMAIN refs
    PROVE  Faithful(refs[x])
  BY RefFacts DEF Faithful, RefsInv, MutatorInv

\* The types in the store, by their numbers.
LEMMA TypePlaces ==
    ASSUME StoreInv, TypesInv, phase # "collected"
    PROVE  /\ DOMAIN kind = Types
           /\ \A n \in DOMAIN kind : store.type[n] = <<"type", n>> /\ <<"type", n>> \in DOMAIN refs
           /\ Len(kind) \in Nat /\ DOMAIN kind = 1..Len(kind)
           /\ \A n \in DOMAIN kind : kind[n] \in {"dtype", "pack", "pointer", "function"}
<1>1. "type" \in Pools /\ store["type"] \in Seq(Entities)
  BY DEF StoreInv, Pools
<1>2. DOMAIN kind = 1..Len(kind) /\ Len(kind) \in Nat
      /\ \A n \in DOMAIN kind : kind[n] \in {"dtype", "pack", "pointer", "function"}
  BY DEF TypesInv
<1>3. DOMAIN kind = DOMAIN store["type"]
  BY <1>1, <1>2 DEF TypesInv
<1>4. \A n \in DOMAIN store["type"] : store["type"][n] = <<"type", n>> /\ <<"type", n>> \in DOMAIN refs
  BY <1>1, Placed
<1>5. QED
  BY <1>2, <1>3, <1>4 DEF Types

\* What refers to types only is found by their present places exactly when they
\* are all where it refers to.
LEMMA FoundWhereTheyAre ==
    ASSUME \A i, j \in DOMAIN store.type : store.type[i] = store.type[j] => i = j,
           NEW t, refs[t] \in Seq(Reference),
           \A i \in DOMAIN refs[t] : refs[t][i].pool = "type" /\ refs[t][i].of \in Members(store.type)
    PROVE  Shape(refs[t]) = Shape(Sought(t)) <=> \A i \in DOMAIN refs[t] : Resolves(refs[t][i])
<1>1. DOMAIN Sought(t) = DOMAIN refs[t]
  BY DEF Sought
<1>2. ASSUME NEW i \in DOMAIN refs[t]
      PROVE  /\ Sought(t)[i].role = refs[t][i].role
             /\ refs[t][i].at = Sought(t)[i].at <=> Resolves(refs[t][i])
  <2>1. PICK r : r = refs[t][i]
    OBVIOUS
  <2>2. r \in Reference /\ r.pool = "type" /\ r.of \in Members(store.type)
    BY <2>1
  <2>3. Sought(t)[i] = [r EXCEPT !.at = PlaceIn(store.type, r.of)]
    BY <2>1 DEF Sought
  <2>4. Sought(t)[i].role = r.role /\ Sought(t)[i].at = PlaceIn(store.type, r.of)
    BY <2>2, <2>3 DEF Reference
  <2>5. /\ PlaceIn(store.type, r.of) \in DOMAIN store.type
        /\ store.type[PlaceIn(store.type, r.of)] = r.of
    BY <2>2, PlaceInIsPlace
  <2>6. Resolves(r) <=> r.at \in DOMAIN store.type /\ store.type[r.at] = r.of
    BY <2>2 DEF Resolves, Deref
  <2>7. r.at = PlaceIn(store.type, r.of) <=> Resolves(r)
    BY <2>5, <2>6
  <2>8. QED
    BY <2>1, <2>4, <2>7
<1>3. ASSUME Shape(refs[t]) = Shape(Sought(t)), NEW i \in DOMAIN refs[t]
      PROVE  refs[t][i].at = Sought(t)[i].at
  <2>1. <<refs[t][i].role, refs[t][i].at>> = <<Sought(t)[i].role, Sought(t)[i].at>>
    BY <1>1, <1>3 DEF Shape
  <2>2. QED
    BY ONLY <2>1
<1>4. ASSUME \A i \in DOMAIN refs[t] : refs[t][i].at = Sought(t)[i].at
      PROVE  Shape(refs[t]) = Shape(Sought(t))
  BY <1>1, <1>2, <1>4 DEF Shape
<1>5. QED
  BY <1>2, <1>3, <1>4

\* What Canonical follows from: no two packs and no two pointers of the table
\* hold the same places,
Distinct ==
    \A p, q \in compounds :
        LET t == store.type[p]
            u == store.type[q]
        IN p # q /\ kind[t[2]] = kind[u[2]] /\ kind[t[2]] # "function" =>
                Shape(refs[t]) # Shape(refs[u])

\* and every one of them is made of types there are, which pointers still denote.
MadeOfTypes ==
    /\ \A i, j \in DOMAIN store.type : store.type[i] = store.type[j] => i = j
    /\ \A p \in compounds :
        LET t == store.type[p] IN kind[t[2]] # "function" =>
            /\ kind[t[2]] \in {"pack", "pointer"} /\ refs[t] \in Seq(Reference)
            /\ \A i \in DOMAIN refs[t] :
                /\ refs[t][i].pool = "type" /\ refs[t][i].of \in Members(store.type)
                /\ kind[t[2]] = "pointer" => Resolves(refs[t][i])

LEMMA CanonicalTables == Distinct /\ MadeOfTypes => Canonical
<1> SUFFICES ASSUME Distinct, MadeOfTypes, NEW p \in compounds
             PROVE  LET t == store.type[p] IN
                    /\ kind[t[2]] # "function" =>
                        \A q \in Interned(kind[t[2]], refs[t]) : q = p
                    /\ kind[t[2]] = "pointer" => Interned("pointer", Sought(t)) = {p}
                    /\ kind[t[2]] = "pack" =>
                        (p \in Interned("pack", Sought(t))
                            <=> \A i \in DOMAIN refs[t] : Resolves(refs[t][i]))
  BY DEF Canonical
<1> DEFINE t == store.type[p]
<1>1. ASSUME kind[t[2]] # "function", NEW rs, Shape(rs) = Shape(refs[t]),
             NEW q \in Interned(kind[t[2]], rs)
      PROVE  q = p
  BY <1>1 DEF Distinct, Interned
<1>2. ASSUME kind[t[2]] # "function"
      PROVE  /\ kind[t[2]] \in {"pack", "pointer"} /\ refs[t] \in Seq(Reference)
             /\ \A i \in DOMAIN refs[t] :
                  /\ refs[t][i].pool = "type" /\ refs[t][i].of \in Members(store.type)
                  /\ kind[t[2]] = "pointer" => Resolves(refs[t][i])
  BY <1>2 DEF MadeOfTypes
<1>3. ASSUME kind[t[2]] # "function"
      PROVE  Shape(refs[t]) = Shape(Sought(t)) <=> \A i \in DOMAIN refs[t] : Resolves(refs[t][i])
  <2>1. \A i, j \in DOMAIN store.type : store.type[i] = store.type[j] => i = j
    BY DEF MadeOfTypes
  <2> HIDE DEF t
  <2>2. QED
    BY <1>2, <1>3, <2>1, FoundWhereTheyAre
<1>4. ASSUME kind[t[2]] = "pointer" PROVE Interned("pointer", Sought(t)) = {p}
  <2>1. Shape(refs[t]) = Shape(Sought(t))
    BY <1>2, <1>3, <1>4
  <2>2. p \in Interned("pointer", Sought(t))
    BY <1>4, <2>1 DEF Interned
  <2>3. \A q \in Interned("pointer", Sought(t)) : q = p
    BY <1>1, <1>4, <2>1
  <2>4. QED
    BY <2>2, <2>3
<1>5. ASSUME kind[t[2]] = "pack"
      PROVE  p \in Interned("pack", Sought(t)) <=> \A i \in DOMAIN refs[t] : Resolves(refs[t][i])
  <2>1. p \in Interned("pack", Sought(t)) <=> Shape(refs[t]) = Shape(Sought(t))
    BY <1>5 DEF Interned
  <2>2. QED
    BY <1>3, <1>5, <2>1
<1>6. QED
  BY <1>1, <1>4, <1>5

\* The same after a step.
LEMMA CanonicalTablesNext == Distinct' /\ MadeOfTypes' => Canonical'
  BY CanonicalTables, PTL

\* The table of compound types is exact, and packs and pointers are unique.
LEMMA MutatorTables ==
    StoreInv /\ RefsInv /\ TypesInv /\ UniqueInv /\ MutatorInv /\ phase = "mutator"
        => CompoundsExact /\ Canonical
<1> SUFFICES ASSUME StoreInv, RefsInv, TypesInv, UniqueInv, MutatorInv, phase = "mutator"
             PROVE  CompoundsExact /\ Canonical
  OBVIOUS
<1>1. /\ DOMAIN kind = Types
      /\ \A n \in DOMAIN kind : store.type[n] = <<"type", n>> /\ <<"type", n>> \in DOMAIN refs
      /\ \A n \in DOMAIN kind : kind[n] \in {"dtype", "pack", "pointer", "function"}
  BY TypePlaces
<1>2. compounds = {n \in DOMAIN kind : kind[n] # "dtype"}
  BY DEF TypesInv
<1>3. \A n \in DOMAIN kind : store.type[n][2] = n
  <2>1. \A n \in DOMAIN kind : <<"type", n>>[2] = n
    OBVIOUS
  <2>2. QED
    BY <1>1, <2>1
<1>4. CompoundsExact
  BY <1>1, <1>2, <1>3 DEF CompoundsExact
<1>5. ASSUME NEW p \in compounds, NEW q \in compounds, p # q, kind[p] = kind[q],
             kind[p] # "function", Shape(refs[<<"type", p>>]) = Shape(refs[<<"type", q>>])
      PROVE  FALSE
  <2> DEFINE t == <<"type", p>>
             u == <<"type", q>>
  <2>1. /\ kind[p] \in {"pack", "pointer"} /\ p \in DOMAIN kind /\ q \in DOMAIN kind
        /\ t \in DOMAIN refs /\ u \in DOMAIN refs
    BY <1>1, <1>2, <1>5
  <2>2. Faithful(refs[t]) /\ Faithful(refs[u])
    BY <2>1, MutatorFaithful
  <2>3. /\ \A i \in DOMAIN refs[t] : refs[t][i].pool = "type"
        /\ \A i \in DOMAIN refs[u] : refs[u][i].pool = "type"
    BY <1>5, <2>1 DEF TypesInv
  <2>4. Denoted(refs[t]) = Denoted(refs[u])
    BY <1>5, <2>2, <2>3, ShapeGivesDenoted
  <2>5. QED
    BY <1>5, <2>1, <2>4 DEF UniqueInv
<1>6. Distinct
  <2>1. SUFFICES ASSUME NEW p \in compounds, NEW q \in compounds,
                        p # q, kind[store.type[p][2]] = kind[store.type[q][2]],
                        kind[store.type[p][2]] # "function",
                        Shape(refs[store.type[p]]) = Shape(refs[store.type[q]])
                 PROVE  FALSE
    BY DEF Distinct
  <2>2. p \in DOMAIN kind /\ q \in DOMAIN kind
    BY <1>2
  <2>3. /\ store.type[p] = <<"type", p>> /\ store.type[q] = <<"type", q>>
        /\ store.type[p][2] = p /\ store.type[q][2] = q
    BY <1>1, <1>3, <2>2
  <2>4. /\ kind[p] = kind[q] /\ kind[p] # "function"
        /\ Shape(refs[<<"type", p>>]) = Shape(refs[<<"type", q>>])
    BY ONLY <2>1, <2>3
  <2>5. QED
    BY <1>5, <2>1, <2>4
<1>7. MadeOfTypes
  <2>1. \A i, j \in DOMAIN store.type : store.type[i] = store.type[j] => i = j
    BY <1>1, <1>3 DEF Types
  <2>2. ASSUME NEW p \in compounds, kind[p] # "function"
        PROVE  LET t == <<"type", p>> IN
               /\ kind[p] \in {"pack", "pointer"} /\ refs[t] \in Seq(Reference)
               /\ \A i \in DOMAIN refs[t] :
                    /\ refs[t][i].pool = "type" /\ refs[t][i].of \in Members(store.type)
                    /\ Resolves(refs[t][i])
    <3> DEFINE t == <<"type", p>>
    <3>1. p \in DOMAIN kind /\ kind[p] \in {"pack", "pointer"} /\ t \in DOMAIN refs
      BY <1>1, <1>2, <2>2
    <3>2. Faithful(refs[t]) /\ refs[t] \in Seq(Reference)
      BY <3>1, MutatorFaithful DEF StoreInv
    <3>3. \A i \in DOMAIN refs[t] : refs[t][i].pool = "type"
      BY <3>1 DEF TypesInv
    <3> HIDE DEF t
    <3>4. ASSUME NEW i \in DOMAIN refs[t]
          PROVE  /\ refs[t][i].pool = "type" /\ refs[t][i].of \in Members(store.type)
                 /\ Resolves(refs[t][i])
      BY <3>2, <3>3 DEF Faithful, Resolves, Deref, Members
    <3>5. QED
      BY <3>1, <3>2, <3>4 DEF t
  <2>3. ASSUME NEW p \in compounds
        PROVE  store.type[p] = <<"type", p>> /\ store.type[p][2] = p
    BY <1>1, <1>2, <1>3
  <2>4. ASSUME NEW p \in compounds, kind[store.type[p][2]] # "function"
        PROVE  LET t == store.type[p] IN
               /\ kind[t[2]] \in {"pack", "pointer"} /\ refs[t] \in Seq(Reference)
               /\ \A i \in DOMAIN refs[t] :
                    /\ refs[t][i].pool = "type" /\ refs[t][i].of \in Members(store.type)
                    /\ Resolves(refs[t][i])
    <3>1. PICK t : t = store.type[p] /\ t = <<"type", p>> /\ t[2] = p
      BY <2>3
    <3>2. /\ kind[t[2]] \in {"pack", "pointer"} /\ refs[t] \in Seq(Reference)
          /\ \A i \in DOMAIN refs[t] :
                /\ refs[t][i].pool = "type" /\ refs[t][i].of \in Members(store.type)
                /\ Resolves(refs[t][i])
      BY <2>2, <2>4, <3>1
    <3>3. QED
      BY <3>1, <3>2
  <2>5. QED
    BY <2>1, <2>4 DEF MadeOfTypes
<1>8. QED
  BY <1>4, <1>6, <1>7, CanonicalTables

\* The same after a step.
LEMMA MutatorTablesNext ==
    StoreInv' /\ RefsInv' /\ TypesInv' /\ UniqueInv' /\ MutatorInv' /\ (phase = "mutator")'
        => CompoundsExact' /\ Canonical'
  BY MutatorTables, PTL

\* A compound type is created only when there is none like it.
LEMMA InternInvariant ==
    ASSUME IInv, NEW k \in {"pack", "pointer", "function"}, NEW rs, GoodRefs(rs), Intern(k, rs),
           k # "function" => \A i \in DOMAIN rs : rs[i].role = PartRole(k) /\ rs[i].pool = "type"
    PROVE  IInv'
<1> DEFINE n == Len(store.type) + 1
           e == <<"type", n>>
<1>1. /\ phase = "mutator" /\ Interned(k, rs) = {} /\ Add("type", rs)
      /\ kind' = Append(kind, k) /\ compounds' = compounds \cup {n}
      /\ UNCHANGED <<chosen, phase, stack, client, seen, retraced>>
      /\ "type" \in Pools
  BY DEF Intern, Pools
<1>2. /\ StoreInv' /\ ChosenInv' /\ RefsInv' /\ MutatorInv' /\ StackInv' /\ TracingInv'
      /\ ReferencesFollow' /\ SurvivorsExact'
      /\ Fits(store, refs)' /\ (\A p \in Pools : Members(chosen[p]) \subseteq Members(store[p]))'
  BY <1>1, AddInvariant
<1>3. /\ e \notin DOMAIN refs /\ refs'[e] = rs
      /\ \A x \in DOMAIN refs : refs'[x] = refs[x]
      /\ Len(store'["type"]) = n /\ Live' = Live \cup {e} /\ DOMAIN refs' = DOMAIN refs \cup {e}
  BY <1>1, AddFacts
<1>4. /\ DOMAIN kind = Types
      /\ \A m \in DOMAIN kind : store.type[m] = <<"type", m>> /\ <<"type", m>> \in DOMAIN refs
      /\ Len(kind) \in Nat /\ DOMAIN kind = 1..Len(kind)
      /\ \A m \in DOMAIN kind : kind[m] \in {"dtype", "pack", "pointer", "function"}
      /\ Len(kind) = Len(store.type)
  BY <1>1, TypePlaces DEF IInv, TypesInv
<1>5. /\ StoreInv /\ RefsInv /\ TypesInv /\ UniqueInv /\ MutatorInv /\ phase # "collected"
      /\ phase' = "mutator"
      /\ compounds = {m \in DOMAIN kind : kind[m] # "dtype"}
  BY <1>1 DEF IInv, TypesInv
<1>6. /\ kind' \in Seq({"dtype", "pack", "pointer", "function"}) /\ Len(kind') = n
      /\ DOMAIN kind' = DOMAIN kind \cup {n} /\ n \notin DOMAIN kind /\ kind'[n] = k
      /\ \A m \in DOMAIN kind : kind'[m] = kind[m]
  BY <1>1, <1>4, <1>5, AppendFacts DEF TypesInv
<1> HIDE DEF n
<1>7. TypesInv'
  <2>1. compounds' = {m \in DOMAIN kind' : kind'[m] # "dtype"}
    BY <1>1, <1>5, <1>6
  <2>2. ASSUME NEW m \in DOMAIN kind', kind'[m] \in {"pack", "pointer"},
               NEW i \in DOMAIN refs'[<<"type", m>>]
        PROVE  /\ refs'[<<"type", m>>][i].role = PartRole(kind'[m])
               /\ refs'[<<"type", m>>][i].pool = "type"
    <3>1. CASE m = n
      BY <1>3, <1>6, <2>2, <3>1
    <3>2. CASE m # n
      BY <1>3, <1>4, <1>5, <1>6, <2>2, <3>2 DEF TypesInv
    <3>3. QED
      BY <3>1, <3>2
  <2>3. Len(kind') = Len(store'.type)
    BY <1>3, <1>6
  <2>4. QED
    BY <1>6, <2>1, <2>2, <2>3 DEF TypesInv
<1>8. Faithful(rs)
  BY DEF Faithful, GoodRefs, GoodRef, Reference
<1>9. ASSUME NEW m \in DOMAIN kind, kind[m] = k, k \in {"pack", "pointer"}
      PROVE  Denoted(refs[<<"type", m>>]) # Denoted(rs)
  <2>1. m \in compounds
    BY <1>5, <1>9
  <2>2. Shape(refs[<<"type", m>>]) # Shape(rs)
    BY <1>1, <1>4, <1>9, <2>1 DEF Interned
  <2>3. Faithful(refs[<<"type", m>>])
    BY <1>1, <1>4, <1>5, MutatorFaithful
  <2>4. QED
    BY <1>5, <1>8, <2>2, <2>3, DenotedGivesShape
<1>10. UniqueInv'
  <2>1. SUFFICES ASSUME NEW l \in DOMAIN kind', NEW m \in DOMAIN kind', l # m,
                        kind'[l] = kind'[m], kind'[l] \in {"pack", "pointer"}
                 PROVE  Denoted(refs'[<<"type", l>>]) # Denoted(refs'[<<"type", m>>])
    BY DEF UniqueInv, Denoted
  <2>2. CASE l = n
    BY <1>3, <1>4, <1>6, <1>9, <2>1, <2>2
  <2>3. CASE m = n
    BY <1>3, <1>4, <1>6, <1>9, <2>1, <2>3
  <2>4. CASE l # n /\ m # n
    BY <1>3, <1>4, <1>5, <1>6, <2>1, <2>4 DEF UniqueInv
  <2>5. QED
    BY <2>2, <2>3, <2>4
<1>11. CompoundsExact' /\ Canonical'
  BY <1>2, <1>5, <1>7, <1>10, MutatorTablesNext
<1>12. TypeOK'
  <2>1. compounds' \subseteq Types'
    BY <1>11, <1>5 DEF CompoundsExact
  <2>2. (Live \subseteq DOMAIN refs)'
    BY <1>3, <1>5 DEF StoreInv
  <2>3. stack' = <<>>
    BY <1>1, <1>5 DEF MutatorInv
  <2>4. QED
    BY <1>2, <1>5, <2>1, <2>2, <2>3 DEF TypeOK
<1>13. QED
  BY <1>2, <1>7, <1>10, <1>11, <1>12 DEF IInv

\* A function or an overload set leaves the tables of types as they are.
LEMMA NewEntityInvariant ==
    ASSUME IInv, phase = "mutator", NEW pool \in {"function", "overload"}, NEW rs, GoodRefs(rs),
           Add(pool, rs), UNCHANGED <<chosen, kind, compounds, phase, stack, client, seen, retraced>>
    PROVE  IInv'
<1> DEFINE e == <<pool, Len(store[pool]) + 1>>
<1>1. pool \in Pools /\ UNCHANGED <<chosen, phase, stack, client, seen, retraced>>
      /\ kind' = kind /\ compounds' = compounds /\ phase' = phase
  BY DEF Pools
<1>2. /\ StoreInv' /\ ChosenInv' /\ RefsInv' /\ MutatorInv' /\ StackInv' /\ TracingInv'
      /\ ReferencesFollow' /\ SurvivorsExact'
      /\ Fits(store, refs)' /\ (\A p \in Pools : Members(chosen[p]) \subseteq Members(store[p]))'
  BY <1>1, AddInvariant
<1>3. /\ e \notin DOMAIN refs /\ DOMAIN refs' = DOMAIN refs \cup {e}
      /\ \A x \in DOMAIN refs : refs'[x] = refs[x]
      /\ store' = [store EXCEPT ![pool] = Append(@, e)]
      /\ Live' = Live \cup {e}
  BY <1>1, AddFacts
<1>4. store'.type = store.type
  BY <1>3 DEF IInv, StoreInv
<1>5. /\ StoreInv /\ RefsInv /\ TypesInv /\ UniqueInv /\ MutatorInv /\ phase # "collected"
  BY DEF IInv
<1>6. /\ DOMAIN kind = Types
      /\ \A m \in DOMAIN kind : <<"type", m>> \in DOMAIN refs
  BY <1>5, TypePlaces
<1>7. TypesInv'
  BY <1>1, <1>3, <1>4, <1>5, <1>6 DEF TypesInv
<1>8. UniqueInv'
  <2>1. SUFFICES ASSUME NEW l \in DOMAIN kind', NEW m \in DOMAIN kind', l # m,
                        kind'[l] = kind'[m], kind'[l] \in {"pack", "pointer"}
                 PROVE  Denoted(refs'[<<"type", l>>]) # Denoted(refs'[<<"type", m>>])
    BY DEF UniqueInv, Denoted
  <2>2. refs'[<<"type", l>>] = refs[<<"type", l>>] /\ refs'[<<"type", m>>] = refs[<<"type", m>>]
    BY <1>1, <1>3, <1>6, <2>1
  <2>3. QED
    BY <1>1, <1>5, <2>1, <2>2 DEF UniqueInv
<1>9. CompoundsExact' /\ Canonical'
  BY <1>1, <1>2, <1>7, <1>8, MutatorTablesNext
<1>10. TypeOK'
  <2>1. compounds' \subseteq Types'
    BY <1>9, <1>1 DEF CompoundsExact
  <2>2. (Live \subseteq DOMAIN refs)'
    BY <1>3, <1>5 DEF StoreInv
  <2>3. stack' = <<>>
    BY <1>5 DEF MutatorInv
  <2>4. QED
    BY <1>1, <1>2, <2>1, <2>2, <2>3 DEF TypeOK
<1>11. QED
  BY <1>2, <1>7, <1>8, <1>9, <1>10 DEF IInv

\* References added to a function or an overload set leave everything else as it is.
LEMMA ExtendInvariant ==
    ASSUME IInv, phase = "mutator", NEW e \in DOMAIN refs, e[1] # "type",
           NEW rs, GoodRefs(rs), \A i \in DOMAIN rs : rs[i].role # "param", Extend(e, rs),
           UNCHANGED <<store, chosen, kind, compounds, phase, stack, client, seen, retraced>>
    PROVE  IInv'
<1>1. /\ store' = store /\ chosen' = chosen /\ kind' = kind /\ compounds' = compounds
      /\ phase' = "mutator" /\ stack' = stack /\ client' = client /\ seen' = seen
      /\ retraced' = retraced
  OBVIOUS
<1>2. /\ StoreInv /\ ChosenInv /\ RefsInv /\ TypesInv /\ UniqueInv /\ MutatorInv /\ TypeOK
      /\ phase # "collected" /\ DOMAIN refs = Live
  BY DEF IInv, StoreInv
<1>3. /\ refs[e] \in Seq(Reference) /\ rs \in Seq(Reference)
      /\ refs \in [DOMAIN refs -> Seq(Reference)]
  BY <1>2 DEF StoreInv, GoodRefs
<1>4. /\ refs' = [refs EXCEPT ![e] = refs[e] \o rs] /\ Fits(store, refs')
      /\ DOMAIN refs' = DOMAIN refs /\ refs'[e] = refs[e] \o rs
      /\ \A x \in DOMAIN refs : x # e => refs'[x] = refs[x]
  BY <1>3 DEF Extend
<1>5. /\ refs[e] \o rs \in Seq(Reference)
      /\ \A i \in DOMAIN refs[e] : (refs[e] \o rs)[i] = refs[e][i]
      /\ \A i \in DOMAIN (refs[e] \o rs) :
            i \in DOMAIN refs[e] \/ \E j \in DOMAIN rs : (refs[e] \o rs)[i] = rs[j]
  <2>1. \A i \in DOMAIN (refs[e] \o rs) :
            i \in DOMAIN refs[e]
            \/ (i - Len(refs[e]) \in DOMAIN rs
                /\ (refs[e] \o rs)[i - Len(refs[e]) + Len(refs[e])] = rs[i - Len(refs[e])]
                /\ i - Len(refs[e]) + Len(refs[e]) = i)
    BY <1>3, ConcatFacts
  <2>2. QED
    BY <1>3, <2>1, ConcatFacts
<1>6. StoreInv'
  <2>1. refs' \in [DOMAIN refs' -> Seq(Reference)]
    BY <1>3, <1>4, <1>5
  <2>2. Live' = Live
    BY <1>1 DEF Live
  <2>3. QED
    BY <1>1, <1>2, <1>4, <2>1, <2>2 DEF StoreInv
<1>7. \A i \in DOMAIN rs : GoodRef(rs[i]) /\ rs[i].role # "param"
  BY DEF GoodRefs
<1>8. ASSUME NEW x \in DOMAIN refs', NEW i \in DOMAIN refs'[x]
      PROVE  \/ x \in DOMAIN refs /\ i \in DOMAIN refs[x] /\ refs'[x][i] = refs[x][i]
             \/ GoodRef(refs'[x][i]) /\ refs'[x][i].role # "param"
  <2>1. CASE x = e
    BY <1>4, <1>5, <1>7, <1>8, <2>1
  <2>2. CASE x # e
    BY <1>4, <1>8, <2>2
  <2>3. QED
    BY <2>1, <2>2
<1>9. RefsInv'
  <2>1. SUFFICES ASSUME NEW x \in DOMAIN refs', NEW i \in DOMAIN refs'[x]
                 PROVE  LET r == refs'[x][i] IN
                        /\ r.of \in DOMAIN refs' /\ r.of[1] = r.pool
                        /\ r.role = "overcall" <=> r.pool = "overload"
                        /\ r.role = "param" => i = 1
                        /\ r.at \in DOMAIN store'[r.pool]
    BY DEF RefsInv
  <2>2. CASE x \in DOMAIN refs /\ i \in DOMAIN refs[x] /\ refs'[x][i] = refs[x][i]
    BY <1>1, <1>2, <1>4, <2>2 DEF RefsInv
  <2>3. CASE GoodRef(refs'[x][i]) /\ refs'[x][i].role # "param"
    BY <1>1, <1>4, <2>3 DEF GoodRef
  <2>4. QED
    BY <1>8, <2>2, <2>3
<1>10. \A x \in DOMAIN refs' : \A i \in DOMAIN refs'[x] : Deref(refs[x][i])' = refs'[x][i].of
  <2>1. SUFFICES ASSUME NEW x \in DOMAIN refs', NEW i \in DOMAIN refs'[x]
                 PROVE  store[refs'[x][i].pool][refs'[x][i].at] = refs'[x][i].of
    BY <1>1 DEF Deref
  <2>2. CASE x \in DOMAIN refs /\ i \in DOMAIN refs[x] /\ refs'[x][i] = refs[x][i]
    BY <1>2, <2>2 DEF MutatorInv, Deref
  <2>3. CASE GoodRef(refs'[x][i]) /\ refs'[x][i].role # "param"
    BY <2>3 DEF GoodRef, Deref
  <2>4. QED
    BY <1>8, <2>2, <2>3
<1>11. MutatorInv'
  BY <1>1, <1>2, <1>10 DEF MutatorInv
<1>12. ChosenInv'
  BY <1>1, <1>2 DEF ChosenInv
<1>13. StackInv'
  <2>1. stack' = <<>> /\ <<>> \in Seq(Tasks)
    BY <1>1, <1>2 DEF MutatorInv
  <2>2. QED
    BY <2>1 DEF StackInv
<1>14. \A m \in DOMAIN kind : refs'[<<"type", m>>] = refs[<<"type", m>>]
  <2>1. \A m \in DOMAIN kind : <<"type", m>> \in DOMAIN refs
    BY <1>2, TypePlaces
  <2>2. \A m \in DOMAIN kind : <<"type", m>> # e
    OBVIOUS
  <2>3. QED
    BY <1>4, <2>1, <2>2
<1>15. TypesInv'
  BY <1>1, <1>2, <1>14 DEF TypesInv
<1>16. UniqueInv'
  <2>1. SUFFICES ASSUME NEW l \in DOMAIN kind', NEW m \in DOMAIN kind', l # m,
                        kind'[l] = kind'[m], kind'[l] \in {"pack", "pointer"}
                 PROVE  Denoted(refs'[<<"type", l>>]) # Denoted(refs'[<<"type", m>>])
    BY DEF UniqueInv, Denoted
  <2>2. refs'[<<"type", l>>] = refs[<<"type", l>>] /\ refs'[<<"type", m>>] = refs[<<"type", m>>]
    BY <1>1, <1>14, <2>1
  <2>3. QED
    BY <1>1, <1>2, <2>1, <2>2 DEF UniqueInv
<1>17. CompoundsExact' /\ Canonical'
  BY <1>1, <1>6, <1>9, <1>11, <1>15, <1>16, MutatorTablesNext
<1>18. TypeOK'
  <2>1. compounds' \subseteq Types'
    BY <1>17, <1>1 DEF CompoundsExact
  <2>2. (Live \subseteq DOMAIN refs)'
    BY <1>1, <1>2, <1>4 DEF Live
  <2>3. stack' = <<>>
    BY <1>1, <1>2 DEF MutatorInv
  <2>4. Fits(store, refs)'
    BY <1>1, <1>4
  <2>5. (\A p \in Pools : Members(chosen[p]) \subseteq Members(store[p]))'
    BY <1>12 DEF ChosenInv
  <2>6. QED
    BY <1>1, <2>1, <2>2, <2>3, <2>4, <2>5 DEF TypeOK
<1>19. TracingInv' /\ ReferencesFollow' /\ SurvivorsExact'
  BY <1>1 DEF TracingInv, ReferencesFollow, SurvivorsExact
<1>20. QED
  BY <1>6, <1>9, <1>11, <1>12, <1>13, <1>15, <1>16, <1>17, <1>18, <1>19 DEF IInv

\* Lists of one and of two references that the client makes.
LEMMA OneRef ==
    ASSUME NEW r, GoodRef(r), r.role # "param"
    PROVE  /\ GoodRefs(<<r>>)
           /\ \A i \in DOMAIN <<r>> : <<r>>[i].role # "param" /\ <<r>>[i].pool = r.pool
<1>1. r \in Reference
  BY DEF GoodRef
<1>2. <<r>> \in Seq(Reference) /\ \A i \in DOMAIN <<r>> : <<r>>[i] = r
  BY <1>1
<1>3. QED
  BY <1>2 DEF GoodRefs

\* A signature and a pack hold two.
LEMMA TwoRefs ==
    ASSUME NEW r, NEW q, GoodRef(r), GoodRef(q), q.role # "param"
    PROVE  /\ GoodRefs(<<r, q>>)
           /\ \A i \in DOMAIN <<r, q>> : <<r, q>>[i] = r \/ <<r, q>>[i] = q
<1>1. r \in Reference /\ q \in Reference
  BY DEF GoodRef
<1>2. <<r, q>> \in Seq(Reference)
      /\ \A i \in DOMAIN <<r, q>> : (i = 1 /\ <<r, q>>[i] = r) \/ (i = 2 /\ <<r, q>>[i] = q)
  BY <1>1
<1>3. QED
  BY <1>2 DEF GoodRefs

\* Whatever the client builds keeps the invariant: each operation is one of the above.
LEMMA BuildInvariant ==
    ASSUME IInv, Build
    PROVE  IInv'
<1>1. StoreInv /\ "type" \in Pools /\ "function" \in Pools /\ "overload" \in Pools
  BY DEF IInv, Pools
<1>2. ASSUME phase = "mutator", NEW role \in Roles, NEW t \in Types, role # "overcall"
      PROVE  GoodRef(RefTo(role, "type", t)) /\ RefTo(role, "type", t).role = role
             /\ RefTo(role, "type", t).pool = "type"
  BY <1>1, <1>2, RefToIsGood DEF Types
<1>3. ASSUME NEW t \in Types, NEW u \in Types, PackOf(t, u) PROVE IInv'
  <2> DEFINE r == RefTo("element", "type", t)
             q == RefTo("element", "type", u)
  <2>1. /\ GoodRef(r) /\ r.role = "element" /\ r.pool = "type"
        /\ GoodRef(q) /\ q.role = "element" /\ q.pool = "type"
    <3>1. phase = "mutator" /\ "element" \in Roles /\ "element" # "overcall"
      BY <1>3 DEF PackOf, Intern, Roles
    <3>2. QED
      BY ONLY <1>2, <3>1, t \in Types, u \in Types
  <2>2. Intern("pack", <<r, q>>)
    BY <1>3 DEF PackOf
  <2> HIDE DEF r, q
  <2>3. QED
    BY <2>1, <2>2, TwoRefs, InternInvariant DEF PartRole
<1>4. ASSUME NEW t \in Types, PointerTo(t) PROVE IInv'
  <2> DEFINE r == RefTo("pointed", "type", t)
  <2>1. GoodRef(r) /\ r.role = "pointed" /\ r.pool = "type"
    <3>1. phase = "mutator" /\ "pointed" \in Roles /\ "pointed" # "overcall"
      BY <1>4 DEF PointerTo, Intern, Roles
    <3>2. QED
      BY ONLY <1>2, <3>1, t \in Types
  <2>2. Intern("pointer", <<r>>)
    BY <1>4 DEF PointerTo
  <2> HIDE DEF r
  <2>3. <<r>>[1] = r /\ DOMAIN <<r>> = {1}
    OBVIOUS
  <2>4. QED
    BY <2>1, <2>2, <2>3, OneRef, InternInvariant DEF PartRole
<1>5. ASSUME phase = "mutator", NEW t \in Types, NEW u \in Types
      PROVE  GoodRefs(<<RefTo("param", "type", u), RefTo("ret", "type", t)>>)
  <2> DEFINE r == RefTo("param", "type", u)
             q == RefTo("ret", "type", t)
  <2>1. "param" \in Roles /\ "param" # "overcall" /\ "ret" \in Roles /\ "ret" # "overcall"
    BY DEF Roles
  <2>2. GoodRef(r) /\ GoodRef(q) /\ q.role = "ret"
    BY ONLY <1>2, <1>5, <2>1, t \in Types, u \in Types
  <2> HIDE DEF r, q
  <2>3. GoodRefs(<<r, q>>)
    BY <2>2, TwoRefs
  <2>4. QED
    BY <2>3 DEF r, q
<1>6. ASSUME NEW t \in Types, NEW u \in Types, FunctionOf(t, u) PROVE IInv'
  <2> DEFINE rs == <<RefTo("param", "type", u), RefTo("ret", "type", t)>>
  <2>1. GoodRefs(rs) /\ Intern("function", rs)
    BY <1>5, <1>6 DEF FunctionOf, Intern
  <2> HIDE DEF rs
  <2>2. QED
    BY <2>1, InternInvariant
<1>7. ASSUME NEW t \in Types, NEW u \in Types, NewFunction(t, u) PROVE IInv'
  <2> DEFINE rs == <<RefTo("param", "type", u), RefTo("ret", "type", t)>>
  <2>1. /\ phase = "mutator" /\ GoodRefs(rs) /\ Add("function", rs)
        /\ UNCHANGED <<chosen, kind, compounds, phase, stack, client, seen, retraced>>
    BY <1>5, <1>7 DEF NewFunction
  <2> HIDE DEF rs
  <2>2. QED
    BY <2>1, NewEntityInvariant
<1>8. ASSUME NewOverloadSet PROVE IInv'
  <2>1. GoodRefs(<<>>)
    BY DEF GoodRefs
  <2>2. QED
    BY <1>8, <2>1, NewEntityInvariant DEF NewOverloadSet
<1>9. ASSUME NEW f \in DOMAIN store.function, NEW t \in Types, NEW named, GoodRefs(named),
             \A i \in DOMAIN named : named[i].role # "param", AddNode(f, t, named)
      PROVE  IInv'
  <2> DEFINE r == RefTo("type of node", "type", t)
             rs == <<r>> \o named
             e == store.function[f]
  <2>1. GoodRef(r) /\ r.role = "type of node" /\ phase = "mutator"
    <3>1. phase = "mutator" /\ "type of node" \in Roles /\ "type of node" # "overcall"
      BY <1>9 DEF AddNode, Roles
    <3>2. QED
      BY ONLY <1>2, <3>1, t \in Types
  <2>2. GoodRefs(<<r>>) /\ \A i \in DOMAIN <<r>> : <<r>>[i].role # "param"
    BY <2>1, OneRef
  <2>3. GoodRefs(rs) /\ \A i \in DOMAIN rs : rs[i].role # "param"
    <3>1. <<r>> \in Seq(Reference) /\ named \in Seq(Reference)
      BY <1>9, <2>2 DEF GoodRefs
    <3>2. rs \in Seq(Reference)
          /\ \A i \in DOMAIN rs : (i = 1 /\ rs[i] = r) \/ (i - 1 \in DOMAIN named /\ rs[i] = named[i - 1])
      <4> HIDE DEF r
      <4>1. r \in Reference /\ named \in Seq(Reference)
        BY <2>1, <3>1 DEF GoodRef
      <4>2. QED
        BY ONLY <4>1 DEF rs
    <3>3. QED
      BY <1>9, <2>1, <3>2 DEF GoodRefs
  <2>4. e \in DOMAIN refs /\ e[1] # "type"
    <3>1. store["function"][f] = <<"function", f>> /\ <<"function", f>> \in DOMAIN refs
      BY <1>1, <2>1, Placed
    <3>2. QED
      BY <3>1
  <2>5. Extend(e, rs) /\ UNCHANGED <<store, chosen, kind, compounds, phase, stack, client, seen, retraced>>
    BY <1>9 DEF AddNode
  <2> HIDE DEF r, rs, e
  <2>6. QED
    BY <2>1, <2>3, <2>4, <2>5, ExtendInvariant
<1>10. ASSUME NEW f \in DOMAIN store.function, NEW t \in Types,
              \/ AddNode(f, t, <<>>)
              \/ \E g \in DOMAIN store.function : AddNode(f, t, <<RefTo("fnsym", "function", g)>>)
              \/ \E o \in DOMAIN store.overload : AddNode(f, t, <<RefTo("overcall", "overload", o)>>)
       PROVE  IInv'
  <2>1. phase = "mutator"
    BY <1>10 DEF AddNode
  <2>2. CASE AddNode(f, t, <<>>)
    <3>1. GoodRefs(<<>>)
      BY DEF GoodRefs
    <3>2. QED
      BY <1>9, <2>2, <3>1
  <2>3. ASSUME NEW g \in DOMAIN store.function, AddNode(f, t, <<RefTo("fnsym", "function", g)>>)
        PROVE  IInv'
    <3> DEFINE r == RefTo("fnsym", "function", g)
    <3>1. GoodRef(r) /\ r.role = "fnsym"
      <4>1. "fnsym" \in Roles /\ ("fnsym" = "overcall" <=> "function" = "overload")
            /\ phase # "collected" /\ g \in DOMAIN store["function"]
        BY <2>1, <2>3 DEF Roles
      <4>2. QED
        BY ONLY <1>1, <4>1, RefToIsGood
    <3>2. AddNode(f, t, <<r>>)
      BY <2>3
    <3> HIDE DEF r
    <3>3. GoodRefs(<<r>>) /\ \A i \in DOMAIN <<r>> : <<r>>[i].role # "param"
      BY <3>1, OneRef
    <3>4. QED
      BY <1>9, <3>2, <3>3
  <2>4. ASSUME NEW o \in DOMAIN store.overload, AddNode(f, t, <<RefTo("overcall", "overload", o)>>)
        PROVE  IInv'
    <3> DEFINE r == RefTo("overcall", "overload", o)
    <3>1. GoodRef(r) /\ r.role = "overcall"
      <4>1. "overcall" \in Roles /\ phase # "collected" /\ o \in DOMAIN store["overload"]
        BY <2>1, <2>4 DEF Roles
      <4>2. QED
        BY ONLY <1>1, <4>1, RefToIsGood
    <3>2. AddNode(f, t, <<r>>)
      BY <2>4
    <3> HIDE DEF r
    <3>3. GoodRefs(<<r>>) /\ \A i \in DOMAIN <<r>> : <<r>>[i].role # "param"
      BY <3>1, OneRef
    <3>4. QED
      BY <1>9, <3>2, <3>3
  <2>5. QED
    BY <1>10, <2>2, <2>3, <2>4
<1>11. ASSUME NEW o \in DOMAIN store.overload, NEW f \in DOMAIN store.function, AddOverload(o, f)
       PROVE  IInv'
  <2> DEFINE r == RefTo("overload", "function", f)
             e == store.overload[o]
  <2>1. phase = "mutator" /\ Extend(e, <<r>>)
        /\ UNCHANGED <<store, chosen, kind, compounds, phase, stack, client, seen, retraced>>
    BY <1>11 DEF AddOverload
  <2>2. GoodRef(r) /\ r.role = "overload"
    <3>1. "overload" \in Roles /\ ("overload" = "overcall" <=> "function" = "overload")
          /\ phase # "collected" /\ f \in DOMAIN store["function"]
      BY <1>11, <2>1 DEF Roles
    <3>2. QED
      BY ONLY <1>1, <3>1, RefToIsGood
  <2>3. e \in DOMAIN refs /\ e[1] # "type"
    <3>1. store["overload"][o] = <<"overload", o>> /\ <<"overload", o>> \in DOMAIN refs
      BY <1>1, <2>1, Placed
    <3>2. QED
      BY <3>1
  <2> HIDE DEF r, e
  <2>4. GoodRefs(<<r>>) /\ \A i \in DOMAIN <<r>> : <<r>>[i].role # "param"
    BY <2>2, OneRef
  <2>5. QED
    BY <2>1, <2>3, <2>4, ExtendInvariant
<1>12. QED
  BY <1>3, <1>4, <1>6, <1>7, <1>8, <1>10, <1>11 DEF Build

-----------------------------------------------------------------------------
(* Where the system starts, and the beginning of a collection. *)

\* A new project has the built-in types and nothing else.
LEMMA InitInvariant ==
    ASSUME Init
    PROVE  IInv
<1>1. /\ DOMAIN store = Pools /\ store.type = <<Builtin>>
      /\ \A p \in Pools : p # "type" => store[p] = <<>>
      /\ DOMAIN refs = {Builtin} /\ refs[Builtin] = <<>>
      /\ kind = <<"dtype">> /\ compounds = {} /\ phase = "mutator" /\ stack = <<>>
      /\ client = {} /\ seen = {} /\ retraced = FALSE /\ chosen = [p \in Pools |-> <<>>]
      /\ store = [p \in Pools |-> IF p = "type" THEN <<Builtin>> ELSE <<>>]
      /\ refs = [e \in {Builtin} |-> <<>>]
  BY DEF Init, Pools
<1>2. Builtin \in Entities /\ Builtin = <<"type", 1>>
  BY DEF Builtin, Entities, Pools
<1>3. /\ \A p \in Pools : store[p] \in Seq(Entities)
      /\ \A p \in Pools : \A i \in DOMAIN store[p] : p = "type" /\ i = 1 /\ store[p][i] = Builtin
      /\ store["type"][1] = Builtin /\ 1 \in DOMAIN store["type"]
  BY <1>1, <1>2 DEF Pools
<1>4. Live = {Builtin}
  <2>1. Members(store["type"]) = {Builtin}
    <3>1. \A i \in DOMAIN store["type"] : store["type"][i] = Builtin
      BY <1>3 DEF Pools
    <3>2. QED
      BY <1>3, <3>1 DEF Members
  <2>2. \A p \in Pools : p # "type" => Members(store[p]) = {}
    BY <1>1 DEF Members
  <2>3. QED
    BY <2>1, <2>2 DEF Live, Pools
<1>5. StoreInv
  <2>1. store \in [Pools -> Seq(Entities)] /\ chosen \in [Pools -> Seq(Entities)]
    BY <1>1, <1>3
  <2>2. refs \in [DOMAIN refs -> Seq(Reference)] /\ DOMAIN refs \subseteq Entities
    BY <1>1, <1>2
  <2>3. \A p \in Pools : \A i \in DOMAIN store[p] : store[p][i] = <<p, i>>
    BY <1>2, <1>3
  <2>4. QED
    BY <1>1, <1>4, <2>1, <2>2, <2>3 DEF StoreInv
<1>6. ChosenInv
  <2>1. chosen.overload = <<>> /\ \A p \in Pools : chosen[p] = <<>>
    BY <1>1 DEF Pools
  <2>2. QED
    BY <2>1 DEF ChosenInv, Members
<1>7. RefsInv /\ MutatorInv
  BY <1>1 DEF RefsInv, MutatorInv
<1>8. Len(kind) = 1 /\ DOMAIN kind = {1} /\ kind[1] = "dtype"
      /\ kind \in Seq({"dtype", "pack", "pointer", "function"}) /\ Len(store.type) = 1
  BY <1>1
<1>9. TypesInv /\ UniqueInv
  BY <1>1, <1>8 DEF TypesInv, UniqueInv
<1>10. StackInv /\ TracingInv /\ ReferencesFollow /\ SurvivorsExact
  BY <1>1 DEF StackInv, TracingInv, ReferencesFollow, SurvivorsExact
<1>11. CompoundsExact /\ Canonical
  BY <1>1, <1>5, <1>7, <1>9, MutatorTables
<1>12. Fits(store, refs)
  <2>1. PICK size \in Sizes : TRUE
    BY BoundsAssumption
  <2>2. /\ size.type \in Nat \ {0} /\ size.function \in Nat /\ size.overload \in Nat
        /\ size.added \in Nat
    BY BoundsAssumption
  <2>3. Len(store.type) <= size.type
    BY <1>8, <2>2
  <2>4. Len(store.function) <= size.function /\ Len(store.overload) <= size.overload
    BY <1>1, <2>2 DEF Pools
  <2>5. Added(Builtin, refs[Builtin]) <= size.added
    BY <2>2 DEF Added, Builtin
  <2>6. \A p \in Pools : Len(store[p]) <= size[p]
    BY <2>3, <2>4 DEF Pools
  <2>7. QED
    BY <1>1, <2>5, <2>6 DEF Fits
<1>13. TypeOK
  <2>1. \A p \in Pools : Members(chosen[p]) \subseteq Members(store[p])
    BY <1>6 DEF ChosenInv
  <2>2. QED
    BY <1>1, <1>4, <1>12, <2>1 DEF TypeOK
<1>14. QED
  BY <1>5, <1>6, <1>7, <1>9, <1>10, <1>11, <1>13 DEF IInv

\* The stack that a collection begins with.
LEMMA BuiltinTask ==
    ASSUME NEW s, s = <<Task("builtin", Builtin, 0, Builtin)>>
    PROVE  /\ s \in Seq(Tasks) /\ Len(s) = 1 /\ s # <<>> /\ DOMAIN s = {1}
           /\ s[1].op = "builtin" /\ s[1].k = 0 /\ Head(s) = s[1] /\ Tail(s) = <<>>
<1>1. Builtin \in Entities
  BY DEF Builtin, Entities, Pools
<1>2. Task("builtin", Builtin, 0, Builtin) \in Tasks
      /\ Task("builtin", Builtin, 0, Builtin).op = "builtin"
      /\ Task("builtin", Builtin, 0, Builtin).k = 0
  BY <1>1 DEF Tasks, Task
<1> DEFINE t == Task("builtin", Builtin, 0, Builtin)
<1> HIDE DEF t
<1>3. t \in Tasks /\ t.op = "builtin" /\ t.k = 0 /\ s = <<t>>
  BY <1>2 DEF t
<1>4. QED
  BY ONLY <1>3

\* At the beginning of a collection nothing is traced and every
\* reference denotes what it did.
LEMMA BeginGcInvariant ==
    ASSUME IInv, BeginGc
    PROVE  IInv'
<1>1. /\ phase = "mutator" /\ phase' = "tracing"
      /\ stack' = <<Task("builtin", Builtin, 0, Builtin)>>
      /\ store' = store /\ chosen' = chosen /\ kind' = kind /\ refs' = refs
      /\ compounds' = compounds /\ client' = client /\ seen' = seen /\ retraced' = retraced
  BY DEF BeginGc
<1>2. /\ TypeOK /\ StoreInv /\ ChosenInv /\ RefsInv /\ TypesInv /\ UniqueInv
      /\ chosen = [p \in Pools |-> <<>>] /\ client = {} /\ seen = {}
      /\ \A e \in DOMAIN refs : \A i \in DOMAIN refs[e] : Deref(refs[e][i]) = refs[e][i].of
  BY <1>1 DEF IInv, MutatorInv
<1>3. /\ stack' \in Seq(Tasks) /\ Len(stack') = 1 /\ DOMAIN stack' = {1}
      /\ stack'[1].op = "builtin" /\ stack'[1].k = 0
  BY <1>1, BuiltinTask
<1>4. \A e \in DOMAIN refs : ~Traced(e)'
  <2>1. SUFFICES ASSUME NEW e \in DOMAIN refs PROVE ~Traced(e)'
    OBVIOUS
  <2>2. e[1] \in Pools
    BY <1>2, EntityFacts DEF StoreInv
  <2>3. chosen'[e[1]] = <<>> /\ seen' = {}
    BY <1>1, <1>2, <2>2
  <2>4. Members(chosen'[e[1]]) = {}
    BY <2>3 DEF Members
  <2>5. QED
    BY <2>3, <2>4 DEF Traced, Members
<1>5. StoreInv' /\ ChosenInv' /\ RefsInv' /\ TypesInv' /\ UniqueInv'
  <2>1. StoreInv'
    BY <1>1, <1>2 DEF StoreInv, Live
  <2>2. ChosenInv'
    BY <1>1, <1>2 DEF ChosenInv
  <2>3. RefsInv'
    BY <1>1, <1>2 DEF RefsInv
  <2>4. TypesInv'
    BY <1>1, <1>2 DEF TypesInv
  <2>5. UniqueInv'
    <3>1. SUFFICES ASSUME NEW l \in DOMAIN kind', NEW m \in DOMAIN kind', l # m,
                          kind'[l] = kind'[m], kind'[l] \in {"pack", "pointer"}
                   PROVE  Denoted(refs'[<<"type", l>>]) # Denoted(refs'[<<"type", m>>])
      BY DEF UniqueInv, Denoted
    <3>2. QED
      BY <1>1, <1>2, <3>1 DEF UniqueInv
  <2>6. QED
    BY <2>1, <2>2, <2>3, <2>4, <2>5
<1>6. StackInv'
  <2>1. ASSUME NEW i \in DOMAIN stack' PROVE TaskInv(stack[i])'
    BY <1>3, <2>1 DEF TaskInv
  <2>2. QED
    BY <1>1, <1>3, <2>1 DEF StackInv
<1>7. TracingInv'
  <2>1. \A e \in DOMAIN refs' : \A i \in DOMAIN refs'[e] : Deref(refs[e][i])' = refs'[e][i].of
    BY <1>1, <1>2 DEF Deref
  <2>2. seen' \subseteq DOMAIN refs' /\ client' = {}
        /\ stack' = <<Task("builtin", Builtin, 0, Builtin)>>'
    BY <1>1, <1>2 DEF Task, Builtin
  <2>3. QED
    BY <1>1, <1>4, <2>1, <2>2 DEF TracingInv
<1>8. TypeOK'
  <2>1. (Live \subseteq DOMAIN refs)' /\ Fits(store, refs)' /\ (compounds \subseteq Types)'
        /\ (\A p \in Pools : Members(chosen[p]) \subseteq Members(store[p]))'
    BY <1>1, <1>2 DEF TypeOK, Live, Types
  <2>2. QED
    BY <1>1, <1>3, <2>1 DEF TypeOK
<1>9. MutatorInv' /\ ReferencesFollow' /\ CompoundsExact' /\ Canonical' /\ SurvivorsExact'
  BY <1>1 DEF MutatorInv, ReferencesFollow, CompoundsExact, Canonical, SurvivorsExact
<1>10. QED
  BY <1>5, <1>6, <1>7, <1>8, <1>9 DEF IInv

-----------------------------------------------------------------------------
(* Tracing: an entity is entered. *)

\* A pool has at least as many entities as were given new positions, for no
\* entity is given two.
LEMMA ChosenFits ==
    ASSUME StoreInv, ChosenInv, phase # "collected", NEW p \in Pools
    PROVE  Len(chosen[p]) <= Len(store[p]) /\ DOMAIN chosen[p] \subseteq DOMAIN store[p]
<1>1. chosen[p] \in Seq(Entities) /\ store[p] \in Seq(Entities)
  BY DEF StoreInv
<1> DEFINE m == Len(chosen[p])
           n == Len(store[p])
           f == [i \in 1..m |-> chosen[p][i][2]]
<1>2. m \in Nat /\ n \in Nat /\ DOMAIN chosen[p] = 1..m /\ DOMAIN store[p] = 1..n
  BY <1>1
<1>3. ASSUME NEW i \in 1..m PROVE f[i] \in 1..n /\ chosen[p][i] = <<p, f[i]>>
  <2>1. chosen[p][i] \in Members(store[p])
    <3>1. chosen[p][i] \in Members(chosen[p]) /\ Members(chosen[p]) \subseteq Members(store[p])
      <4>1. i \in DOMAIN chosen[p]
        BY <1>2
      <4>2. QED
        BY <4>1 DEF ChosenInv, Members
    <3>2. QED
      BY <3>1
  <2>2. PICK j \in 1..n : store[p][j] = chosen[p][i]
    BY <1>2, <2>1 DEF Members
  <2>3. chosen[p][i] = <<p, j>>
    BY <1>2, <2>2 DEF StoreInv
  <2>4. f[i] = j
    BY <2>3
  <2>5. QED
    BY <2>3, <2>4
<1>4. \A i, j \in 1..m : f[i] = f[j] => i = j
  <2>1. SUFFICES ASSUME NEW i \in 1..m, NEW j \in 1..m, f[i] = f[j] PROVE i = j
    OBVIOUS
  <2>2. chosen[p][i] = chosen[p][j]
    BY <1>3, <2>1
  <2>3. QED
    BY <1>2, <2>2 DEF ChosenInv
<1>5. f \in Injection(1..m, 1..n)
  <2>1. f \in [1..m -> 1..n]
    BY <1>3
  <2>2. QED
    BY <1>4, <2>1 DEF Injection, IsInjective
<1>6. m <= n
  <2> HIDE DEF m, n, f
  <2>1. QED
    BY <1>2, <1>5, Fun_NatInjLeq DEF ExistsInjection
<1>7. QED
  BY <1>2, <1>6

\* Entering an entity marks it, unless it is an overload set, and forgets nothing.
LEMMA EnterFacts ==
    ASSUME StoreInv, ChosenInv, phase # "collected", NEW e \in DOMAIN refs, Mark(e),
           seen' = IF e[1] = "overload" THEN seen \cup {e} ELSE seen,
           store' = store
    PROVE  /\ chosen' \in [Pools -> Seq(Entities)]
           /\ ChosenInv'
           /\ \A p \in Pools : \A i \in DOMAIN chosen[p] :
                i \in DOMAIN chosen'[p] /\ chosen'[p][i] = chosen[p][i]
           /\ \A x \in DOMAIN refs : Traced(x)' <=> Traced(x) \/ x = e
<1>1. /\ e[1] \in Pools /\ e \in Entities /\ e \in Members(store[e[1]])
      /\ chosen \in [Pools -> Seq(Entities)] /\ "overload" \in Pools
  BY Found DEF StoreInv, Pools
<1>2. CASE e[1] = "overload" \/ e \in Members(chosen[e[1]])
  <2>1. chosen' = chosen
    BY <1>2 DEF Mark
  <2>2. ChosenInv'
    BY <2>1 DEF ChosenInv
  <2>3. ASSUME NEW x \in DOMAIN refs PROVE Traced(x)' <=> Traced(x) \/ x = e
    <3>1. CASE x[1] = "overload"
      BY <3>1, <1>2 DEF Traced
    <3>2. CASE x[1] # "overload"
      <4>1. Traced(x)' <=> x \in Members(chosen[x[1]])
        BY <2>1, <3>2 DEF Traced, Members
      <4>2. Traced(x) <=> x \in Members(chosen[x[1]])
        BY <3>2 DEF Traced
      <4>3. QED
        BY <1>2, <3>2, <4>1, <4>2
    <3>3. QED
      BY <3>1, <3>2
  <2>4. QED
    BY <1>1, <2>1, <2>2, <2>3
<1>3. CASE e[1] # "overload" /\ e \notin Members(chosen[e[1]])
  <2> DEFINE q == e[1]
             n == Len(chosen[q]) + 1
  <2>1. /\ chosen' = [chosen EXCEPT ![q] = Append(chosen[q], e)] /\ seen' = seen
        /\ chosen[q] \in Seq(Entities)
    BY <1>1, <1>3 DEF Mark
  <2>2. /\ chosen'[q] = Append(chosen[q], e)
        /\ \A p \in Pools : p # q => chosen'[p] = chosen[p]
    BY <1>1, <2>1
  <2>3. /\ Append(chosen[q], e) \in Seq(Entities)
        /\ DOMAIN Append(chosen[q], e) = DOMAIN chosen[q] \cup {n}
        /\ n \notin DOMAIN chosen[q]
        /\ Append(chosen[q], e)[n] = e
        /\ \A i \in DOMAIN chosen[q] : Append(chosen[q], e)[i] = chosen[q][i]
        /\ Members(Append(chosen[q], e)) = Members(chosen[q]) \cup {e}
    BY <1>1, <2>1, AppendFacts
  <2> HIDE DEF n
  <2>4. chosen' \in [Pools -> Seq(Entities)]
    BY <1>1, <2>1, <2>3
  <2>5. ChosenInv'
    <3>1. chosen'.overload = <<>>
      BY <1>1, <1>3, <2>2 DEF ChosenInv
    <3>2. ASSUME NEW p \in Pools PROVE Members(chosen'[p]) \subseteq Members(store[p])
      BY <1>1, <2>2, <2>3 DEF ChosenInv
    <3>3. ASSUME NEW p \in Pools, NEW i \in DOMAIN chosen'[p], NEW j \in DOMAIN chosen'[p],
                 chosen'[p][i] = chosen'[p][j]
          PROVE  i = j
      <4>1. CASE p # q
        BY <2>2, <3>3, <4>1 DEF ChosenInv
      <4>2. CASE p = q
        <5>1. \A l \in DOMAIN chosen[q] : chosen[q][l] # e
          BY <1>3 DEF Members
        <5>2. \A l, m \in DOMAIN chosen[q] : chosen[q][l] = chosen[q][m] => l = m
          BY <1>1 DEF ChosenInv
        <5>3. /\ i \in DOMAIN chosen[q] \cup {n} /\ j \in DOMAIN chosen[q] \cup {n}
              /\ Append(chosen[q], e)[i] = Append(chosen[q], e)[j]
          BY <2>2, <2>3, <3>3, <4>2
        <5>4. CASE i = n \/ j = n
          <6>1. i = n => ~(j \in DOMAIN chosen[q])
            BY <2>3, <5>1, <5>3
          <6>2. j = n => ~(i \in DOMAIN chosen[q])
            BY <2>3, <5>1, <5>3
          <6>3. QED
            BY <5>3, <5>4, <6>1, <6>2
        <5>5. CASE i # n /\ j # n
          BY <2>3, <5>2, <5>3, <5>5
        <5>6. QED
          BY <5>4, <5>5
      <4>3. QED
        BY <4>1, <4>2
    <3>4. (\A p \in Pools : Members(chosen[p]) \subseteq Members(store[p]))'
      BY <3>2 DEF Members
    <3>5. QED
      BY <3>1, <3>3, <3>4 DEF ChosenInv
  <2>6. \A p \in Pools : \A i \in DOMAIN chosen[p] :
          i \in DOMAIN chosen'[p] /\ chosen'[p][i] = chosen[p][i]
    BY <2>2, <2>3
  <2>7. ASSUME NEW x \in DOMAIN refs PROVE Traced(x)' <=> Traced(x) \/ x = e
    <3>1. CASE x[1] = "overload"
      BY <2>1, <3>1, <1>3 DEF Traced
    <3>2. CASE x[1] # "overload"
      <4>1. x[1] \in Pools
        BY Found
      <4>2. Traced(x)' <=> x \in Members(chosen'[x[1]])
        BY <3>2 DEF Traced, Members
      <4>3. Traced(x) <=> x \in Members(chosen[x[1]])
        BY <3>2 DEF Traced
      <4>4. CASE x[1] = q
        <5>1. x \in Members(chosen'[x[1]]) <=> x \in Members(chosen[x[1]]) \/ x = e
          <6>1. chosen'[x[1]] = Append(chosen[q], e) /\ chosen[x[1]] = chosen[q]
            BY <2>2, <4>4
          <6>2. Members(chosen'[x[1]]) = Members(chosen[x[1]]) \cup {e}
            BY ONLY <2>3, <6>1
          <6>3. QED
            BY ONLY <6>2
        <5>2. QED
          BY <4>2, <4>3, <5>1, Zenon
      <4>5. CASE x[1] # q
        BY <2>2, <4>1, <4>2, <4>3, <4>5
      <4>6. QED
        BY <4>4, <4>5
    <3>3. QED
      BY <3>1, <3>2
  <2>8. QED
    BY <2>4, <2>5, <2>6, <2>7
<1>4. QED
  BY <1>2, <1>3

\* Each reference of an entity that is visited has one task, the parameter of a
\* signature none.
LEMMA VisitsFacts ==
    ASSUME StoreInv, RefsInv, NEW e \in DOMAIN refs
    PROVE  /\ Visits(e) \in Seq(Tasks)
           /\ \A i \in DOMAIN Visits(e) :
                /\ Visits(e)[i].op = "visit" /\ Visits(e)[i].holder = e
                /\ Visits(e)[i].k \in DOMAIN refs[e]
                /\ IsVisited(refs[e][Visits(e)[i].k])
           /\ \A i, j \in DOMAIN Visits(e) : Visits(e)[i].k = Visits(e)[j].k => i = j
           /\ \A k \in DOMAIN refs[e] :
                IsVisited(refs[e][k]) => \E i \in DOMAIN Visits(e) : Visits(e)[i].k = k
<1> DEFINE skipped == IF refs[e] # <<>> /\ ~IsVisited(refs[e][1]) THEN 1 ELSE 0
           n == Len(refs[e])
<1>1. refs[e] \in Seq(Reference) /\ e \in Entities
  BY DEF StoreInv
<1>2. n \in Nat /\ DOMAIN refs[e] = 1..n /\ skipped \in {0, 1} /\ (skipped = 1 => n > 0)
  BY <1>1
<1>3. Visits(e) = [i \in 1..(n - skipped) |-> Task("visit", e, i + skipped, e)]
  BY DEF Visits
<1>4. \A k \in 1..n : IsVisited(refs[e][k]) <=> k > skipped
  <2>1. SUFFICES ASSUME NEW k \in 1..n PROVE IsVisited(refs[e][k]) <=> k > skipped
    OBVIOUS
  <2>2. refs[e][k].role = "param" => k = 1
    BY <1>2 DEF RefsInv
  <2>3. refs[e] # <<>>
    BY <1>1, <1>2
  <2>4. QED
    BY <2>2, <2>3 DEF IsVisited
<1> HIDE DEF skipped, n
<1>5. n - skipped \in Nat
  BY <1>2
<1>6. \A i \in 1..(n - skipped) : i + skipped \in 1..n /\ i + skipped > skipped /\ i + skipped \in Nat
  BY <1>2
<1>7. \A i \in 1..(n - skipped) :
        /\ Task("visit", e, i + skipped, e) \in Tasks
        /\ Task("visit", e, i + skipped, e).op = "visit"
        /\ Task("visit", e, i + skipped, e).holder = e
        /\ Task("visit", e, i + skipped, e).k = i + skipped
  BY <1>1, <1>6 DEF Task, Tasks
<1>8. DOMAIN Visits(e) = 1..(n - skipped)
      /\ \A i \in DOMAIN Visits(e) : Visits(e)[i] = Task("visit", e, i + skipped, e)
  BY <1>3
<1>9. Visits(e) \in Seq(Tasks)
  BY <1>3, <1>5, <1>7
<1>10. \A i, j \in DOMAIN Visits(e) : Visits(e)[i].k = Visits(e)[j].k => i = j
  <2>1. SUFFICES ASSUME NEW i \in 1..(n - skipped), NEW j \in 1..(n - skipped),
                        i + skipped = j + skipped
                 PROVE  i = j
    BY <1>7, <1>8
  <2>2. QED
    BY <1>2, <2>1
<1>11. ASSUME NEW k \in DOMAIN refs[e], IsVisited(refs[e][k])
       PROVE  \E i \in DOMAIN Visits(e) : Visits(e)[i].k = k
  <2>1. k > skipped /\ k \in 1..n
    BY <1>2, <1>4, <1>11
  <2>2. k - skipped \in 1..(n - skipped) /\ (k - skipped) + skipped = k
    BY <1>2, <2>1
  <2>3. QED
    BY <1>7, <1>8, <2>2
<1>12. \A i \in DOMAIN Visits(e) :
         /\ Visits(e)[i].op = "visit" /\ Visits(e)[i].holder = e
         /\ Visits(e)[i].k \in DOMAIN refs[e]
         /\ IsVisited(refs[e][Visits(e)[i].k])
  <2>1. SUFFICES ASSUME NEW i \in 1..(n - skipped)
                 PROVE  /\ Visits(e)[i].op = "visit" /\ Visits(e)[i].holder = e
                        /\ Visits(e)[i].k \in DOMAIN refs[e]
                        /\ IsVisited(refs[e][Visits(e)[i].k])
    BY <1>8
  <2>2. Visits(e)[i] = Task("visit", e, i + skipped, e)
    BY <1>8
  <2>3. i + skipped \in DOMAIN refs[e] /\ IsVisited(refs[e][i + skipped])
    BY <1>2, <1>4, <1>6
  <2>4. QED
    BY <1>7, <2>2, <2>3
<1>13. QED
  BY <1>9, <1>10, <1>11, <1>12

-----------------------------------------------------------------------------
(* What a set of entities reaches. *)

\* What a visited reference of a reached entity denotes is reached.
LEMMA ReachStep ==
    ASSUME NEW S, NEW x \in Reach(S, IsVisited), NEW i \in DOMAIN refs[x],
           IsVisited(refs[x][i]), refs[x][i].of \in DOMAIN refs
    PROVE  refs[x][i].of \in Reach(S, IsVisited)
  BY DEF Reach, Closed

\* A closed set that has the set has all that it reaches.
LEMMA ReachLeast ==
    ASSUME NEW S, NEW T, T \subseteq DOMAIN refs, S \subseteq T, Closed(T, IsVisited)
    PROVE  Reach(S, IsVisited) \subseteq T
  BY DEF Reach

-----------------------------------------------------------------------------
(* Tracing: the invariant. *)

\* A task that is still to be done when an entity has been entered.
Remains(t, e) ==
    /\ t \in Tasks /\ t.op \in {"visit", "store"}
    /\ t.holder \in DOMAIN refs /\ Traced(t.holder)
    /\ t.k \in DOMAIN refs[t.holder] /\ IsVisited(refs[t.holder][t.k])
    /\ t.op = "store" =>
        /\ t.found \in DOMAIN refs /\ (Traced(t.found) \/ t.found = e)
        /\ t.found[1] = refs[t.holder][t.k].pool
    /\ Reliable(t.holder) =>
        IF t.op = "visit" THEN Deref(refs[t.holder][t.k]) = refs[t.holder][t.k].of
        ELSE t.found = refs[t.holder][t.k].of

\* Such tasks, with nothing listed twice and nothing missing.
Rest(rest, e) ==
    /\ rest \in Seq(Tasks)
    /\ \A i \in DOMAIN rest : Remains(rest[i], e)
    /\ \A i, j \in DOMAIN rest :
        Reliable(rest[i].holder) /\ rest[i].holder = rest[j].holder /\ rest[i].k = rest[j].k => i = j
    /\ \A x \in DOMAIN refs : Traced(x) /\ Reliable(x) =>
        \A k \in DOMAIN refs[x] : IsVisited(refs[x][k]) =>
            (\E i \in DOMAIN rest : rest[i].holder = x /\ rest[i].k = k) \/ Handled(refs[x][k])

\* Entering an entity keeps the invariant, when what is left to do is what has to
\* be done and the entity is reached.
LEMMA EnterInvariant ==
    ASSUME IInv, phase = "tracing", NEW e \in DOMAIN refs, NEW rest, Rest(rest, e), Enter(e, rest),
           UNCHANGED <<store, kind, refs, compounds, phase>>,
           Traced(Builtin) \/ e = Builtin,
           \A r \in client' :
                \/ r \in client
                \/ r.pool = e[1] /\ r.at = NewPlace(e, chosen') /\ r.of = e,
           client \subseteq client',
           ~retraced' => e \in Reach(Roots, IsVisited)'
    PROVE  IInv'
<1>1. /\ store' = store /\ kind' = kind /\ refs' = refs /\ compounds' = compounds
      /\ phase' = "tracing" /\ Mark(e)
      /\ stack' = (IF Skipped(e) THEN <<>> ELSE Visits(e)) \o rest
      /\ seen' = IF e[1] = "overload" THEN seen \cup {e} ELSE seen
      /\ retraced' = (retraced \/ e \in seen)
  BY DEF Enter
<1>2. /\ TypeOK /\ StoreInv /\ ChosenInv /\ RefsInv /\ TypesInv /\ UniqueInv /\ TracingInv
      /\ phase # "collected"
  BY DEF IInv
<1>3. /\ chosen' \in [Pools -> Seq(Entities)]
      /\ ChosenInv'
      /\ \A p \in Pools : \A i \in DOMAIN chosen[p] :
            i \in DOMAIN chosen'[p] /\ chosen'[p][i] = chosen[p][i]
      /\ \A x \in DOMAIN refs : Traced(x)' <=> Traced(x) \/ x = e
  BY <1>1, <1>2, EnterFacts
<1>4. ~retraced' => ~retraced /\ e \notin seen
  BY <1>1, Zenon
<1>5. \A x \in DOMAIN refs : Reliable(x)' => Reliable(x)
  BY <1>1 DEF Reliable
<1>6. ASSUME Traced(e), ~Skipped(e), Reliable(e)' PROVE FALSE
  <2>1. e[1] = "overload" /\ e \in seen
    BY <1>6 DEF Traced, Skipped
  <2>2. QED
    BY <1>1, <1>6, <2>1 DEF Reliable
<1>7. ASSUME NEW r, r.of \in DOMAIN refs, r.pool \in Pools, Settled(r)
      PROVE  Settled(r)'
  <2>1. Traced(r.of)'
    BY <1>3, <1>7 DEF Settled
  <2>2. r.pool # "overload" => r.at \in DOMAIN chosen'[r.pool] /\ chosen'[r.pool][r.at] = r.of
    BY <1>3, <1>7 DEF Settled
  <2>3. QED
    BY <2>1, <2>2 DEF Settled
<1> DEFINE first == IF Skipped(e) THEN <<>> ELSE Visits(e)
           n == Len(first)
<1>8. /\ first \in Seq(Tasks)
      /\ \A i \in DOMAIN first :
            /\ ~Skipped(e)
            /\ first[i].op = "visit" /\ first[i].holder = e
            /\ first[i].k \in DOMAIN refs[e] /\ IsVisited(refs[e][first[i].k])
      /\ \A i, j \in DOMAIN first : first[i].k = first[j].k => i = j
      /\ ~Skipped(e) => \A k \in DOMAIN refs[e] :
            IsVisited(refs[e][k]) => \E i \in DOMAIN first : first[i].k = k
  BY <1>2, VisitsFacts
<1>9. stack' = first \o rest
  BY <1>1
<1> HIDE DEF first
<1>10. rest \in Seq(Tasks) /\ \A i \in DOMAIN rest : Remains(rest[i], e)
  BY DEF Rest
<1>11. /\ stack' \in Seq(Tasks)
       /\ n \in Nat
       /\ \A i \in DOMAIN first : i \in DOMAIN stack' /\ stack'[i] = first[i]
       /\ \A i \in DOMAIN rest : i + n \in DOMAIN stack' /\ stack'[i + n] = rest[i]
       /\ \A i \in DOMAIN stack' : i \in Nat
            /\ (i \in DOMAIN first \/ (i - n \in DOMAIN rest /\ (i - n) + n = i))
  BY <1>8, <1>9, <1>10, ConcatFacts
<1> HIDE DEF n
<1>12. ASSUME NEW i \in DOMAIN stack'
       PROVE  \/ i \in DOMAIN first /\ stack'[i] = first[i]
              \/ i - n \in DOMAIN rest /\ stack'[i] = rest[i - n]
  BY <1>11
<1>13. ASSUME NEW t, Remains(t, e) PROVE TaskInv(t)' /\ t.op # "builtin"
  <2>1. /\ t.op \in {"visit", "store"}
        /\ t.holder \in DOMAIN refs' /\ Traced(t.holder)'
        /\ t.k \in DOMAIN refs'[t.holder] /\ IsVisited(refs'[t.holder][t.k])
    BY <1>1, <1>3, <1>13 DEF Remains
  <2>2. t.op = "store" =>
            /\ t.found \in DOMAIN refs' /\ Traced(t.found)'
            /\ t.found[1] = refs'[t.holder][t.k].pool
    BY <1>1, <1>3, <1>13 DEF Remains
  <2>3. Reliable(t.holder)' =>
            IF t.op = "visit" THEN Deref(refs[t.holder][t.k])' = refs'[t.holder][t.k].of
            ELSE t.found = refs'[t.holder][t.k].of
    BY <1>1, <1>5, <1>13 DEF Remains, Deref
  <2>4. QED
    BY <2>1, <2>2, <2>3 DEF TaskInv
<1>14. ASSUME NEW t, NEW i \in DOMAIN first, t = first[i] PROVE TaskInv(t)' /\ t.op # "builtin"
  <2>1. /\ t.op = "visit" /\ t.holder = e /\ e \in DOMAIN refs' /\ Traced(e)'
        /\ t.k \in DOMAIN refs'[e] /\ IsVisited(refs'[e][t.k])
    BY <1>1, <1>3, <1>8, <1>14
  <2>2. ASSUME Reliable(e)' PROVE Deref(refs[e][t.k])' = refs'[e][t.k].of
    <3>1. ~Traced(e)
      BY <1>6, <1>8, <2>2
    <3>2. \A k \in DOMAIN refs[e] : Deref(refs[e][k]) = refs[e][k].of
      BY <1>2, <3>1 DEF TracingInv
    <3>3. QED
      BY <1>1, <2>1, <3>2 DEF Deref
  <2>3. Reliable(t.holder)' => Deref(refs[t.holder][t.k])' = refs'[t.holder][t.k].of
    BY <2>1, <2>2
  <2>4. QED
    BY <2>1, <2>3 DEF TaskInv
<1>15. ASSUME NEW i \in DOMAIN stack' PROVE TaskInv(stack[i])' /\ stack'[i].op # "builtin"
  <2>1. PICK t : t = stack'[i]
    OBVIOUS
  <2>2. TaskInv(t)' /\ t.op # "builtin"
    BY <1>10, <1>12, <1>13, <1>14, <2>1
  <2>3. QED
    BY <2>1, <2>2 DEF TaskInv
<1>16. ASSUME NEW i \in DOMAIN stack', NEW j \in DOMAIN stack', Reliable(stack[i].holder)',
              stack'[i].holder = stack'[j].holder, stack'[i].k = stack'[j].k
       PROVE  i = j
  <2>1. CASE i \in DOMAIN first /\ j \in DOMAIN first
    BY <1>8, <1>11, <1>16, <2>1
  <2>2. ASSUME NEW l \in DOMAIN first, NEW m \in DOMAIN rest, first[l].holder = rest[m].holder,
               Reliable(e)'
        PROVE  FALSE
    <3>1. first[l].holder = e /\ ~Skipped(e)
      BY <1>8
    <3>2. Traced(e)
      BY <1>10, <2>2, <3>1 DEF Remains
    <3>3. QED
      BY <1>6, <2>2, <3>1, <3>2
  <2>3. CASE i \in DOMAIN first /\ j - n \in DOMAIN rest /\ stack'[j] = rest[j - n]
    <3>1. first[i] = stack'[i]
      BY <1>11, <2>3
    <3>2. Reliable(e)'
      <4>1. stack'[i].holder = e
        BY <1>8, <1>16, <3>1, <2>3
      <4>2. QED
        BY <1>16, <4>1 DEF Reliable
    <3>3. QED
      BY <1>16, <2>2, <2>3, <3>1, <3>2
  <2>4. CASE j \in DOMAIN first /\ i - n \in DOMAIN rest /\ stack'[i] = rest[i - n]
    <3>1. first[j] = stack'[j]
      BY <1>11, <2>4
    <3>2. Reliable(e)'
      <4>1. stack'[i].holder = e
        BY <1>8, <1>16, <3>1, <2>4
      <4>2. QED
        BY <1>16, <4>1 DEF Reliable
    <3>3. QED
      BY <1>16, <2>2, <2>4, <3>1, <3>2
  <2>5. CASE /\ i - n \in DOMAIN rest /\ stack'[i] = rest[i - n]
             /\ j - n \in DOMAIN rest /\ stack'[j] = rest[j - n]
    <3>1. rest[i - n].holder \in DOMAIN refs
      BY <1>10, <2>5 DEF Remains
    <3>2. Reliable(rest[i - n].holder)
      <4>1. PICK x \in DOMAIN refs : x = stack'[i].holder
        BY <2>5, <3>1
      <4>2. Reliable(x)'
        BY <1>16, <4>1 DEF Reliable
      <4>3. QED
        BY <1>5, <2>5, <4>1, <4>2
    <3>3. i - n = j - n
      BY <1>16, <2>5, <3>2 DEF Rest
    <3>4. QED
      BY <1>11, <3>3
  <2>6. QED
    BY <1>12, <2>1, <2>3, <2>4, <2>5
<1>17. StackInv'
  BY <1>1, <1>11, <1>15, <1>16 DEF StackInv
<1>18. ASSUME NEW x \in DOMAIN refs, Traced(x)', Reliable(x)', NEW k \in DOMAIN refs[x],
              IsVisited(refs[x][k])
       PROVE  Pending(x, k)' \/ Handled(refs[x][k])'
  <2>1. CASE Traced(x)
    <3>1. (\E i \in DOMAIN rest : rest[i].holder = x /\ rest[i].k = k) \/ Handled(refs[x][k])
      BY <1>5, <1>18, <2>1 DEF Rest
    <3>2. CASE Handled(refs[x][k])
      <4>1. PICK r : r = refs[x][k]
        OBVIOUS
      <4>2. r.of \in DOMAIN refs /\ r.pool \in Pools /\ Handled(r)
        BY <1>2, <3>2, <4>1, RefFacts DEF RefsInv
      <4>3. CASE ByValue(r)
        <5>1. Traced(r.of)'
          BY <1>3, <4>2, <4>3 DEF Handled
        <5>2. QED
          BY <1>1, <4>1, <4>3, <5>1 DEF Handled, ByValue
      <4>4. CASE ~ByValue(r)
        <5>1. Settled(r)'
          BY <1>7, <4>2, <4>4 DEF Handled
        <5>2. QED
          BY <1>1, <4>1, <4>4, <5>1 DEF Handled, Settled, ByValue
      <4>5. QED
        BY <4>3, <4>4
    <3>3. CASE \E i \in DOMAIN rest : rest[i].holder = x /\ rest[i].k = k
      BY <1>11, <3>3 DEF Pending
    <3>4. QED
      BY <3>1, <3>2, <3>3
  <2>2. CASE ~Traced(x)
    <3>1. x = e
      BY <1>3, <1>18, <2>2
    <3>2. ~Skipped(e)
      BY <2>2, <3>1 DEF Traced, Skipped
    <3>3. PICK i \in DOMAIN first : first[i].k = k
      BY <1>8, <1>18, <3>1, <3>2
    <3>4. stack'[i].holder = x /\ stack'[i].k = k /\ i \in DOMAIN stack'
      BY <1>8, <1>11, <3>1, <3>3
    <3>5. QED
      BY <3>4 DEF Pending
  <2>3. QED
    BY <2>1, <2>2
<1>19. ASSUME ~retraced', NEW x \in DOMAIN refs, Traced(x)'
       PROVE  x \in Reach(Roots, IsVisited)'
  <2>1. CASE x = e
    BY <1>19, <2>1
  <2>2. CASE x # e
    <3>1. Traced(x)
      BY <1>3, <1>19, <2>2
    <3>2. x \in Reach(Roots, IsVisited)
      BY <1>2, <1>4, <1>19, <3>1 DEF TracingInv
    <3>3. Roots \subseteq Roots'
      BY DEF Roots, Builtin
    <3>4. QED
      BY <1>1, <3>2, <3>3 DEF Reach, Closed, IsVisited
  <2>3. QED
    BY <2>1, <2>2
<1>20. ASSUME NEW r \in client'
       PROVE  r.of \in DOMAIN refs /\ r.pool = r.of[1] /\ Settled(r)'
  <2>1. CASE r \in client
    <3>1. r.of \in DOMAIN refs /\ r.pool = r.of[1] /\ Settled(r)
      BY <1>2, <2>1 DEF TracingInv
    <3>2. r.pool \in Pools
      BY <1>2, <3>1, Found
    <3>3. QED
      BY <1>7, <3>1, <3>2
  <2>2. CASE r.pool = e[1] /\ r.at = NewPlace(e, chosen') /\ r.of = e
    <3>1. Traced(e)'
      BY <1>3
    <3>2. ASSUME e[1] # "overload"
          PROVE  r.at \in DOMAIN chosen'[e[1]] /\ chosen'[e[1]][r.at] = e
      <4>1. e \in Members(chosen'[e[1]])
        BY <3>1, <3>2 DEF Traced, Members
      <4>2. r.at = PlaceIn(chosen'[e[1]], e)
        BY <2>2, <4>1 DEF NewPlace
      <4>3. QED
        BY <4>1, <4>2, PlaceInIsPlace
    <3>3. QED
      BY <2>2, <3>1, <3>2 DEF Settled
  <2>3. QED
    BY <2>1, <2>2
<1>21. TracingInv'
  <2>1. seen' \subseteq DOMAIN refs'
    BY <1>1, <1>2 DEF TracingInv
  <2>2. Traced(Builtin)'
    <3>1. Builtin \in DOMAIN refs
      BY <1>2 DEF StoreInv
    <3>2. QED
      BY <1>3, <3>1
  <2>3. \A x \in DOMAIN refs' : \A i \in DOMAIN refs'[x] :
            ~Traced(x)' \/ ByValue(refs'[x][i]) => Deref(refs[x][i])' = refs'[x][i].of
    BY <1>1, <1>2, <1>3 DEF TracingInv, Deref
  <2>4. \A x \in DOMAIN refs' : Traced(x)' /\ Reliable(x)' =>
            \A i \in DOMAIN refs'[x] : IsVisited(refs'[x][i]) => Pending(x, i)' \/ Handled(refs[x][i])'
    BY <1>1, <1>18
  <2>5. QED
    BY <1>1, <1>19, <1>20, <2>1, <2>2, <2>3, <2>4 DEF TracingInv
<1>22. TypeOK'
  <2>1. (Live \subseteq DOMAIN refs)' /\ Fits(store, refs)' /\ (compounds \subseteq Types)'
    BY <1>1, <1>2 DEF TypeOK, Live, Types
  <2>2. (\A p \in Pools : Members(chosen[p]) \subseteq Members(store[p]))'
    BY <1>3 DEF ChosenInv
  <2>3. \A i \in DOMAIN stack' :
            stack'[i].op \in {"visit", "store"} /\ stack'[i].k \in DOMAIN refs'[stack'[i].holder]
    BY <1>15 DEF TaskInv
  <2>4. QED
    BY <1>1, <2>1, <2>2, <2>3 DEF TypeOK
<1>23. StoreInv' /\ RefsInv' /\ TypesInv' /\ UniqueInv'
  <2>1. StoreInv'
    BY <1>1, <1>2, <1>3 DEF StoreInv, Live
  <2>2. RefsInv'
    BY <1>1, <1>2 DEF RefsInv
  <2>3. TypesInv'
    BY <1>1, <1>2 DEF TypesInv
  <2>4. UniqueInv'
    <3>1. SUFFICES ASSUME NEW l \in DOMAIN kind', NEW m \in DOMAIN kind', l # m,
                          kind'[l] = kind'[m], kind'[l] \in {"pack", "pointer"}
                   PROVE  Denoted(refs'[<<"type", l>>]) # Denoted(refs'[<<"type", m>>])
      BY DEF UniqueInv, Denoted
    <3>2. QED
      BY <1>1, <1>2, <3>1 DEF UniqueInv
  <2>5. QED
    BY <2>1, <2>2, <2>3, <2>4
<1>24. MutatorInv' /\ ReferencesFollow' /\ CompoundsExact' /\ Canonical' /\ SurvivorsExact'
  BY <1>1 DEF MutatorInv, ReferencesFollow, CompoundsExact, Canonical, SurvivorsExact
<1>25. QED
  BY <1>3, <1>17, <1>21, <1>22, <1>23, <1>24 DEF IInv

\* The built-in types are traced first.
LEMMA TraceBuiltinInvariant ==
    ASSUME IInv, TraceBuiltin
    PROVE  IInv'
<1>1. /\ stack # <<>> /\ Head(stack).op = "builtin" /\ Enter(Builtin, Tail(stack))
      /\ UNCHANGED <<store, kind, refs, compounds, phase>> /\ client' = client
  BY DEF TraceBuiltin
<1>2. /\ StoreInv /\ StackInv /\ TracingInv /\ phase = "tracing" /\ phase # "collected"
      /\ stack \in Seq(Tasks)
  BY <1>1 DEF IInv, StackInv
<1>3. 1 \in DOMAIN stack /\ Head(stack) = stack[1]
  BY <1>1, <1>2
<1>4. Len(stack) = 1 /\ stack[1].k = 0
  <2>1. TaskInv(stack[1])
    BY <1>2, <1>3 DEF StackInv
  <2>2. QED
    BY <1>1, <1>3, <2>1 DEF TaskInv
<1>5. Tail(stack) = <<>> /\ DOMAIN stack = {1}
  <2>1. Tail(stack) \in Seq(Tasks) /\ Len(Tail(stack)) = 0
    BY <1>1, <1>2, <1>4
  <2>2. Tail(stack) = <<>>
    BY <2>1, EmptySeq
  <2>3. DOMAIN stack = 1..1
    BY <1>2, <1>4
  <2>4. QED
    BY <2>2, <2>3
<1>6. Builtin \in DOMAIN refs
  BY <1>2 DEF StoreInv
<1>7. Rest(<<>>, Builtin)
  <2>1. ASSUME NEW x \in DOMAIN refs, NEW k \in DOMAIN refs[x], Pending(x, k) PROVE FALSE
    <3>1. k = 0
      BY <1>4, <1>5, <2>1 DEF Pending
    <3>2. refs[x] \in Seq(Reference)
      BY <1>2, RefFacts
    <3>3. QED
      BY <2>1, <3>1, <3>2
  <2>2. \A x \in DOMAIN refs : Traced(x) /\ Reliable(x) =>
            \A k \in DOMAIN refs[x] : IsVisited(refs[x][k]) => Handled(refs[x][k])
    BY <1>2, <2>1 DEF TracingInv
  <2>3. <<>> \in Seq(Tasks) /\ DOMAIN <<>> = {}
    OBVIOUS
  <2>4. QED
    BY <2>2, <2>3 DEF Rest
<1>8. ~retraced' => Builtin \in Reach(Roots, IsVisited)'
  BY <1>1, <1>6 DEF Reach, Roots, Builtin
<1>9. Enter(Builtin, <<>>)
  BY <1>1, <1>5
<1>10. QED
  BY <1>1, <1>2, <1>6, <1>7, <1>8, <1>9, EnterInvariant

\* The client has a reference traced.
LEMMA TraceRootInvariant ==
    ASSUME IInv, NEW pool \in Pools, NEW at \in DOMAIN store[pool], TraceRoot(pool, at)
    PROVE  IInv'
<1> DEFINE e == store[pool][at]
           r == [pool |-> pool, at |-> NewPlace(e, chosen'), of |-> e]
<1>1. /\ phase = "tracing" /\ stack = <<>> /\ Enter(e, <<>>)
      /\ client' = client \cup {r}
      /\ UNCHANGED <<store, kind, refs, compounds, phase>>
  BY DEF TraceRoot
<1>2. /\ StoreInv /\ StackInv /\ TracingInv /\ phase # "collected"
  BY <1>1 DEF IInv
<1>3. e = <<pool, at>> /\ e \in DOMAIN refs /\ e[1] = pool
  <2>1. e = <<pool, at>> /\ <<pool, at>> \in DOMAIN refs
    BY <1>2, Placed
  <2> HIDE DEF e, r
  <2>2. QED
    BY <2>1
<1>4. r.pool = e[1] /\ r.at = NewPlace(e, chosen') /\ r.of = e
  BY <1>3
<1> HIDE DEF e, r
<1>5. Rest(<<>>, e)
  <2>1. \A x, k : ~Pending(x, k)
    BY <1>1 DEF Pending
  <2>2. \A x \in DOMAIN refs : Traced(x) /\ Reliable(x) =>
            \A k \in DOMAIN refs[x] : IsVisited(refs[x][k]) => Handled(refs[x][k])
    BY <1>1, <1>2, <2>1 DEF TracingInv
  <2>3. <<>> \in Seq(Tasks) /\ DOMAIN <<>> = {}
    OBVIOUS
  <2>4. QED
    BY <2>2, <2>3 DEF Rest
<1>6. Traced(Builtin)
  BY <1>1, <1>2, BuiltinTask DEF TracingInv
<1>7. ~retraced' => e \in Reach(Roots, IsVisited)'
  <2>1. e \in Roots'
    BY <1>1, <1>4 DEF Roots
  <2>2. QED
    BY <1>1, <1>3, <2>1 DEF Reach
<1>8. \A q \in client' :
        q \in client \/ (q.pool = e[1] /\ q.at = NewPlace(e, chosen') /\ q.of = e)
  BY <1>1, <1>4
<1>9. QED
  BY <1>1, <1>3, <1>5, <1>6, <1>7, <1>8, EnterInvariant

\* A tracing function is entered for a reference.
LEMMA VisitInvariant ==
    ASSUME IInv, Visit
    PROVE  IInv'
<1> DEFINE h == Head(stack).holder
           k == Head(stack).k
           r == refs[h][k]
           e == Deref(r)
           t == Task("store", h, k, e)
           rest == <<t>> \o Tail(stack)
<1>1. /\ stack # <<>> /\ Head(stack).op = "visit" /\ Enter(e, rest)
      /\ UNCHANGED <<store, kind, refs, compounds, phase>> /\ client' = client
  BY DEF Visit
<1>2. /\ StoreInv /\ RefsInv /\ StackInv /\ TracingInv /\ phase = "tracing" /\ phase # "collected"
      /\ stack \in Seq(Tasks)
  BY <1>1 DEF IInv, StackInv
<1>3. 1 \in DOMAIN stack /\ Head(stack) = stack[1] /\ Head(stack) \in Tasks
  BY <1>1, <1>2
<1>4. /\ h \in DOMAIN refs /\ Traced(h) /\ k \in DOMAIN refs[h] /\ IsVisited(r)
      /\ Reliable(h) => Deref(r) = r.of
  <2>1. TaskInv(stack[1])
    BY <1>2, <1>3 DEF StackInv
  <2>2. QED
    BY <1>1, <1>3, <2>1 DEF TaskInv
<1>5. /\ r.of \in DOMAIN refs /\ r.pool \in Pools /\ r.at \in DOMAIN store[r.pool]
      /\ h \in Entities /\ k \in Nat
  <2>1. r.of \in DOMAIN refs /\ r.at \in DOMAIN store[r.pool]
    BY <1>2, <1>4 DEF RefsInv
  <2>2. h \in Entities /\ k \in Nat
    BY <1>3 DEF Tasks
  <2>3. QED
    BY <1>2, <1>4, <2>1, <2>2, RefFacts
<1>6. e \in DOMAIN refs /\ e \in Entities /\ e[1] = r.pool
  <2>1. e = <<r.pool, r.at>> /\ <<r.pool, r.at>> \in DOMAIN refs /\ <<r.pool, r.at>> \in Entities
    BY <1>2, <1>5, Placed DEF Deref
  <2> HIDE DEF e, r
  <2>2. QED
    BY <2>1
<1> HIDE DEF e
<1>7. /\ t \in Tasks /\ t.op = "store" /\ t.holder = h /\ t.k = k /\ t.found = e
  BY <1>5, <1>6 DEF Task, Tasks
<1> HIDE DEF t, h, k, r
<1>8. Tail(stack) \in Seq(Tasks) /\ Len(Tail(stack)) = Len(stack) - 1 /\ Len(stack) \in Nat
      /\ \A i \in DOMAIN stack : i # 1 => i - 1 \in DOMAIN Tail(stack) /\ Tail(stack)[i - 1] = stack[i]
  BY <1>1, <1>2
<1>9. /\ rest \in Seq(Tasks) /\ Len(rest) = Len(stack) /\ DOMAIN rest = DOMAIN stack
      /\ rest[1] = t
      /\ \A i \in DOMAIN stack : i # 1 => rest[i] = stack[i]
  <2>1. <<t>> \in Seq(Tasks) /\ rest = <<t>> \o Tail(stack) /\ stack \in Seq(Tasks)
    BY <1>2, <1>7
  <2> HIDE DEF rest
  <2>2. rest \in Seq(Tasks) /\ Len(rest) = Len(stack) /\ rest[1] = t
    BY <1>8, <2>1
  <2>3. DOMAIN rest = DOMAIN stack
    BY <2>1, <2>2
  <2>4. \A i \in DOMAIN Tail(stack) : rest[i + 1] = Tail(stack)[i]
    BY <1>8, <2>1
  <2>5. \A i \in DOMAIN stack : i # 1 => rest[i] = stack[i]
    <3>1. SUFFICES ASSUME NEW i \in DOMAIN stack, i # 1 PROVE rest[i] = stack[i]
      OBVIOUS
    <3>2. i - 1 \in DOMAIN Tail(stack) /\ Tail(stack)[i - 1] = stack[i] /\ (i - 1) + 1 = i
      BY <1>8, <2>1, <3>1
    <3>3. QED
      BY <2>4, <3>2
  <2>6. QED
    BY <2>2, <2>3, <2>5
<1> HIDE DEF rest
<1>10. \A i \in DOMAIN stack : rest[i].holder = stack[i].holder /\ rest[i].k = stack[i].k
  BY <1>3, <1>7, <1>9 DEF h, k
<1>11. ASSUME NEW i \in DOMAIN rest PROVE Remains(rest[i], e)
  <2>1. CASE i = 1
    <3>1. Reliable(h) => t.found = refs[h][k].of
      BY <1>4, <1>7 DEF e, r
    <3>2. t.found[1] = refs[h][k].pool /\ IsVisited(refs[h][k])
      BY <1>4, <1>6, <1>7 DEF r
    <3>3. Remains(t, e)
      BY <1>4, <1>6, <1>7, <3>1, <3>2 DEF Remains
    <3>4. QED
      BY <1>9, <2>1, <3>3
  <2>2. CASE i # 1
    <3>1. rest[i] = stack[i] /\ TaskInv(stack[i]) /\ stack[i] \in Tasks
      BY <1>2, <1>9, <2>2 DEF StackInv
    <3>2. Len(stack) # 1
      BY <1>2, <1>9, <2>2
    <3>3. Remains(stack[i], e)
      BY <3>1, <3>2 DEF TaskInv, Remains
    <3>4. QED
      BY <3>1, <3>3
  <2>3. QED
    BY <2>1, <2>2
<1>12. Rest(rest, e)
  <2>1. ASSUME NEW i \in DOMAIN rest, NEW j \in DOMAIN rest, Reliable(rest[i].holder),
               rest[i].holder = rest[j].holder, rest[i].k = rest[j].k
        PROVE  i = j
    BY <1>2, <1>9, <1>10, <2>1 DEF StackInv
  <2>2. ASSUME NEW x \in DOMAIN refs, Traced(x), Reliable(x), NEW l \in DOMAIN refs[x],
               IsVisited(refs[x][l])
        PROVE  (\E i \in DOMAIN rest : rest[i].holder = x /\ rest[i].k = l) \/ Handled(refs[x][l])
    <3>1. Pending(x, l) \/ Handled(refs[x][l])
      BY <1>2, <2>2 DEF TracingInv
    <3>2. QED
      BY <1>9, <1>10, <3>1 DEF Pending
  <2>3. QED
    BY <1>9, <1>11, <2>1, <2>2 DEF Rest
<1>13. Traced(Builtin)
  BY <1>1, <1>2, <1>3, BuiltinTask DEF TracingInv
<1>14. ~retraced' => e \in Reach(Roots, IsVisited)'
  <2>1. SUFFICES ASSUME ~retraced' PROVE e \in Reach(Roots, IsVisited)'
    OBVIOUS
  <2>2. ~retraced
    BY <1>1, <2>1 DEF Enter
  <2>3. h \in Reach(Roots, IsVisited)
    BY <1>2, <1>4, <2>2 DEF TracingInv
  <2>4. e = refs[h][k].of
    BY <1>4, <2>2 DEF Reliable, e, r
  <2>5. e \in Reach(Roots, IsVisited)
    BY <1>4, <1>5, <2>3, <2>4, ReachStep DEF r
  <2>6. QED
    BY <1>1, <2>5 DEF Reach, Closed, IsVisited, Roots, Builtin
<1>15. QED
  BY <1>1, <1>2, <1>6, <1>12, <1>13, <1>14, EnterInvariant

\* The reference is pointed to where what it denotes will be.
LEMMA StoreInvariant ==
    ASSUME IInv, Store
    PROVE  IInv'
<1> DEFINE h == Head(stack).holder
           k == Head(stack).k
           f == Head(stack).found
           place == NewPlace(f, chosen)
<1>1. /\ stack # <<>> /\ Head(stack).op = "store" /\ stack' = Tail(stack)
      /\ refs' = Updated(Head(stack))
      /\ store' = store /\ chosen' = chosen /\ kind' = kind /\ compounds' = compounds
      /\ phase' = phase /\ client' = client /\ seen' = seen /\ retraced' = retraced
  BY DEF Store
<1>2. /\ TypeOK /\ StoreInv /\ ChosenInv /\ RefsInv /\ TypesInv /\ UniqueInv
      /\ StackInv /\ TracingInv /\ phase = "tracing" /\ phase # "collected"
      /\ stack \in Seq(Tasks)
  BY <1>1 DEF IInv, StackInv
<1>3. 1 \in DOMAIN stack /\ Head(stack) = stack[1] /\ Head(stack) \in Tasks
  BY <1>1, <1>2
<1>4. /\ h \in DOMAIN refs /\ Traced(h) /\ k \in DOMAIN refs[h] /\ IsVisited(refs[h][k])
      /\ f \in DOMAIN refs /\ Traced(f) /\ f[1] = refs[h][k].pool
      /\ Reliable(h) => f = refs[h][k].of
  <2>1. TaskInv(stack[1])
    BY <1>2, <1>3 DEF StackInv
  <2>2. QED
    BY <1>1, <1>3, <2>1 DEF TaskInv
<1> HIDE DEF h, k, f, place
<1>5. /\ refs[h] \in Seq(Reference) /\ refs[h][k] \in Reference /\ refs[h][k].pool \in Pools
      /\ refs[h][k].of \in DOMAIN refs
  BY <1>2, <1>4, RefFacts DEF RefsInv
<1>6. /\ place \in Nat /\ place \in DOMAIN store[f[1]]
      /\ f[1] # "overload" => place \in DOMAIN chosen[f[1]] /\ chosen[f[1]][place] = f
  <2>1. f[1] \in Pools
    BY <1>4, <1>5
  <2>2. CASE f \in Members(chosen[f[1]])
    <3>1. place = PlaceIn(chosen[f[1]], f)
      BY <2>2 DEF place, NewPlace
    <3>2. place \in DOMAIN chosen[f[1]] /\ chosen[f[1]][place] = f
      BY <2>2, <3>1, PlaceInIsPlace
    <3>3. DOMAIN chosen[f[1]] \subseteq DOMAIN store[f[1]]
      BY <1>2, <2>1, ChosenFits
    <3>4. place \in Nat
      BY <1>2, <2>1, <3>2 DEF StoreInv
    <3>5. QED
      BY <3>2, <3>3, <3>4
  <2>3. CASE f \notin Members(chosen[f[1]])
    <3>1. place = PlaceIn(store[f[1]], f)
      BY <2>3 DEF place, NewPlace
    <3>2. f \in Members(store[f[1]])
      BY <1>2, <1>4, Found
    <3>3. place \in DOMAIN store[f[1]]
      BY <3>1, <3>2, PlaceInIsPlace
    <3>4. place \in Nat
      BY <1>2, <2>1, <3>3 DEF StoreInv
    <3>5. f[1] = "overload"
      BY <1>4, <2>3 DEF Traced
    <3>6. QED
      BY <3>3, <3>4, <3>5
  <2>4. QED
    BY <2>2, <2>3
<1>7. /\ DOMAIN refs' = DOMAIN refs
      /\ \A x \in DOMAIN refs : x # h => refs'[x] = refs[x]
      /\ IF ByValue(refs[h][k]) THEN refs'[h] = refs[h]
         ELSE refs'[h] = [refs[h] EXCEPT ![k] = [refs[h][k] EXCEPT !.at = place]]
  <2>1. refs' = IF ByValue(refs[h][k]) THEN refs ELSE [refs EXCEPT ![h][k].at = place]
    BY <1>1 DEF Updated, h, k, f, place
  <2>2. QED
    BY <1>2, <1>4, <2>1 DEF StoreInv
<1>8. /\ DOMAIN refs'[h] = DOMAIN refs[h] /\ Len(refs'[h]) = Len(refs[h])
      /\ refs'[h] \in Seq(Reference)
      /\ \A i \in DOMAIN refs[h] : i # k => refs'[h][i] = refs[h][i]
      /\ refs'[h][k] = IF ByValue(refs[h][k]) THEN refs[h][k] ELSE [refs[h][k] EXCEPT !.at = place]
  <2>1. CASE ByValue(refs[h][k])
    BY <1>5, <1>7, <2>1
  <2>2. CASE ~ByValue(refs[h][k])
    <3> DEFINE r == [refs[h][k] EXCEPT !.at = place]
    <3>1. r \in Reference
      BY <1>5, <1>6 DEF Reference
    <3>2. refs'[h] = [refs[h] EXCEPT ![k] = r]
      BY <1>7, <2>2
    <3> HIDE DEF r
    <3>3. /\ DOMAIN refs'[h] = DOMAIN refs[h] /\ Len(refs'[h]) = Len(refs[h])
          /\ refs'[h] \in Seq(Reference)
      BY <1>4, <1>5, <3>1, <3>2
    <3>4. /\ \A i \in DOMAIN refs[h] : i # k => refs'[h][i] = refs[h][i]
          /\ refs'[h][k] = r
      BY <1>4, <3>2
    <3>5. QED
      BY <2>2, <3>3, <3>4 DEF r
  <2>3. QED
    BY <2>1, <2>2
<1>9. /\ refs'[h][k].role = refs[h][k].role /\ refs'[h][k].pool = refs[h][k].pool
      /\ refs'[h][k].of = refs[h][k].of
      /\ IF ByValue(refs[h][k]) THEN refs'[h][k] = refs[h][k] ELSE refs'[h][k].at = place
  BY <1>5, <1>8 DEF Reference
<1>10. \A x \in DOMAIN refs : DOMAIN refs'[x] = DOMAIN refs[x] /\ Len(refs'[x]) = Len(refs[x])
  BY <1>7, <1>8
<1>11. ASSUME NEW x \in DOMAIN refs, NEW i \in DOMAIN refs[x]
       PROVE  /\ refs'[x][i].role = refs[x][i].role /\ refs'[x][i].pool = refs[x][i].pool
              /\ refs'[x][i].of = refs[x][i].of
              /\ refs'[x][i] = refs[x][i] \/ (x = h /\ i = k /\ ~ByValue(refs[x][i]))
  <2>1. CASE x = h /\ i = k
    <3>1. CASE ByValue(refs[h][k])
      BY <1>9, <2>1, <3>1
    <3>2. CASE ~ByValue(refs[h][k])
      BY <1>9, <2>1, <3>2
    <3>3. QED
      BY <3>1, <3>2
  <2>2. CASE ~(x = h /\ i = k)
    BY <1>7, <1>8, <2>2
  <2>3. QED
    BY <2>1, <2>2
<1>12. StoreInv'
  <2>1. refs' \in [DOMAIN refs' -> Seq(Reference)]
    <3>1. CASE ByValue(refs[h][k])
      BY <1>1, <1>2, <3>1 DEF StoreInv, Updated, h, k
    <3>2. CASE ~ByValue(refs[h][k])
      <4>1. refs' = [refs EXCEPT ![h][k].at = place]
        BY <1>1, <3>2 DEF Updated, h, k, f, place
      <4>2. QED
        BY <1>2, <1>7, <1>8, <4>1 DEF StoreInv
    <3>3. QED
      BY <3>1, <3>2
  <2>2. QED
    BY <1>1, <1>2, <1>7, <2>1 DEF StoreInv, Live
<1>13. ChosenInv'
  BY <1>1, <1>2 DEF ChosenInv
<1>14. RefsInv'
  <2>1. SUFFICES ASSUME NEW x \in DOMAIN refs, NEW i \in DOMAIN refs[x]
                 PROVE  LET r == refs'[x][i] IN
                        /\ r.of \in DOMAIN refs /\ r.of[1] = r.pool
                        /\ r.role = "overcall" <=> r.pool = "overload"
                        /\ r.role = "param" => i = 1
                        /\ r.at \in DOMAIN store[r.pool]
    BY <1>1, <1>7, <1>10 DEF RefsInv
  <2>2. LET r == refs[x][i] IN
        /\ r.of \in DOMAIN refs /\ r.of[1] = r.pool
        /\ r.role = "overcall" <=> r.pool = "overload"
        /\ r.role = "param" => i = 1
        /\ r.at \in DOMAIN store[r.pool]
    BY <1>2 DEF RefsInv
  <2>3. CASE refs'[x][i] = refs[x][i]
    BY <2>2, <2>3
  <2>4. CASE x = h /\ i = k /\ ~ByValue(refs[x][i])
    BY <1>4, <1>6, <1>9, <2>2, <2>4
  <2>5. QED
    BY <1>11, <2>3, <2>4
<1>15. TypesInv'
  <2>1. \A n \in DOMAIN kind : <<"type", n>> \in DOMAIN refs
    BY <1>2, TypePlaces
  <2>2. \A n \in DOMAIN kind : kind[n] \in {"pack", "pointer"} =>
            \A i \in DOMAIN refs[<<"type", n>>] :
                refs[<<"type", n>>][i].role = PartRole(kind[n]) /\ refs[<<"type", n>>][i].pool = "type"
    BY <1>2 DEF TypesInv
  <2>3. \A n \in DOMAIN kind : kind[n] \in {"pack", "pointer"} =>
            \A i \in DOMAIN refs'[<<"type", n>>] :
                refs'[<<"type", n>>][i].role = PartRole(kind[n]) /\ refs'[<<"type", n>>][i].pool = "type"
    BY <1>10, <1>11, <2>1, <2>2
  <2>4. QED
    BY <1>1, <1>2, <2>3 DEF TypesInv
<1>16. UniqueInv'
  <2>1. SUFFICES ASSUME NEW l \in DOMAIN kind', NEW m \in DOMAIN kind', l # m,
                        kind'[l] = kind'[m], kind'[l] \in {"pack", "pointer"}
                 PROVE  Denoted(refs'[<<"type", l>>]) # Denoted(refs'[<<"type", m>>])
    BY DEF UniqueInv, Denoted
  <2>2. ASSUME NEW x \in DOMAIN refs PROVE Denoted(refs'[x]) = Denoted(refs[x])
    <3>1. DOMAIN refs'[x] = DOMAIN refs[x]
      BY <1>10
    <3>2. \A i \in DOMAIN refs[x] : refs'[x][i].role = refs[x][i].role /\ refs'[x][i].of = refs[x][i].of
      BY <1>11
    <3>3. QED
      BY <3>1, <3>2 DEF Denoted
  <2>3. <<"type", l>> \in DOMAIN refs /\ <<"type", m>> \in DOMAIN refs
    BY <1>1, <1>2, TypePlaces
  <2>4. QED
    BY <1>1, <1>2, <2>1, <2>2, <2>3 DEF UniqueInv
<1>17. /\ stack' \in Seq(Tasks) /\ Len(stack') = Len(stack) - 1 /\ Len(stack) \in Nat
       /\ \A i \in DOMAIN stack' : i + 1 \in DOMAIN stack /\ stack'[i] = stack[i + 1] /\ i \in Nat
                                   /\ i # 0
       /\ \A i \in DOMAIN stack : i # 1 => i - 1 \in DOMAIN stack' /\ stack'[i - 1] = stack[i]
  BY <1>1, <1>2
<1>18. ASSUME NEW t, NEW i \in DOMAIN stack, i # 1, t = stack[i]
       PROVE  TaskInv(t)' /\ t.op \in {"visit", "store"}
  <2>1. TaskInv(t) /\ t.op # "builtin" /\ Len(stack) # 1
    BY <1>2, <1>18 DEF StackInv, TaskInv
  <2>2. /\ t.op \in {"visit", "store"}
        /\ t.holder \in DOMAIN refs /\ Traced(t.holder)
        /\ t.k \in DOMAIN refs[t.holder] /\ IsVisited(refs[t.holder][t.k])
        /\ t.op = "store" =>
            /\ t.found \in DOMAIN refs /\ Traced(t.found)
            /\ t.found[1] = refs[t.holder][t.k].pool
        /\ Reliable(t.holder) =>
             IF t.op = "visit" THEN Deref(refs[t.holder][t.k]) = refs[t.holder][t.k].of
             ELSE t.found = refs[t.holder][t.k].of
    BY <2>1 DEF TaskInv
  <2>3. /\ t.k \in DOMAIN refs'[t.holder] /\ IsVisited(refs'[t.holder][t.k])
        /\ refs'[t.holder][t.k].pool = refs[t.holder][t.k].pool
        /\ refs'[t.holder][t.k].of = refs[t.holder][t.k].of
    BY <1>10, <1>11, <2>2 DEF IsVisited
  <2>4. Traced(t.holder)' /\ (t.op = "store" => Traced(t.found)')
    BY <1>1, <2>2 DEF Traced
  <2>5. ASSUME Reliable(t.holder)'
        PROVE  IF t.op = "visit" THEN Deref(refs[t.holder][t.k])' = refs'[t.holder][t.k].of
               ELSE t.found = refs'[t.holder][t.k].of
    <3>1. Reliable(t.holder)
      BY <1>1, <2>5 DEF Reliable
    <3>2. CASE t.op = "visit"
      <4>1. ~(t.holder = h /\ t.k = k)
        BY <1>2, <1>3, <1>18, <3>1 DEF StackInv, h, k
      <4>2. refs'[t.holder][t.k] = refs[t.holder][t.k]
        BY <1>11, <2>2, <4>1
      <4>3. Deref(refs[t.holder][t.k]) = refs[t.holder][t.k].of
        BY <2>2, <3>1, <3>2
      <4>4. QED
        BY <1>1, <3>2, <4>2, <4>3 DEF Deref
    <3>3. CASE t.op # "visit"
      BY <2>2, <2>3, <3>1, <3>3
    <3>4. QED
      BY <3>2, <3>3
  <2>6. QED
    BY <1>7, <2>2, <2>3, <2>4, <2>5 DEF TaskInv
<1>19. ASSUME NEW i \in DOMAIN stack'
       PROVE  TaskInv(stack[i])' /\ stack'[i].op \in {"visit", "store"}
  <2>1. PICK t : t = stack'[i]
    OBVIOUS
  <2>2. i + 1 \in DOMAIN stack /\ i + 1 # 1 /\ t = stack[i + 1]
    BY <1>17, <2>1
  <2>3. TaskInv(t)' /\ t.op \in {"visit", "store"}
    BY <1>18, <2>2
  <2>4. QED
    BY <2>1, <2>3 DEF TaskInv
<1>20. StackInv'
  <2>1. ASSUME NEW i \in DOMAIN stack', NEW j \in DOMAIN stack', Reliable(stack[i].holder)',
               stack'[i].holder = stack'[j].holder, stack'[i].k = stack'[j].k
        PROVE  i = j
    <3>1. stack'[i] = stack[i + 1] /\ stack'[j] = stack[j + 1]
          /\ i + 1 \in DOMAIN stack /\ j + 1 \in DOMAIN stack
      BY <1>17
    <3>2. Reliable(stack[i + 1].holder)
      BY <1>1, <2>1, <3>1 DEF Reliable
    <3>3. i + 1 = j + 1
      BY <1>2, <2>1, <3>1, <3>2 DEF StackInv
    <3>4. QED
      BY <1>17, <3>3
  <2>2. QED
    BY <1>1, <1>2, <1>17, <1>19, <2>1 DEF StackInv
<1>21. ASSUME NEW x \in DOMAIN refs, Traced(x), Reliable(x), NEW l \in DOMAIN refs[x],
              IsVisited(refs[x][l])
       PROVE  Pending(x, l)' \/ Handled(refs[x][l])'
  <2>1. CASE x = h /\ l = k
    <3>1. f = refs[h][k].of
      BY <1>4, <1>21, <2>1
    <3>2. Traced(refs'[h][k].of) /\ (ByValue(refs'[h][k]) <=> ByValue(refs[h][k]))
      BY <1>4, <1>9, <3>1 DEF ByValue
    <3>3. CASE ByValue(refs[h][k])
      BY <1>1, <2>1, <3>2, <3>3 DEF Handled, Traced, ByValue
    <3>4. CASE ~ByValue(refs[h][k])
      <4>1. refs'[h][k].pool # "overload" =>
              refs'[h][k].at \in DOMAIN chosen[refs'[h][k].pool]
              /\ chosen[refs'[h][k].pool][refs'[h][k].at] = refs'[h][k].of
        BY <1>4, <1>6, <1>9, <3>1, <3>4
      <4>2. QED
        BY <1>1, <2>1, <3>2, <3>4, <4>1 DEF Handled, Settled, Traced, ByValue
    <3>5. QED
      BY <3>3, <3>4
  <2>2. CASE ~(x = h /\ l = k)
    <3>1. refs'[x][l] = refs[x][l]
      BY <1>11, <2>2
    <3>2. CASE Handled(refs[x][l])
      <4>1. Traced(refs'[x][l].of)
        BY <3>1, <3>2 DEF Handled, Settled
      <4>2. ~ByValue(refs'[x][l]) /\ refs'[x][l].pool # "overload" =>
              refs'[x][l].at \in DOMAIN chosen[refs'[x][l].pool]
              /\ chosen[refs'[x][l].pool][refs'[x][l].at] = refs'[x][l].of
        BY <3>1, <3>2 DEF Handled, Settled
      <4>3. QED
        BY <1>1, <4>1, <4>2 DEF Handled, Settled, Traced, ByValue
    <3>3. CASE Pending(x, l)
      <4>1. PICK i \in DOMAIN stack : stack[i].holder = x /\ stack[i].k = l
        BY <3>3 DEF Pending
      <4>2. i # 1
        BY <1>3, <2>2, <4>1 DEF h, k
      <4>3. i - 1 \in DOMAIN stack' /\ stack'[i - 1] = stack[i]
        BY <1>17, <4>2
      <4>4. QED
        BY <4>1, <4>3 DEF Pending
    <3>4. QED
      BY <1>2, <1>21, <3>2, <3>3 DEF TracingInv
  <2>3. QED
    BY <2>1, <2>2
<1>22. TracingInv'
  <2>1. seen' \subseteq DOMAIN refs'
    BY <1>1, <1>2, <1>7 DEF TracingInv
  <2>2. Traced(Builtin)'
    <3>1. stack # <<Task("builtin", Builtin, 0, Builtin)>>
      BY <1>1, <1>3, BuiltinTask
    <3>2. QED
      BY <1>1, <1>2, <3>1 DEF TracingInv, Traced, Builtin
  <2>3. ASSUME NEW x \in DOMAIN refs, NEW i \in DOMAIN refs[x],
               ~Traced(x)' \/ ByValue(refs'[x][i])
        PROVE  Deref(refs[x][i])' = refs'[x][i].of
    <3>1. ~Traced(x) \/ ByValue(refs[x][i])
      BY <1>1, <1>11, <2>3 DEF Traced, ByValue
    <3>2. refs'[x][i] = refs[x][i]
      BY <1>4, <1>11, <3>1
    <3>3. Deref(refs[x][i]) = refs[x][i].of
      BY <1>2, <2>3, <3>1 DEF TracingInv
    <3>4. QED
      BY <1>1, <3>2, <3>3 DEF Deref
  <2>4. ASSUME NEW x \in DOMAIN refs, Traced(x)', Reliable(x)', NEW l \in DOMAIN refs[x],
               IsVisited(refs'[x][l])
        PROVE  Pending(x, l)' \/ Handled(refs[x][l])'
    <3>1. Traced(x) /\ Reliable(x)
      BY <1>1, <2>4 DEF Traced, Reliable
    <3>2. IsVisited(refs[x][l])
      BY <1>11, <2>4 DEF IsVisited
    <3>3. QED
      BY <1>21, <3>1, <3>2
  <2>5. \A r \in client' : r.of \in DOMAIN refs' /\ r.pool = r.of[1] /\ Settled(r)'
    BY <1>1, <1>2, <1>7 DEF TracingInv, Settled, Traced
  <2>6. ASSUME ~retraced', NEW x \in DOMAIN refs, Traced(x)' PROVE x \in Reach(Roots, IsVisited)'
    <3>1. x \in Reach(Roots, IsVisited)
      BY <1>1, <1>2, <2>6 DEF TracingInv, Traced
    <3>2. \A T \in SUBSET DOMAIN refs : Closed(T, IsVisited)' => Closed(T, IsVisited)
      BY <1>10, <1>11 DEF Closed, IsVisited
    <3>3. Roots' = Roots
      BY <1>1 DEF Roots, Builtin
    <3>4. QED
      BY <1>7, <3>1, <3>2, <3>3 DEF Reach
  <2>7. \A x \in DOMAIN refs' : \A i \in DOMAIN refs'[x] :
            ~Traced(x)' \/ ByValue(refs'[x][i]) => Deref(refs[x][i])' = refs'[x][i].of
    BY <1>7, <1>10, <2>3
  <2>8. \A x \in DOMAIN refs' : Traced(x)' /\ Reliable(x)' =>
            \A i \in DOMAIN refs'[x] : IsVisited(refs'[x][i]) => Pending(x, i)' \/ Handled(refs[x][i])'
    BY <1>7, <1>10, <2>4
  <2>9. ~retraced' => \A x \in DOMAIN refs' : Traced(x)' => x \in Reach(Roots, IsVisited)'
    BY <1>7, <2>6
  <2>10. QED
    BY <2>1, <2>2, <2>5, <2>7, <2>8, <2>9 DEF TracingInv
<1>23. TypeOK'
  <2>1. (Live \subseteq DOMAIN refs)' /\ (compounds \subseteq Types)'
    BY <1>1, <1>2, <1>7 DEF TypeOK, Live, Types
  <2>2. (\A p \in Pools : Members(chosen[p]) \subseteq Members(store[p]))'
    BY <1>13 DEF ChosenInv
  <2>3. \A i \in DOMAIN stack' :
            stack'[i].op \in {"visit", "store"} /\ stack'[i].k \in DOMAIN refs'[stack'[i].holder]
    BY <1>19 DEF TaskInv
  <2>4. Fits(store, refs)'
    <3>1. \A x \in DOMAIN refs : Added(x, refs'[x]) = Added(x, refs[x])
      BY <1>10 DEF Added
    <3>2. QED
      BY <1>1, <1>2, <1>7, <3>1 DEF TypeOK, Fits
  <2>5. QED
    BY <1>1, <1>2, <2>1, <2>2, <2>3, <2>4 DEF TypeOK
<1>24. MutatorInv' /\ ReferencesFollow' /\ CompoundsExact' /\ Canonical' /\ SurvivorsExact'
  BY <1>1, <1>2 DEF MutatorInv, ReferencesFollow, CompoundsExact, Canonical, SurvivorsExact
<1>25. QED
  BY <1>12, <1>13, <1>14, <1>15, <1>16, <1>20, <1>22, <1>23, <1>24 DEF IInv

-----------------------------------------------------------------------------
(* The end of a collection. *)

\* What was given a new position is an entity of that pool, and was traced.
LEMMA ChosenAreTraced ==
    ASSUME StoreInv, ChosenInv, phase # "collected", NEW p \in Pools, NEW i \in DOMAIN chosen[p]
    PROVE  LET e == chosen[p][i] IN
           /\ e \in DOMAIN refs /\ e[1] = p /\ p # "overload" /\ Traced(e)
           /\ e[2] \in DOMAIN store[p] /\ e = <<p, e[2]>>
<1> DEFINE e == chosen[p][i]
<1>1. e \in Members(chosen[p])
  BY DEF Members
<1>2. e \in Members(store[p])
  BY <1>1 DEF ChosenInv
<1>3. PICK n \in DOMAIN store[p] : store[p][n] = e
  BY <1>2 DEF Members
<1>4. e = <<p, n>> /\ <<p, n>> \in DOMAIN refs
  BY <1>3, Placed
<1>5. p # "overload"
  BY DEF ChosenInv
<1> HIDE DEF e
<1>6. e[1] = p /\ e[2] = n
  BY <1>4
<1>7. Traced(e)
  BY <1>1, <1>5, <1>6 DEF Traced
<1>8. QED
  BY <1>3, <1>4, <1>5, <1>6, <1>7 DEF e

\* When there is nothing more to do, what every visited reference of what was
\* traced denotes was traced too, and the reference is pointed to where that
\* will be unless it was visited by value.
LEMMA AllHandled ==
    ASSUME IInv, phase = "tracing", stack = <<>>, NEW e \in DOMAIN refs, Traced(e), Reliable(e),
           NEW i \in DOMAIN refs[e], IsVisited(refs[e][i])
    PROVE  Handled(refs[e][i])
<1>1. ~Pending(e, i)
  BY DEF Pending
<1>2. QED
  BY <1>1 DEF IInv, TracingInv

\* When the stack is empty every visited reference was handled, so what is
\* kept refers to what is kept.
LEMMA EndGcInvariant ==
    ASSUME IInv, EndGc
    PROVE  IInv'
<1>1. /\ phase = "tracing" /\ stack = <<>> /\ phase' = "collected" /\ stack' = stack
      /\ compounds' = Finalized /\ store' = chosen /\ chosen' = [p \in Pools |-> <<>>]
      /\ kind' = kind /\ refs' = refs /\ client' = client /\ seen' = seen /\ retraced' = retraced
  BY DEF EndGc
<1>2. /\ TypeOK /\ StoreInv /\ ChosenInv /\ RefsInv /\ TypesInv /\ UniqueInv
      /\ StackInv /\ TracingInv /\ phase # "collected" /\ "type" \in Pools
  BY <1>1 DEF IInv, Pools
<1>3. \A p \in Pools : \A i \in DOMAIN chosen[p] :
        LET e == chosen[p][i] IN
        /\ e \in DOMAIN refs /\ e[1] = p /\ p # "overload" /\ Traced(e)
        /\ e[2] \in DOMAIN store[p] /\ e = <<p, e[2]>>
  BY <1>2, ChosenAreTraced
<1>4. ASSUME NEW e \in Live'
      PROVE  e \in DOMAIN refs /\ Traced(e) /\ e[1] # "overload" /\ Reliable(e)
  <2>1. PICK p \in Pools : \E i \in DOMAIN chosen[p] : e = chosen[p][i]
    BY <1>1, <1>4 DEF Live, Members
  <2>2. QED
    BY <1>3, <2>1 DEF Reliable
<1>5. Traced(Builtin)
  BY <1>1, <1>2, BuiltinTask DEF TracingInv
<1>6. StoreInv'
  <2>1. chosen' \in [Pools -> Seq(Entities)]
    BY <1>1
  <2>2. QED
    BY <1>1, <1>2, <2>1 DEF StoreInv
<1>7. ChosenInv'
  <2>1. chosen'.overload = <<>> /\ \A p \in Pools : chosen'[p] = <<>>
    BY <1>1 DEF Pools
  <2>2. QED
    BY <2>1 DEF ChosenInv, Members
<1>8. RefsInv'
  BY <1>1, <1>2 DEF RefsInv
<1>9. TypesInv' /\ UniqueInv' /\ MutatorInv' /\ TracingInv'
  BY <1>1 DEF TypesInv, UniqueInv, MutatorInv, TracingInv
<1>10. StackInv'
  BY <1>1, <1>2 DEF StackInv
<1>11. ReferencesFollow'
  <2>1. ASSUME NEW e \in Live', NEW i \in DOMAIN refs[e],
               refs[e][i].role \notin {"param", "element", "overcall"}
        PROVE  Resolves(refs[e][i])'
    <3>1. Settled(refs[e][i])
      BY <1>1, <1>4, <2>1, AllHandled DEF IsVisited, Handled, ByValue
    <3>2. refs[e][i].pool # "overload"
      BY <1>2, <1>4, <2>1 DEF RefsInv
    <3>3. /\ refs[e][i].at \in DOMAIN chosen[refs[e][i].pool]
          /\ chosen[refs[e][i].pool][refs[e][i].at] = refs[e][i].of
      BY <3>1, <3>2 DEF Settled
    <3>4. QED
      BY <1>1, <3>3 DEF Resolves, Deref
  <2>2. ASSUME NEW r \in client, r.pool # "overload" PROVE Resolves(r)'
    <3>1. r.at \in DOMAIN chosen[r.pool] /\ chosen[r.pool][r.at] = r.of
      BY <1>1, <1>2, <2>2 DEF TracingInv, Settled
    <3>2. QED
      BY <1>1, <3>1 DEF Resolves, Deref
  <2>3. QED
    BY <1>1, <2>1, <2>2 DEF ReferencesFollow
<1>12. /\ compounds = {n \in DOMAIN kind : kind[n] # "dtype"}
       /\ DOMAIN kind = DOMAIN store["type"]
       /\ \A n \in DOMAIN kind : store["type"][n] = <<"type", n>> /\ <<"type", n>> \in DOMAIN refs
       /\ \A n \in DOMAIN kind : kind[n] \in {"dtype", "pack", "pointer", "function"}
  BY <1>2, TypePlaces DEF TypesInv, Types
<1>13. ASSUME NEW p \in DOMAIN chosen["type"]
       PROVE  /\ chosen["type"][p][2] \in DOMAIN kind
              /\ chosen["type"][p] = <<"type", chosen["type"][p][2]>>
              /\ store["type"][chosen["type"][p][2]] = chosen["type"][p]
              /\ chosen["type"][p] \in Members(chosen["type"])
              /\ PlaceIn(chosen["type"], chosen["type"][p]) = p
  <2>1. /\ chosen["type"][p][2] \in DOMAIN kind
        /\ chosen["type"][p] = <<"type", chosen["type"][p][2]>>
    BY <1>2, <1>3, <1>12
  <2>2. store["type"][chosen["type"][p][2]] = <<"type", chosen["type"][p][2]>>
    BY <1>12, <2>1
  <2>3. chosen["type"][p] \in Members(chosen["type"])
    BY DEF Members
  <2>4. PlaceIn(chosen["type"], chosen["type"][p]) = p
    <3>1. /\ PlaceIn(chosen["type"], chosen["type"][p]) \in DOMAIN chosen["type"]
          /\ chosen["type"][PlaceIn(chosen["type"], chosen["type"][p])] = chosen["type"][p]
      BY <2>3, PlaceInIsPlace
    <3>2. QED
      BY <1>2, <3>1 DEF ChosenInv
  <2>5. QED
    BY <2>1, <2>2, <2>3, <2>4
<1>14. compounds' = {p \in DOMAIN chosen["type"] : kind[chosen["type"][p][2]] # "dtype"}
  <2>1. ASSUME NEW p \in compounds'
        PROVE  p \in DOMAIN chosen["type"] /\ kind[chosen["type"][p][2]] # "dtype"
    <3>1. PICK q \in compounds : /\ store["type"][q] \in Members(chosen["type"])
                                 /\ p = PlaceIn(chosen["type"], store["type"][q])
      BY <1>1, <2>1 DEF Finalized
    <3>2. p \in DOMAIN chosen["type"] /\ chosen["type"][p] = store["type"][q]
      BY <3>1, PlaceInIsPlace
    <3>3. store["type"][q] = <<"type", q>> /\ kind[q] # "dtype"
      BY <1>12, <3>1
    <3>4. chosen["type"][p][2] = q
      BY <3>2, <3>3
    <3>5. QED
      BY <3>2, <3>3, <3>4
  <2>2. ASSUME NEW p \in DOMAIN chosen["type"], kind[chosen["type"][p][2]] # "dtype"
        PROVE  p \in compounds'
    <3> DEFINE q == chosen["type"][p][2]
    <3>1. /\ q \in compounds /\ store["type"][q] \in Members(chosen["type"])
          /\ p = PlaceIn(chosen["type"], store["type"][q])
      BY <1>12, <1>13, <2>2
    <3> HIDE DEF q
    <3>2. p \in Finalized
      BY <3>1 DEF Finalized
    <3>3. QED
      BY <1>1, <3>2
  <2>3. QED
    BY <2>1, <2>2
<1>15. CompoundsExact'
  BY <1>1, <1>14 DEF CompoundsExact, Types
<1>16. ASSUME NEW p \in DOMAIN chosen["type"], NEW m, m = chosen["type"][p][2],
              kind[m] \in {"pack", "pointer"}, NEW i \in DOMAIN refs[<<"type", m>>]
       PROVE  LET r == refs[<<"type", m>>][i] IN
              /\ r.role = PartRole(kind[m]) /\ r.pool = "type"
              /\ r.of \in Members(chosen["type"])
              /\ kind[m] = "pack" => r.of = <<"type", r.at>>
              /\ kind[m] = "pointer" => r.at \in DOMAIN chosen["type"] /\ chosen["type"][r.at] = r.of
  <2> DEFINE x == <<"type", m>>
             r == refs[x][i]
  <2>1. m \in DOMAIN kind /\ x = chosen["type"][p] /\ x \in DOMAIN refs /\ Traced(x) /\ Reliable(x)
    <3>1. m \in DOMAIN kind /\ x = chosen["type"][p]
      BY <1>13, <1>16
    <3>2. x \in DOMAIN refs /\ Traced(x)
      BY <1>2, <1>3, <3>1
    <3>3. QED
      BY <3>1, <3>2 DEF Reliable
  <2> HIDE DEF x
  <2>2. r.role = PartRole(kind[m]) /\ r.pool = "type" /\ r.of \in DOMAIN refs /\ r.of[1] = "type"
    BY <1>2, <1>16, <2>1 DEF TypesInv, RefsInv, x
  <2>3. Handled(r)
    <3>1. IsVisited(r)
      BY <2>2 DEF IsVisited, PartRole
    <3>2. QED
      BY <1>1, <1>16, <2>1, <3>1, AllHandled DEF x
  <2>4. r.of \in Members(chosen["type"])
    BY <2>2, <2>3 DEF Handled, Settled, Traced
  <2>5. ASSUME kind[m] = "pack" PROVE r.of = <<"type", r.at>>
    <3>1. ByValue(r)
      BY <2>2, <2>5 DEF ByValue, PartRole
    <3>2. Deref(r) = r.of
      BY <1>1, <1>2, <1>16, <2>1, <3>1 DEF TracingInv, x
    <3>3. r.at \in DOMAIN store[r.pool]
      BY <1>2, <1>16, <2>1 DEF RefsInv, x
    <3>4. QED
      BY <1>2, <2>2, <3>2, <3>3, PlaceOfDenoted
  <2>6. ASSUME kind[m] = "pointer"
        PROVE  r.at \in DOMAIN chosen["type"] /\ chosen["type"][r.at] = r.of
    BY <2>2, <2>3, <2>6 DEF Handled, Settled, ByValue, PartRole
  <2>7. QED
    BY <2>2, <2>4, <2>5, <2>6 DEF x
<1>17. Distinct'
  <2>1. SUFFICES ASSUME NEW p \in compounds', NEW q \in compounds', p # q,
                        kind[chosen["type"][p][2]] = kind[chosen["type"][q][2]],
                        kind[chosen["type"][p][2]] # "function",
                        Shape(refs[chosen["type"][p]]) = Shape(refs[chosen["type"][q]])
                 PROVE  FALSE
    BY <1>1 DEF Distinct, Shape
  <2> DEFINE t == chosen["type"][p]
             u == chosen["type"][q]
             m == t[2]
             n == u[2]
  <2>2. /\ p \in DOMAIN chosen["type"] /\ q \in DOMAIN chosen["type"] /\ kind[m] # "dtype"
    BY <1>14
  <2>3. m \in DOMAIN kind /\ n \in DOMAIN kind /\ t = <<"type", m>> /\ u = <<"type", n>>
    BY <1>13, <2>2
  <2>5. m # n
    BY <1>2, <2>1, <2>2, <2>3 DEF ChosenInv
  <2>6. kind[m] = kind[n] /\ kind[m] \in {"pack", "pointer"}
    BY <1>12, <2>1, <2>2, <2>3
  <2>7. Shape(refs[t]) = Shape(refs[u])
    BY <2>1
  <2>8. /\ \A i \in DOMAIN refs[t] :
            LET r == refs[t][i] IN
            /\ kind[m] = "pack" => r.of = <<"type", r.at>>
            /\ kind[m] = "pointer" => r.of = chosen["type"][r.at]
        /\ \A i \in DOMAIN refs[u] :
            LET r == refs[u][i] IN
            /\ kind[m] = "pack" => r.of = <<"type", r.at>>
            /\ kind[m] = "pointer" => r.of = chosen["type"][r.at]
    BY <1>16, <2>2, <2>3, <2>6
  <2> HIDE DEF t, u, m, n
  <2>9. DOMAIN refs[t] = DOMAIN refs[u]
    BY <2>7 DEF Shape
  <2>10. ASSUME NEW i \in DOMAIN refs[t]
         PROVE  refs[t][i].role = refs[u][i].role /\ refs[t][i].of = refs[u][i].of
    <3>1. <<refs[t][i].role, refs[t][i].at>> = <<refs[u][i].role, refs[u][i].at>>
      BY <2>7, <2>9 DEF Shape
    <3>2. refs[t][i].role = refs[u][i].role /\ refs[t][i].at = refs[u][i].at
      BY ONLY <3>1
    <3>3. QED
      BY <2>6, <2>8, <2>9, <3>2
  <2>11. Denoted(refs[t]) = Denoted(refs[u])
    BY <2>9, <2>10 DEF Denoted
  <2>12. QED
    BY <1>2, <2>3, <2>5, <2>6, <2>11 DEF UniqueInv
<1>18. MadeOfTypes'
  <2>1. \A i, j \in DOMAIN chosen["type"] : chosen["type"][i] = chosen["type"][j] => i = j
    BY <1>2 DEF ChosenInv
  <2>2. ASSUME NEW p \in compounds', kind[chosen["type"][p][2]] # "function"
        PROVE  LET t == chosen["type"][p] IN
               /\ kind[t[2]] \in {"pack", "pointer"} /\ refs[t] \in Seq(Reference)
               /\ \A i \in DOMAIN refs[t] :
                    /\ refs[t][i].pool = "type" /\ refs[t][i].of \in Members(chosen["type"])
                    /\ kind[t[2]] = "pointer" =>
                        refs[t][i].at \in DOMAIN chosen["type"] /\ chosen["type"][refs[t][i].at] = refs[t][i].of
    <3> DEFINE t == chosen["type"][p]
               m == t[2]
    <3>1. p \in DOMAIN chosen["type"] /\ kind[m] # "dtype"
      BY <1>14
    <3>2. m \in DOMAIN kind /\ t = <<"type", m>> /\ t \in DOMAIN refs
      BY <1>12, <1>13, <3>1
    <3>3. kind[m] \in {"pack", "pointer"}
      BY <1>12, <2>2, <3>1, <3>2
    <3>4. refs[t] \in Seq(Reference)
      BY <1>2, <3>2 DEF StoreInv
    <3>5. \A i \in DOMAIN refs[<<"type", m>>] :
            LET r == refs[<<"type", m>>][i] IN
            /\ r.pool = "type" /\ r.of \in Members(chosen["type"])
            /\ kind[m] = "pointer" => r.at \in DOMAIN chosen["type"] /\ chosen["type"][r.at] = r.of
      BY ONLY <1>16, <3>1, <3>3
    <3> HIDE DEF m
    <3>6. QED
      BY <3>2, <3>3, <3>4, <3>5 DEF m
  <2>3. ASSUME NEW p \in compounds', NEW t, t = chosen["type"][p], kind[t[2]] # "function",
               NEW i \in DOMAIN refs[t], kind[t[2]] = "pointer"
        PROVE  refs[t][i].at \in DOMAIN chosen[refs[t][i].pool]
               /\ chosen[refs[t][i].pool][refs[t][i].at] = refs[t][i].of
    BY <2>2, <2>3
  <2>4. \A p \in compounds' :
            LET t == chosen["type"][p] IN kind[t[2]] # "function" =>
            /\ kind[t[2]] \in {"pack", "pointer"} /\ refs[t] \in Seq(Reference)
            /\ \A i \in DOMAIN refs[t] :
                /\ refs[t][i].pool = "type" /\ refs[t][i].of \in Members(chosen["type"])
                /\ kind[t[2]] = "pointer" =>
                    /\ refs[t][i].at \in DOMAIN chosen[refs[t][i].pool]
                    /\ chosen[refs[t][i].pool][refs[t][i].at] = refs[t][i].of
    BY <2>2, <2>3
  <2>5. QED
    BY <1>1, <2>1, <2>4, Zenon DEF MadeOfTypes, Resolves, Deref
<1>19. Canonical'
  BY <1>17, <1>18, CanonicalTablesNext
<1>20. SurvivorsExact'
  <2>1. SUFFICES ASSUME ~retraced
                 PROVE  Live' = {e \in Reach(Roots, IsVisited)' : e[1] # "overload"}
    BY <1>1 DEF SurvivorsExact
  <2>2. Reach(Roots, IsVisited)' = Reach(Roots, IsVisited)
    BY <1>1 DEF Reach, Closed, IsVisited, Roots, Builtin
  <2>3. ASSUME NEW e \in Live'
        PROVE  e \in Reach(Roots, IsVisited) /\ e[1] # "overload"
    BY <1>1, <1>2, <1>4, <2>1 DEF TracingInv
  <2> DEFINE T == {x \in DOMAIN refs : Traced(x)}
  <2>4. Roots \subseteq T
    <3>1. Builtin \in T
      BY <1>2, <1>5 DEF StoreInv
    <3>2. \A r \in client : r.of \in T
      BY <1>1, <1>2 DEF TracingInv, Settled
    <3>3. QED
      BY <3>1, <3>2 DEF Roots
  <2>5. Closed(T, IsVisited)
    <3>1. SUFFICES ASSUME NEW x \in DOMAIN refs, Traced(x), NEW i \in DOMAIN refs[x],
                          IsVisited(refs[x][i])
                   PROVE  refs[x][i].of \in DOMAIN refs /\ Traced(refs[x][i].of)
      BY DEF Closed
    <3>2. Handled(refs[x][i])
      BY <1>1, <2>1, <3>1, AllHandled DEF Reliable
    <3>3. QED
      BY <1>2, <3>2 DEF RefsInv, Handled, Settled
  <2>6. Reach(Roots, IsVisited) \subseteq T
    <3>1. T \subseteq DOMAIN refs
      OBVIOUS
    <3> HIDE DEF T
    <3>2. QED
      BY <2>4, <2>5, <3>1, ReachLeast
  <2>7. ASSUME NEW e \in Reach(Roots, IsVisited), e[1] # "overload"
        PROVE  e \in Live'
    <3>1. e \in DOMAIN refs /\ e \in Members(chosen[e[1]])
      BY <2>6, <2>7 DEF Traced
    <3>2. e[1] \in Pools
      BY <1>2, <3>1, Found
    <3>3. QED
      BY <1>1, <3>1, <3>2 DEF Live, Members
  <2>8. QED
    BY <2>2, <2>3, <2>7
<1>21. TypeOK'
  <2>1. Fits(store, refs)'
    <3>1. PICK size \in Sizes :
            /\ \A p \in Pools : Len(store[p]) <= size[p]
            /\ \A e \in DOMAIN refs : Added(e, refs[e]) <= size.added
      BY <1>2 DEF TypeOK, Fits
    <3>2. ASSUME NEW p \in Pools PROVE Len(chosen[p]) <= size[p]
      <4>1. Len(chosen[p]) <= Len(store[p]) /\ Len(store[p]) <= size[p]
        BY <1>2, <3>1, ChosenFits
      <4>2. Len(chosen[p]) \in Nat /\ Len(store[p]) \in Nat /\ size[p] \in Nat
        BY <1>2, BoundsAssumption DEF StoreInv, Pools
      <4>3. QED
        BY <4>1, <4>2
    <3>3. QED
      BY <1>1, <3>1, <3>2 DEF Fits
  <2>2. (\A p \in Pools : Members(chosen[p]) \subseteq Members(store[p]))'
    BY <1>7 DEF ChosenInv
  <2>3. Live' \subseteq DOMAIN refs'
    BY <1>1, <1>4
  <2>4. compounds' \subseteq Types'
    BY <1>1, <1>14 DEF Types
  <2>5. QED
    BY <1>1, <2>1, <2>2, <2>3, <2>4 DEF TypeOK
<1>22. QED
  BY <1>6, <1>7, <1>8, <1>9, <1>10, <1>11, <1>15, <1>19, <1>20, <1>21 DEF IInv

-----------------------------------------------------------------------------
(* The theorems. *)

\* A step that changes nothing keeps the invariant.
LEMMA StutterInvariant ==
    ASSUME IInv, UNCHANGED vars
    PROVE  IInv'
<1>1. /\ store' = store /\ chosen' = chosen /\ kind' = kind /\ refs' = refs
      /\ compounds' = compounds /\ phase' = phase /\ stack' = stack /\ client' = client
      /\ seen' = seen /\ retraced' = retraced
  BY DEF vars
<1>2. StoreInv' /\ ChosenInv' /\ RefsInv' /\ TypesInv'
  BY <1>1 DEF IInv, StoreInv, ChosenInv, RefsInv, TypesInv, Live
<1>3. UniqueInv'
  <2>1. SUFFICES ASSUME NEW l \in DOMAIN kind', NEW m \in DOMAIN kind', l # m,
                        kind'[l] = kind'[m], kind'[l] \in {"pack", "pointer"}, phase' # "collected"
                 PROVE  Denoted(refs'[<<"type", l>>]) # Denoted(refs'[<<"type", m>>])
    BY DEF UniqueInv, Denoted
  <2>2. QED
    BY <1>1, <2>1 DEF IInv, UniqueInv
<1>4. MutatorInv'
  BY <1>1 DEF IInv, MutatorInv, Deref
<1>5. \A x \in DOMAIN refs : (Traced(x)' <=> Traced(x)) /\ (Reliable(x)' <=> Reliable(x))
  BY <1>1 DEF Traced, Reliable
<1>6. ASSUME NEW t, TaskInv(t) PROVE TaskInv(t)'
  BY <1>1, <1>6 DEF TaskInv, Traced, Reliable, Deref
<1>7. StackInv'
  <2>1. ASSUME NEW i \in DOMAIN stack' PROVE TaskInv(stack[i])'
    <3>1. PICK t : t = stack[i]
      OBVIOUS
    <3>2. TaskInv(t)'
      BY <1>1, <1>6, <2>1, <3>1 DEF IInv, StackInv
    <3>3. QED
      BY <1>1, <3>1, <3>2 DEF TaskInv
  <2>2. QED
    BY <1>1, <2>1 DEF IInv, StackInv, Reliable
<1>8. TracingInv'
  BY <1>1 DEF IInv, TracingInv, Traced, Reliable, Pending, Handled, Settled, ByValue, Deref, Reach, Closed, Roots,
              Builtin
<1>9. TypeOK'
  BY <1>1 DEF IInv, TypeOK, Live, Types
<1>10. ReferencesFollow' /\ CompoundsExact' /\ Canonical' /\ SurvivorsExact'
  <2>1. ReferencesFollow'
    BY <1>1 DEF IInv, ReferencesFollow, Live, Resolves, Deref
  <2>2. CompoundsExact'
    BY <1>1 DEF IInv, CompoundsExact, Types
  <2>3. Canonical'
    <3>1. \A t : Sought(t)' = Sought(t)
      BY <1>1 DEF Sought
    <3>2. \A k, rs : Interned(k, rs)' = Interned(k, rs)
      BY <1>1 DEF Interned, Shape
    <3>3. \A r : Resolves(r)' <=> Resolves(r)
      BY <1>1 DEF Resolves, Deref
    <3>4. QED
      BY <1>1, <3>1, <3>2, <3>3 DEF IInv, Canonical
  <2>4. SurvivorsExact'
    <3>1. Live' = Live
      BY <1>1 DEF Live
    <3>2. Reach(Roots, IsVisited)' = Reach(Roots, IsVisited)
      BY <1>1 DEF Reach, Closed, IsVisited, Roots, Builtin
    <3>3. QED
      BY <1>1, <3>1, <3>2 DEF IInv, SurvivorsExact
  <2>5. QED
    BY <2>1, <2>2, <2>3, <2>4
<1>11. QED
  BY <1>2, <1>3, <1>4, <1>7, <1>8, <1>9, <1>10 DEF IInv

\* The inductive invariant holds in every state of every behaviour.
THEOREM Invariance == Spec => []IInv
<1>1. Init => IInv
  BY InitInvariant
<1>2. IInv /\ [Next]_vars => IInv'
  <2>1. SUFFICES ASSUME IInv, [Next]_vars PROVE IInv'
    OBVIOUS
  <2>2. CASE Build
    BY <2>1, <2>2, BuildInvariant
  <2>3. CASE BeginGc
    BY <2>1, <2>3, BeginGcInvariant
  <2>4. CASE \E pool \in Pools : \E at \in DOMAIN store[pool] : TraceRoot(pool, at)
    BY <2>1, <2>4, TraceRootInvariant
  <2>5. CASE TraceBuiltin
    BY <2>1, <2>5, TraceBuiltinInvariant
  <2>6. CASE Visit
    BY <2>1, <2>6, VisitInvariant
  <2>7. CASE Store
    BY <2>1, <2>7, StoreInvariant
  <2>8. CASE EndGc
    BY <2>1, <2>8, EndGcInvariant
  <2>9. CASE UNCHANGED vars
    BY <2>1, <2>9, StutterInvariant
  <2>10. QED
    BY <2>1, <2>2, <2>3, <2>4, <2>5, <2>6, <2>7, <2>8, <2>9 DEF Next, TraceStep
<1>3. QED
  BY <1>1, <1>2, PTL DEF Spec

\* The project keeps to the bound, the table of compound types names types, and
\* what is left to trace is a reference of an entity there is.
THEOREM TypeCorrect == Spec => []TypeOK
<1>1. IInv => TypeOK
  BY DEF IInv
<1>2. QED
  BY <1>1, Invariance, PTL

\* After a collection the return types, pointees, node types, named functions and
\* overloads of what survives, and everything the client had traced, denote what
\* they denoted before: however the functions and overload sets call each other,
\* and even if an overload set was traced twice.
THEOREM ReferencesDenoteTheSame == Spec => []ReferencesFollow
<1>1. IInv => ReferencesFollow
  BY DEF IInv
<1>2. QED
  BY <1>1, Invariance, PTL

\* pack_of, function_of and pointer_to look up exactly the compound types that
\* exist, before a collection and after it.
THEOREM CompoundTableExact == Spec => []CompoundsExact
<1>1. IInv => CompoundsExact
  BY DEF IInv
<1>2. QED
  BY <1>1, Invariance, PTL

\* A collection makes no two packs and no two pointers hold the same addresses,
\* the pointer to a type is still found, and a pack is found again exactly when
\* none of its elements moved.
THEOREM TypesStayCanonical == Spec => []Canonical
<1>1. IInv => Canonical
  BY DEF IInv
<1>2. QED
  BY <1>1, Invariance, PTL

\* A collection keeps what the traced references reach and nothing else, unless
\* an overload set was traced twice.
THEOREM SurvivorsAreTheReachable == Spec => []SurvivorsExact
<1>1. IInv => SurvivorsExact
  BY DEF IInv
<1>2. QED
  BY <1>1, Invariance, PTL

-----------------------------------------------------------------------------
(* The pool of functions is a Collector. *)

\* The functions of a project that keeps to the bound.
LEMMA FunctionIsEntity ==
    ASSUME NEW held, NEW holds, Fits(held, holds), NEW n \in 1..Len(held.function),
           Len(held.function) \in Nat
    PROVE  <<"function", n>> \in {<<"function", m>> : m \in UNION {1..size.function : size \in Sizes}}
<1>1. PICK size \in Sizes : \A p \in Pools : Len(held[p]) <= size[p]
  BY DEF Fits
<1>2. Len(held.function) <= size.function /\ size.function \in Nat
  BY <1>1, BoundsAssumption DEF Pools
<1>3. n \in 1..size.function
  BY <1>2
<1>4. QED
  BY <1>3

\* A new project has no functions.
LEMMA InitSimulates == Init => FunctionPool!Init
<1> SUFFICES ASSUME Init PROVE FunctionPool!Init
  OBVIOUS
<1>1. store.function = <<>> /\ chosen.function = <<>> /\ phase = "mutator"
  BY DEF Init, Pools
<1>2. QED
  BY <1>1 DEF FunctionPool!Init

\* The client creates a function; nothing else it does concerns that pool.
LEMMA BuildSimulates ==
    ASSUME IInv, Build
    PROVE  FunctionPool!Next \/ UNCHANGED FunctionPool!vars
<1>1. phase = "mutator" /\ phase' = phase /\ chosen' = chosen
  BY DEF Build, PackOf, PointerTo, FunctionOf, Intern, NewFunction, AddNode, NewOverloadSet,
         AddOverload
<1>2. StoreInv /\ phase # "collected" /\ store \in [Pools -> Seq(Entities)]
      /\ store["function"] \in Seq(Entities) /\ "function" \in Pools
  BY <1>1 DEF IInv, StoreInv, Pools
<1>3. ASSUME NEW pool \in Pools, pool # "function", NEW rs, Add(pool, rs)
      PROVE  store'["function"] = store["function"]
  BY <1>2, <1>3 DEF Add
<1>4. ASSUME store'["function"] = store["function"]
      PROVE  UNCHANGED FunctionPool!vars
  BY <1>1, <1>4 DEF FunctionPool!vars
<1>5. ASSUME NEW t \in Types, NEW u \in Types, NewFunction(t, u)
      PROVE  FunctionPool!Next
  <2> DEFINE n == Len(store["function"]) + 1
             e == <<"function", n>>
  <2>1. \E rs : Add("function", rs)
    BY <1>5 DEF NewFunction
  <2>2. store' = [store EXCEPT !["function"] = Append(store["function"], e)] /\ Fits(store', refs')
    BY <2>1 DEF Add
  <2>3. n \in Nat
    BY <1>2
  <2> HIDE DEF n
  <2>4. store'["function"] = Append(store["function"], e)
    BY <1>2, <2>2
  <2>5. e \in Entities
    BY <2>3 DEF Entities, Pools
  <2>6. Len(store'["function"]) = n
    BY <1>2, <2>4, <2>5 DEF n
  <2>7. e \in {<<"function", m>> : m \in UNION {1..size.function : size \in Sizes}}
    <3>1. n \in 1..Len(store'["function"]) /\ Len(store'["function"]) \in Nat
      BY <1>2, <2>3, <2>6 DEF n
    <3>2. QED
      BY <2>2, <3>1, FunctionIsEntity
  <2>8. e \notin FunctionPool!Members(store["function"])
    <3>1. SUFFICES ASSUME NEW i \in DOMAIN store["function"], store["function"][i] = e PROVE FALSE
      BY DEF FunctionPool!Members
    <3>2. <<"function", i>> = e
      BY <1>2, <3>1 DEF StoreInv
    <3>3. i = n
      BY <3>2
    <3>4. QED
      BY <1>2, <3>1, <3>3 DEF n
  <2>9. FunctionPool!Create(e)
    <3>1. ((phase = "tracing")' <=> (phase = "tracing")) /\ chosen'.function = chosen.function
      BY <1>1
    <3>2. phase # "tracing"
      BY <1>1
    <3>3. QED
      BY <2>4, <2>8, <3>1, <3>2 DEF FunctionPool!Create
  <2>10. QED
    BY <2>7, <2>9 DEF FunctionPool!Next
<1>6. ASSUME NEW k, NEW rs, Intern(k, rs) PROVE UNCHANGED FunctionPool!vars
  BY <1>3, <1>4, <1>6 DEF Intern, Pools
<1>7. ASSUME NEW t \in Types, NEW u \in Types,
             PackOf(t, u) \/ FunctionOf(t, u) \/ NewFunction(t, u)
      PROVE  FunctionPool!Next \/ UNCHANGED FunctionPool!vars
  BY <1>5, <1>6, <1>7 DEF PackOf, FunctionOf
<1>8. ASSUME NEW t \in Types, PointerTo(t) PROVE UNCHANGED FunctionPool!vars
  BY <1>6, <1>8 DEF PointerTo
<1>9. ASSUME NEW f \in DOMAIN store.function, NEW t \in Types,
             \/ AddNode(f, t, <<>>)
             \/ \E g \in DOMAIN store.function : AddNode(f, t, <<RefTo("fnsym", "function", g)>>)
             \/ \E o \in DOMAIN store.overload : AddNode(f, t, <<RefTo("overcall", "overload", o)>>)
      PROVE  UNCHANGED FunctionPool!vars
  BY <1>4, <1>9 DEF AddNode
<1>10. ASSUME NewOverloadSet PROVE UNCHANGED FunctionPool!vars
  BY <1>3, <1>4, <1>10 DEF NewOverloadSet, Pools
<1>11. ASSUME NEW o \in DOMAIN store.overload, NEW f \in DOMAIN store.function, AddOverload(o, f)
       PROVE  UNCHANGED FunctionPool!vars
  BY <1>4, <1>11 DEF AddOverload
<1>12. QED
  BY <1>7, <1>8, <1>9, <1>10, <1>11 DEF Build

\* An entity that is entered is chosen, if it is a function.
LEMMA EnterSimulates ==
    ASSUME IInv, phase = "tracing", NEW e \in DOMAIN refs, Mark(e), store' = store, phase' = phase
    PROVE  FunctionPool!Next \/ UNCHANGED FunctionPool!vars
<1>1. /\ StoreInv /\ TypeOK /\ phase # "collected" /\ "function" \in Pools
      /\ chosen \in [Pools -> Seq(Entities)] /\ store["function"] \in Seq(Entities)
  BY DEF IInv, StoreInv, Pools
<1>2. e[1] \in Pools /\ e[2] \in DOMAIN store[e[1]] /\ e = <<e[1], e[2]>>
      /\ e \in Members(store[e[1]])
  BY <1>1, Found
<1>3. CASE e[1] # "function"
  <2>1. chosen'["function"] = chosen["function"]
    BY <1>1, <1>2, <1>3 DEF Mark
  <2>2. QED
    BY <2>1 DEF FunctionPool!vars
<1>4. CASE e[1] = "function"
  <2>1. e = <<"function", e[2]>> /\ e[2] \in 1..Len(store["function"])
        /\ Len(store["function"]) \in Nat
    BY <1>1, <1>2, <1>4
  <2>2. e \in {<<"function", m>> : m \in UNION {1..size.function : size \in Sizes}}
    BY <1>1, <2>1, FunctionIsEntity DEF TypeOK
  <2>3. e \in FunctionPool!Members(store["function"])
    BY <1>2, <1>4 DEF Members, FunctionPool!Members
  <2>4. FunctionPool!Members(chosen["function"]) = Members(chosen["function"])
    BY DEF Members, FunctionPool!Members
  <2>5. chosen'["function"] = IF e \in FunctionPool!Members(chosen["function"])
                              THEN chosen["function"] ELSE Append(chosen["function"], e)
    BY <1>1, <1>4, <2>4 DEF Mark
  <2>6. FunctionPool!Choose(e)
    <3>1. (phase = "tracing")' <=> (phase = "tracing")
      OBVIOUS
    <3>2. QED
      BY <2>3, <2>5, <3>1 DEF FunctionPool!Choose
  <2>7. QED
    BY <2>2, <2>6 DEF FunctionPool!Next
<1>5. QED
  BY <1>3, <1>4

\* Every step is one of the pool of functions, or changes nothing there.
LEMMA StepSimulates == IInv /\ [Next]_vars => [FunctionPool!Next]_(FunctionPool!vars)
<1> SUFFICES ASSUME IInv, [Next]_vars PROVE FunctionPool!Next \/ UNCHANGED FunctionPool!vars
  OBVIOUS
<1>1. StoreInv /\ StackInv /\ RefsInv
  BY DEF IInv
<1>2. CASE Build
  BY <1>2, BuildSimulates
<1>3. CASE BeginGc
  <2>1. phase # "tracing" /\ phase' = "tracing" /\ store' = store /\ chosen' = chosen
    BY <1>3 DEF BeginGc
  <2>2. FunctionPool!Begin
    BY <2>1 DEF FunctionPool!Begin
  <2>3. QED
    BY <2>2 DEF FunctionPool!Next
<1>4. ASSUME NEW pool \in Pools, NEW at \in DOMAIN store[pool], TraceRoot(pool, at)
      PROVE  FunctionPool!Next \/ UNCHANGED FunctionPool!vars
  <2> DEFINE e == store[pool][at]
  <2>1. phase = "tracing" /\ Mark(e) /\ store' = store /\ phase' = phase
    BY <1>4 DEF TraceRoot, Enter
  <2>2. e \in DOMAIN refs
    BY <1>1, <2>1, Placed
  <2> HIDE DEF e
  <2>3. QED
    BY <2>1, <2>2, EnterSimulates
<1>5. CASE TraceBuiltin
  <2>1. phase = "tracing" /\ Mark(Builtin) /\ store' = store /\ phase' = phase
    BY <1>1, <1>5 DEF TraceBuiltin, Enter, StackInv
  <2>2. Builtin \in DOMAIN refs
    BY <1>1, <2>1 DEF StoreInv
  <2>3. QED
    BY <2>1, <2>2, EnterSimulates
<1>6. CASE Visit
  <2> DEFINE h == Head(stack).holder
             k == Head(stack).k
             r == refs[h][k]
             e == Deref(r)
  <2>1. phase = "tracing" /\ Mark(e) /\ store' = store /\ phase' = phase /\ stack # <<>>
        /\ stack \in Seq(Tasks) /\ Head(stack).op = "visit"
    BY <1>1, <1>6 DEF Visit, Enter, StackInv
  <2>2. 1 \in DOMAIN stack /\ Head(stack) = stack[1]
    BY <2>1
  <2>3. TaskInv(stack[1])
    BY <1>1, <2>2 DEF StackInv
  <2>4. h \in DOMAIN refs /\ k \in DOMAIN refs[h]
    BY <2>1, <2>2, <2>3 DEF TaskInv
  <2>5. r.pool \in Pools /\ r.at \in DOMAIN store[r.pool]
    BY <1>1, <2>1, <2>4, RefFacts DEF RefsInv
  <2>6. e \in DOMAIN refs
    <3> HIDE DEF r
    <3>1. <<r.pool, r.at>> \in DOMAIN refs /\ store[r.pool][r.at] = <<r.pool, r.at>>
      BY <1>1, <2>1, <2>5, Placed
    <3>2. QED
      BY <3>1 DEF Deref
  <2> HIDE DEF e
  <2>7. QED
    BY <2>1, <2>6, EnterSimulates
<1>7. CASE Store
  BY <1>7 DEF Store, FunctionPool!vars
<1>8. CASE EndGc
  <2>1. /\ phase = "tracing" /\ phase' # "tracing"
        /\ store'.function = chosen.function /\ chosen'.function = <<>>
    BY <1>8 DEF EndGc, Pools
  <2>2. FunctionPool!Finish
    BY <2>1 DEF FunctionPool!Finish
  <2>3. QED
    BY <2>2 DEF FunctionPool!Next
<1>9. CASE UNCHANGED vars
  BY <1>9 DEF vars, FunctionPool!vars
<1>10. QED
  BY <1>2, <1>3, <1>4, <1>5, <1>6, <1>7, <1>8, <1>9 DEF Next, TraceStep

\* The pool of functions is driven as Collector allows, whatever the graph of
\* calls: the collection keeps each traced function once, at the position that
\* the order of tracing gives, and nothing is created while it lasts.
THEOREM FunctionsAreCollected == Spec => FunctionPoolIsCollector
<1>1. QED
  BY Invariance, InitSimulates, StepSimulates, PTL DEF Spec, FunctionPoolIsCollector,
     FunctionPool!Spec
=============================================================================
