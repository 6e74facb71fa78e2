------------------------ MODULE DynamicObjects_proofs ------------------------
(***************************************************************************)
(* Safety of the variant heap for any number of wrappers, places and       *)
(* reserved variants, and of the loader of dynamic objects composed with   *)
(* it: a library is closed after the values it must see released.          *)
(***************************************************************************)
EXTENDS DynamicObjects, FiniteSetTheorems, SequenceTheorems, WellFoundedInduction, TLAPS

(* Changing one count of a table of counts leaves a table of counts.       *)
LEMMA TableUpdate ==
  ASSUME NEW D, NEW f \in [D -> Int], NEW x \in D, NEW e \in Int
  PROVE  /\ [f EXCEPT ![x] = f[x] + e] \in [D -> Int]
         /\ [f EXCEPT ![x] = f[x] - e] \in [D -> Int]
OBVIOUS

(* The ends of a sequence without duplicates. *)
LEMMA HeadInRange ==
  ASSUME NEW S, NEW s \in Seq(S), s # <<>>
  PROVE  Head(s) \in Range(s)
BY DEF Range

LEMMA TailRange ==
  ASSUME NEW S, NEW s \in Seq(S), s # <<>>, IsInjective(s)
  PROVE  /\ Range(Tail(s)) = Range(s) \ {Head(s)}
         /\ IsInjective(Tail(s))
<1>1. /\ Tail(s) \in Seq(S) /\ Len(Tail(s)) = Len(s) - 1
      /\ DOMAIN Tail(s) = 1 .. Len(s) - 1
      /\ \A i \in 1 .. Len(s) - 1 : Tail(s)[i] = s[i + 1]
  OBVIOUS
<1>2. IsInjective(Tail(s))
  BY <1>1 DEF IsInjective
<1>3. ASSUME NEW x \in Range(Tail(s)) PROVE x \in Range(s) \ {Head(s)}
  BY <1>1 DEF IsInjective, Range
<1>4. ASSUME NEW x \in Range(s), x # Head(s) PROVE x \in Range(Tail(s))
  <2>1. PICK i \in 1 .. Len(s) : x = s[i]
    BY DEF Range
  <2>2. i - 1 \in 1 .. Len(s) - 1 /\ Tail(s)[i - 1] = x
    BY <1>1, <1>4, <2>1
  <2>3. i - 1 \in DOMAIN Tail(s)
    BY <1>1, <2>2
  <2> QED
    BY <2>2, <2>3, Zenon DEF Range
<1> QED
  BY <1>2, <1>3, <1>4

LEMMA AppendRange ==
  ASSUME NEW S, NEW s \in Seq(S), NEW e \in S, e \notin Range(s), IsInjective(s)
  PROVE  /\ Range(Append(s, e)) = Range(s) \cup {e}
         /\ IsInjective(Append(s, e))
<1>1. /\ Len(Append(s, e)) = Len(s) + 1
      /\ \A i \in 1 .. Len(s) : Append(s, e)[i] = s[i]
      /\ Append(s, e)[Len(s) + 1] = e
      /\ Append(s, e) \in Seq(S)
  OBVIOUS
<1>2. \A i \in 1 .. Len(s) : s[i] # e
  BY DEF Range
<1>3. IsInjective(Append(s, e))
  BY <1>1, <1>2 DEF IsInjective
<1>4. Range(Append(s, e)) = Range(s) \cup {e}
  BY <1>1 DEF Range
<1> QED
  BY <1>3, <1>4

LEMMA PushRange ==
  ASSUME NEW S, NEW s \in Seq(S), NEW e \in S, e \notin Range(s), IsInjective(s)
  PROVE  /\ Range(<<e>> \o s) = Range(s) \cup {e}
         /\ IsInjective(<<e>> \o s)
<1> DEFINE t == <<e>> \o s
<1>1. /\ t \in Seq(S) /\ Len(t) = Len(s) + 1
      /\ DOMAIN t = 1 .. Len(s) + 1
      /\ t[1] = e
      /\ \A i \in 2 .. Len(s) + 1 : t[i] = s[i - 1]
  <2>1. <<e>> \in Seq(S) /\ Len(<<e>>) = 1
    OBVIOUS
  <2> QED
    BY <2>1, ConcatProperties
<1> HIDE DEF t
<1>2. \A i \in 1 .. Len(s) : s[i] # e
  BY DEF Range
<1>3. IsInjective(t)
  BY SMTT(20), <1>1, <1>2 DEF IsInjective
<1>4. Range(t) = Range(s) \cup {e}
  <2>1. \A i \in 1 .. Len(s) : i + 1 \in 2 .. Len(s) + 1 /\ t[i + 1] = s[i]
    BY <1>1
  <2>2. ASSUME NEW x \in Range(s) PROVE x \in Range(t)
    <3>1. PICK i \in 1 .. Len(s) : x = s[i]
      BY DEF Range
    <3>2. i + 1 \in DOMAIN t /\ t[i + 1] = x
      BY <1>1, <2>1, <3>1
    <3> QED
      BY <3>2, Zenon DEF Range
  <2>3. ASSUME NEW x \in Range(t), x # e PROVE x \in Range(s)
    <3>1. PICK i \in 1 .. Len(s) + 1 : x = t[i]
      BY <1>1 DEF Range
    <3>2. i - 1 \in DOMAIN s /\ s[i - 1] = x
      BY <1>1, <2>3, <3>1
    <3> QED
      BY <3>2, Zenon DEF Range
  <2>4. e \in Range(t)
    <3>1. 1 \in DOMAIN t /\ t[1] = e
      BY <1>1
    <3> QED
      BY <3>1, Zenon DEF Range
  <2> QED
    BY <2>2, <2>3, <2>4
<1> QED
  BY <1>3, <1>4 DEF t

LEMMA TypeInit == Init => TypeOK
BY HeapAssumption DEF Init, TypeOK, ZeroValues, ConstMem, ConstType

(* purc_variant_unref keeps the types: it tests refc before it decrements.  *)
LEMMA DropTyped ==
  ASSUME TypeOK, NEW p \in Place, Drop(p)
  PROVE  TypeOK'
<1> USE DEF TypeOK
<1>1. place[p] \in Variant
  BY DEF Drop
<1>2. refc' \in [Variant -> Nat]
  BY <1>1 DEF Drop, Dropped
<1>3. releasing' \in Seq(Wrapper)
  <2>1. CASE Dies(place[p])
    <3>1. <<place[p]>> \in Seq(Wrapper)
      BY <1>1, <2>1 DEF Dies, Variant
    <3> QED
      BY <2>1, <3>1, ConcatProperties DEF Drop
  <2>2. CASE ~Dies(place[p])
    BY <2>2 DEF Drop
  <2> QED
    BY <2>1, <2>2
<1> QED
  BY <1>2, <1>3 DEF Drop, stat

(* Every operation keeps the types. *)
LEMMA TypeStep == IInv /\ [Next]_vars => TypeOK'
<1> USE DEF TypeOK
<1>2. TypeOK /\ LiveTyped /\ ReleasingSound /\ [Next]_vars => TypeOK'
  <2> SUFFICES ASSUME TypeOK, LiveTyped, ReleasingSound, [Next]_vars PROVE TypeOK'
    OBVIOUS
  <2> /\ Root \subseteq Place /\ Member \subseteq Place
      /\ Wrapper \subseteq Variant /\ Constant \subseteq Variant
    BY DEF Place, Variant
  <2>1. ASSUME NEW p \in Root, NEW w \in Wrapper, NEW t \in HeapType, NEW n \in Payload,
               Make(p, w, t, n)
        PROVE  TypeOK'
    <3>1. n \in Nat /\ Extra(t, ClearedWord(w), n) \in Int
      BY HeapAssumption DEF Extra, ClearedWord
    <3>2. PICK extra \in Int : extra = Extra(t, ClearedWord(w), n)
      BY <3>1
    <3>5. /\ inited' \in BOOLEAN /\ releasing' \in Seq(Wrapper)
          /\ live' \in SUBSET Wrapper
          /\ type' \in [Wrapper -> HeapType \cup {None}]
          /\ word' \in [Wrapper -> Nat]
          /\ nr_total_values' \in Int
      BY <2>1, <3>1 DEF Make, Get
    <3>6. /\ refc' \in [Variant -> Nat]
          /\ place' \in [Place -> Variant \cup {None}]
          /\ nr_values' \in [HeapType \cup ConstType -> Int]
      BY SMTT(20), <2>1, TableUpdate DEF Make, Get
    <3>3. CASE reserve = <<>>
      <4>1. /\ sz_mem' = [sz_mem EXCEPT ![t] = @ + (1 + extra)]
            /\ sz_total_mem' = sz_total_mem + 1 + extra
            /\ reserve' = reserve /\ nr_reserved' = nr_reserved
        BY <2>1, <3>2, <3>3 DEF Make, Get
      <4>2. sz_mem' \in [HeapType \cup ConstType -> Int]
        BY <4>1, TableUpdate
      <4> QED
        BY <3>5, <3>6, <4>1, <4>2
    <3>4. CASE reserve # <<>>
      <4>1. /\ sz_mem' = [sz_mem EXCEPT ![t] = @ + extra]
            /\ sz_total_mem' = sz_total_mem + extra
            /\ reserve' = Tail(reserve) /\ nr_reserved' = nr_reserved - 1
        BY <2>1, <3>2, <3>4 DEF Make, Get, NrReservedAfterGet
      <4>2. sz_mem' \in [HeapType \cup ConstType -> Int]
        BY <4>1, TableUpdate
      <4>3. reserve' \in Seq(Wrapper)
        BY <3>4, <4>1
      <4>4. sz_total_mem' \in Int /\ nr_reserved' \in Int
        BY <4>1
      <4> QED
        BY <3>5, <3>6, <4>2, <4>3, <4>4
    <3> QED
      BY <3>3, <3>4
  <2>2. ASSUME NEW p \in Root, NEW c \in UsedConstant, MakeConstant(p, c)
        PROVE  TypeOK'
    BY <2>2, HeapAssumption DEF MakeConstant, stat
  <2>3. ASSUME NEW q \in Place, NEW p \in Place, Ref(q, p)
        PROVE  TypeOK'
    BY <2>3 DEF Ref, Referenced, stat
  <2>4. ASSUME NEW p \in Place, Drop(p)
        PROVE  TypeOK'
    BY <2>4, DropTyped
  <2>5. ASSUME NEW r \in Place, NEW n \in Payload, Resize(r, n)
        PROVE  TypeOK'
    <3> DEFINE w == place[r]
    <3>1. PICK extra \in Int : extra = Extra(type[w], word[w], n)
      BY <2>5, HeapAssumption DEF Resize, Extra
    <3>2. /\ sz_mem' = [sz_mem EXCEPT ![type[w]] = @ + extra]
          /\ sz_total_mem' = sz_total_mem + extra
      BY <2>5, <3>1 DEF Resize
    <3>3. sz_mem' \in [HeapType \cup ConstType -> Int]
      <4>1. type[w] \in HeapType \cup ConstType
        BY <2>5 DEF Resize, ExtraType, HeapType
      <4> QED
        BY <3>2, <4>1, TableUpdate
    <3>4. sz_total_mem' \in Int
      BY <3>2
    <3>5. word' \in [Wrapper -> Nat]
      BY <2>5, HeapAssumption DEF Resize
    <3> QED
      BY <2>5, <3>3, <3>4, <3>5 DEF Resize
  <2>6. ASSUME NEW w \in Wrapper, Put(w)
        PROVE  TypeOK'
    <3> DEFINE t == type[w]
    <3>1. PICK extra \in Int : extra = Extra(t, word[w], 0)
      BY DEF Extra
    <3> t \in HeapType
      BY <2>6, HeadInRange DEF Put, LiveTyped, ReleasingSound
    <3>2. nr_values' = [nr_values EXCEPT ![t] = @ - 1] /\ nr_total_values' \in Int
      BY <2>6 DEF Put
    <3>3. nr_values' \in [HeapType \cup ConstType -> Int]
      BY <3>2, TableUpdate
    <3>4. /\ releasing' \in Seq(Wrapper) /\ live' \in SUBSET Wrapper
          /\ inited' \in BOOLEAN /\ refc' \in [Variant -> Nat]
          /\ place' \in [Place -> Variant \cup {None}]
      BY <2>6 DEF Put
    <3>5. CASE nr_reserved >= MaxReserved
      <4>1. /\ sz_mem' = [sz_mem EXCEPT ![t] = @ + (extra - 1)]
            /\ sz_total_mem' = sz_total_mem + extra - 1
            /\ reserve' = reserve /\ nr_reserved' = nr_reserved
        BY <2>6, <3>1, <3>5, HeapAssumption DEF Put
      <4>2. sz_mem' \in [HeapType \cup ConstType -> Int]
        BY <4>1, TableUpdate
      <4>3. word' = [word EXCEPT ![w] = 0] /\ type' = [type EXCEPT ![w] = None]
        BY <2>6, <3>5, HeapAssumption DEF Put
      <4> QED
        BY <3>2, <3>3, <3>4, <4>1, <4>2, <4>3
    <3>6. CASE nr_reserved < MaxReserved
      <4>1. /\ sz_mem' = [sz_mem EXCEPT ![t] = @ + extra]
            /\ sz_total_mem' = sz_total_mem + extra
            /\ reserve' = Append(reserve, w) /\ nr_reserved' = nr_reserved + 1
        BY SMTT(20), <2>6, <3>1, <3>6, HeapAssumption DEF Put, KeptLast
      <4>2. sz_mem' \in [HeapType \cup ConstType -> Int]
        BY <4>1, TableUpdate
      <4>3. /\ word' = [word EXCEPT ![w] = IF t \in ExtraType THEN 0 ELSE @]
            /\ type' = type
        BY <2>6, <3>6, HeapAssumption DEF Put
      <4>4. reserve' \in Seq(Wrapper)
        BY <4>1
      <4>5. sz_total_mem' \in Int /\ nr_reserved' \in Int
        BY <4>1
      <4> QED
        BY <3>2, <3>3, <3>4, <4>2, <4>3, <4>4, <4>5
    <3>7. nr_reserved >= MaxReserved \/ nr_reserved < MaxReserved
      <4>1. nr_reserved \in Int /\ MaxReserved \in Nat
        BY HeapAssumption
      <4> QED
        BY ONLY <4>1
    <3> QED
      BY ONLY <3>5, <3>6, <3>7
  <2>7. CASE UsageStat
    BY <2>7 DEF UsageStat, cells, ConstType, Constant
  <2>8. CASE Cleanup
    BY <2>8 DEF Cleanup, stat
  <2>9. CASE InitInstance
    BY <2>9 DEF InitInstance, ZeroValues, ConstMem, ConstType
  <2>10. CASE UNCHANGED vars
    BY <2>10 DEF vars, cells, stat
  <2> QED
    <3>1. ASSUME NEW p \in Place, Unref(p) PROVE TypeOK'
      BY <2>4, <3>1 DEF Unref
    <3>2. ASSUME NEW w \in Wrapper, NEW i \in Index, ReleaseMember(w, i)
          PROVE  TypeOK'
      <4>1. <<w, i>> \in Place
        BY DEF Member
      <4> QED
        BY <2>4, <3>2, <4>1 DEF ReleaseMember
    <3> QED
      BY <2>1, <2>2, <2>3, <2>5, <2>6, <2>7, <2>8, <2>9, <2>10, <3>1, <3>2 DEF Next
<1> QED
  BY <1>2 DEF IInv

-----------------------------------------------------------------------------
(* The places that hold a value are finitely many. *)
LEMMA HoldersFinite == ASSUME NEW v PROVE IsFiniteSet(Holders(v))
<1>1. IsFiniteSet(Member)
  BY HeapAssumption, FS_Product DEF Member
<1>2. IsFiniteSet(Place)
  BY <1>1, HeapAssumption, FS_Union DEF Place
<1> QED
  BY <1>2, FS_Subset DEF Holders

(* Storing v in an empty place adds one holder of v and no other. *)
LEMMA FillPlace ==
  ASSUME TypeOK, NEW p \in Place, place[p] = None, NEW v \in Variant,
         place' = [place EXCEPT ![p] = v]
  PROVE  /\ Cardinality(Holders(v)') = Cardinality(Holders(v)) + 1
         /\ \A u \in Variant \ {v} : Holders(u)' = Holders(u)
<1> None \notin Variant
  BY HeapAssumption
<1>1. Holders(v)' = Holders(v) \cup {p} /\ p \notin Holders(v)
  BY DEF Holders, TypeOK
<1>2. \A u \in Variant \ {v} : Holders(u)' = Holders(u)
  BY DEF Holders, TypeOK
<1> QED
  BY <1>1, <1>2, HoldersFinite, FS_AddElement

(* Clearing a place that holds v removes one holder of v and no other. *)
LEMMA ClearPlace ==
  ASSUME TypeOK, NEW p \in Place, NEW v \in Variant, place[p] = v,
         place' = [place EXCEPT ![p] = None]
  PROVE  /\ Cardinality(Holders(v)') = Cardinality(Holders(v)) - 1
         /\ \A u \in Variant \ {v} : Holders(u)' = Holders(u)
<1> None \notin Variant
  BY HeapAssumption
<1>1. Holders(v)' = Holders(v) \ {p} /\ p \in Holders(v)
  BY DEF Holders, TypeOK
<1>2. \A u \in Variant \ {v} : Holders(u)' = Holders(u)
  BY DEF Holders, TypeOK
<1> QED
  BY <1>1, <1>2, HoldersFinite, FS_RemoveElement

(* A value without references is held nowhere. *)
LEMMA NoHolders ==
  ASSUME RefcExact, NEW v \in live \cup Constant, refc[v] = 0
  PROVE  Holders(v) = {}
BY HoldersFinite, FS_EmptySet DEF RefcExact

(* A value being released is held nowhere, so what a place holds is not    *)
(* being released.                                                         *)
LEMMA HeldNotReleasing ==
  ASSUME IInv, NEW p \in Place, place[p] # None
  PROVE  place[p] \notin Range(releasing)
<1> SUFFICES ASSUME place[p] \in Range(releasing) PROVE FALSE
  OBVIOUS
<1>1. place[p] \in live /\ refc[place[p]] = 0
  BY DEF IInv, ReleasingSound
<1>2. Holders(place[p]) = {}
  BY <1>1, NoHolders DEF IInv
<1> QED
  BY <1>2 DEF Holders

LEMMA IInvInit == Init => IInv
<1> SUFFICES ASSUME Init PROVE IInv
  OBVIOUS
<1>1. \A v \in Constant : Holders(v) = {} /\ refc[v] = 0
  BY HeapAssumption DEF Init, Holders, Variant, Place
<1>2. RefcExact
  BY <1>1, FS_EmptySet DEF Init, RefcExact
<1>3. NoDangling
  BY DEF Init, NoDangling
<1>4. ReserveSound /\ ReleasingSound
  BY HeapAssumption DEF Init, ReserveSound, ReleasingSound, Range, IsInjective
<1> QED
  BY <1>2, <1>3, <1>4, TypeInit DEF IInv, Init, LiveTyped, CleanedUp

(* What pcvariant_get hands out was not in use. *)
LEMMA FreshWrapper ==
  ASSUME IInv, NEW p, NEW w, NEW t, NEW n, Make(p, w, t, n)
  PROVE  w \notin live /\ w \notin Range(releasing)
<1>1. CASE reserve = <<>>
  BY <1>1 DEF Make, Get, IInv, ReleasingSound
<1>2. CASE reserve # <<>>
  <2>1. w \in Range(reserve)
    BY <1>2, HeadInRange DEF Make, Get, IInv, TypeOK
  <2> QED
    BY <2>1 DEF IInv, ReserveSound, ReleasingSound
<1> QED
  BY <1>1, <1>2

(* So nothing held it. *)
LEMMA MakeStep ==
  ASSUME IInv, TypeOK',
         NEW p \in Root, NEW w \in Wrapper, NEW t \in HeapType, NEW n \in Payload,
         Make(p, w, t, n)
  PROVE  IInv'
<1> USE DEF IInv
<1> p \in Place /\ w \in Variant /\ w \notin Constant
  BY HeapAssumption DEF Place, Variant
<1>1. w \notin live /\ w \notin Range(releasing)
  BY FreshWrapper
<1>2. Holders(w) = {}
  BY <1>1, HeapAssumption DEF NoDangling, Holders
<1>3. /\ place[p] = None /\ place' = [place EXCEPT ![p] = w]
      /\ refc' = [refc EXCEPT ![w] = 1]
      /\ live' = live \cup {w} /\ type' = [type EXCEPT ![w] = t]
      /\ releasing' = releasing /\ inited' = inited
      /\ inited
  BY DEF Make, Get, ProgramRuns
<1>4. RefcExact'
  <2>1. Cardinality(Holders(w)') = 1
    <3>1. Cardinality(Holders(w)') = Cardinality(Holders(w)) + 1
      BY <1>3, FillPlace
    <3>2. Cardinality(Holders(w)) = 0
      BY <1>2, FS_EmptySet
    <3> QED
      BY <3>1, <3>2
  <2>2. \A u \in (live \cup Constant) \ {w} : Holders(u)' = Holders(u)
    BY <1>3, FillPlace DEF TypeOK, Variant
  <2> QED
    BY <1>3, <2>1, <2>2 DEF RefcExact, TypeOK, Variant
<1>5. NoDangling'
  BY <1>3 DEF NoDangling, TypeOK
<1>6. ReleasingSound'
  BY <1>1, <1>3 DEF ReleasingSound, TypeOK
<1>7. LiveTyped' /\ CleanedUp'
  BY <1>3 DEF LiveTyped, CleanedUp, TypeOK
<1>8. ReserveSound'
  <2>1. CASE reserve = <<>>
    BY <1>3, <2>1 DEF Make, Get, ReserveSound, Range
  <2>2. CASE reserve # <<>>
    <3>1. /\ reserve' = Tail(reserve) /\ w = Head(reserve)
          /\ nr_reserved' = nr_reserved - 1
      BY <2>2 DEF Make, Get, NrReservedAfterGet
    <3>2. /\ Range(reserve') = Range(reserve) \ {w} /\ IsInjective(reserve')
          /\ Len(reserve') = Len(reserve) - 1
      BY SMTT(20), <2>2, <3>1, TailRange DEF TypeOK, ReserveSound
    <3>3. Len(reserve) \in Nat /\ Len(reserve) <= MaxReserved
      BY DEF TypeOK, ReserveSound
    <3> QED
      BY SMTT(20), <1>3, <3>1, <3>2, <3>3, HeapAssumption DEF ReserveSound, TypeOK
  <2> QED
    BY <2>1, <2>2
<1> QED
  BY <1>4, <1>5, <1>6, <1>7, <1>8

(* purc_variant_ref and the constructors of the constants add one reference *)
(* and one holder to a value that is not being released.                    *)
LEMMA AddRefStep ==
  ASSUME IInv, TypeOK', NEW p \in Place, NEW v \in live \cup Constant,
         place[p] = None, v \notin Range(releasing), inited,
         refc' = [refc EXCEPT ![v] = @ + 1],
         place' = [place EXCEPT ![p] = v],
         UNCHANGED <<inited, live, type, releasing, reserve, nr_reserved>>
  PROVE  IInv'
<1> USE DEF IInv
<1> v \in Variant
  BY DEF TypeOK, Variant
<1>1. RefcExact'
  <2>1. Cardinality(Holders(v)') = Cardinality(Holders(v)) + 1
    BY FillPlace
  <2>2. \A u \in (live \cup Constant) \ {v} : Holders(u)' = Holders(u)
    BY FillPlace DEF TypeOK, Variant
  <2> QED
    BY <2>1, <2>2 DEF RefcExact, TypeOK, Variant
<1>2. NoDangling'
  BY DEF NoDangling, TypeOK
<1>3. ReleasingSound'
  BY DEF ReleasingSound, TypeOK
<1>4. LiveTyped' /\ CleanedUp' /\ ReserveSound'
  BY DEF LiveTyped, CleanedUp, ReserveSound
<1> QED
  BY <1>1, <1>2, <1>3, <1>4

(* purc_variant_unref takes one reference and one holder away; the value    *)
(* whose last reference goes enters the stack of releases, in which it was  *)
(* not before.                                                              *)
LEMMA DropStep ==
  ASSUME IInv, TypeOK', NEW p \in Place, Drop(p), inited
  PROVE  IInv'
<1> USE DEF IInv
<1>0. PICK v \in live \cup Constant : v = place[p]
  BY DEF Drop, NoDangling
<1>1. /\ v \in Variant
      /\ refc[v] \in Nat \ {0}
      /\ refc' = [refc EXCEPT ![v] = @ - 1]
      /\ place' = [place EXCEPT ![p] = None]
      /\ releasing' = IF Dies(v) THEN <<v>> \o releasing ELSE releasing
      /\ UNCHANGED <<inited, live, type, reserve, nr_reserved>>
  BY <1>0 DEF Drop, Dropped, TypeOK, Variant, stat
<1>2. v \notin Range(releasing)
  BY <1>0, HeldNotReleasing DEF Drop
<1>3. RefcExact'
  <2>1. /\ Cardinality(Holders(v)') = Cardinality(Holders(v)) - 1
        /\ \A u \in Variant \ {v} : Holders(u)' = Holders(u)
    BY <1>0, <1>1, ClearPlace
  <2>2. \A u \in (live \cup Constant) \ {v} : Holders(u)' = Holders(u)
    BY <2>1 DEF TypeOK, Variant
  <2> QED
    BY <1>0, <1>1, <2>1, <2>2 DEF RefcExact, TypeOK, Variant
<1>4. NoDangling'
  BY <1>1 DEF NoDangling, TypeOK
<1>5. ReleasingSound'
  <2>1. CASE Dies(v)
    <3>1. v \in live /\ v \in Wrapper /\ refc'[v] = 0
      BY <1>1, <2>1 DEF Dies, TypeOK
    <3>2. Range(releasing') = Range(releasing) \cup {v} /\ IsInjective(releasing')
      BY <1>1, <1>2, <2>1, <3>1, PushRange DEF TypeOK, ReleasingSound
    <3>3. \A u \in Range(releasing) : u # v /\ u \in Variant /\ refc[u] = 0
      BY <1>2 DEF ReleasingSound, TypeOK, Variant
    <3>4. \A u \in Range(releasing) : refc'[u] = 0
      BY <1>1, <3>3 DEF TypeOK
    <3> QED
      BY <1>1, <3>1, <3>2, <3>4 DEF ReleasingSound
  <2>2. CASE ~Dies(v)
    BY <1>1, <1>2, <2>2 DEF ReleasingSound, TypeOK
  <2> QED
    BY <2>1, <2>2
<1>6. LiveTyped' /\ CleanedUp' /\ ReserveSound'
  BY <1>1 DEF LiveTyped, CleanedUp, ReserveSound
<1> QED
  BY <1>3, <1>4, <1>5, <1>6

(* pcvariant_put takes away a value that nothing holds; the reserve, which  *)
(* did not have it, may keep it.                                            *)
LEMMA PutStep ==
  ASSUME IInv, TypeOK', NEW w \in Wrapper, Put(w)
  PROVE  IInv'
<1> USE DEF IInv
<1>1. /\ releasing # <<>> /\ w = Head(releasing)
      /\ releasing' = Tail(releasing) /\ live' = live \ {w}
      /\ UNCHANGED <<inited, refc, place>>
  BY DEF Put
<1>2. w \in live /\ refc[w] = 0 /\ inited
  BY <1>1, HeadInRange DEF TypeOK, ReleasingSound, CleanedUp
<1>3. Holders(w) = {}
  BY <1>2, NoHolders
<1>4. RefcExact'
  BY <1>1 DEF RefcExact, Holders
<1>5. NoDangling'
  BY <1>1, <1>3 DEF NoDangling, Holders
<1>6. ReleasingSound'
  BY <1>1, TailRange DEF ReleasingSound, TypeOK
<1>7. LiveTyped' /\ CleanedUp'
  <2>1. \A u \in live' : type'[u] = type[u]
    BY <1>1 DEF Put, TypeOK
  <2> QED
    BY <1>1, <1>2, <2>1 DEF LiveTyped, CleanedUp
<1>8. ReserveSound'
  <2>1. CASE nr_reserved >= MaxReserved
    <3>1. UNCHANGED <<reserve, nr_reserved>>
      BY <2>1, HeapAssumption DEF Put, TypeOK
    <3> QED
      BY <1>1, <3>1 DEF ReserveSound
  <2>2. CASE nr_reserved < MaxReserved
    <3>1. reserve' = Append(reserve, w) /\ nr_reserved' = nr_reserved + 1
      BY <2>2, HeapAssumption DEF Put, KeptLast, TypeOK
    <3>2. /\ Range(reserve') = Range(reserve) \cup {w} /\ IsInjective(reserve')
          /\ Len(reserve') = Len(reserve) + 1
      BY <1>2, <3>1, AppendRange DEF TypeOK, ReserveSound
    <3>3. Len(reserve) = nr_reserved /\ Len(reserve) \in Nat
      BY <1>2 DEF ReserveSound, TypeOK
    <3> QED
      BY <1>1, <2>2, <3>1, <3>2, <3>3, HeapAssumption DEF ReserveSound, TypeOK
  <2> QED
    BY <2>1, <2>2, HeapAssumption DEF TypeOK
<1> QED
  BY <1>4, <1>5, <1>6, <1>7, <1>8

(* The operations that touch neither references nor the reserve. *)
LEMMA OtherStep ==
  ASSUME IInv, TypeOK',
         UNCHANGED <<inited, live, type, refc, place, releasing, reserve, nr_reserved>>
  PROVE  IInv'
BY DEF IInv, LiveTyped, ReleasingSound, CleanedUp, RefcExact, Holders, NoDangling,
       ReserveSound

LEMMA IInvStep == IInv /\ [Next]_vars => IInv'
<1> SUFFICES ASSUME IInv, [Next]_vars PROVE IInv'
  OBVIOUS
<1> TypeOK'
  BY TypeStep
<1>1. ASSUME NEW p \in Root, NEW w \in Wrapper, NEW t \in HeapType, NEW n \in Payload,
             Make(p, w, t, n)
      PROVE  IInv'
  BY <1>1, MakeStep
<1>2. ASSUME NEW p \in Root, NEW c \in UsedConstant, MakeConstant(p, c)
      PROVE  IInv'
  <2>1. c \in Constant /\ c \notin Range(releasing) /\ p \in Place
    BY HeapAssumption DEF IInv, TypeOK, ReleasingSound, Place
  <2> QED
    BY <1>2, <2>1, AddRefStep DEF MakeConstant, ProgramRuns, stat
<1>3. ASSUME NEW q \in Place, NEW p \in Place, Ref(q, p)
      PROVE  IInv'
  <2>1. q \in Place /\ place[q] # None
    BY <1>3 DEF Place, Ref
  <2>2. place[q] \in live \cup Constant /\ place[q] \notin Range(releasing)
    BY <2>1, HeldNotReleasing DEF IInv, NoDangling
  <2> QED
    BY <1>3, <2>2, AddRefStep DEF Ref, Referenced, Fillable, ProgramRuns, stat
<1>4. ASSUME NEW p \in Place, Unref(p)
      PROVE  IInv'
  BY <1>4, DropStep DEF Unref, ProgramRuns
<1>5. ASSUME NEW w \in Wrapper, NEW i \in Index, ReleaseMember(w, i)
      PROVE  IInv'
  <2>1. <<w, i>> \in Place
    BY DEF Place, Member
  <2>2. inited
    BY <1>5 DEF ReleaseMember, IInv, CleanedUp
  <2> QED
    BY <1>5, <2>1, <2>2, DropStep DEF ReleaseMember
<1>6. ASSUME NEW r \in Place, NEW n \in Payload, Resize(r, n)
      PROVE  IInv'
  BY <1>6, OtherStep DEF Resize
<1>7. ASSUME NEW w \in Wrapper, Put(w)
      PROVE  IInv'
  BY <1>7, PutStep
<1>8. CASE UsageStat
  BY <1>8, OtherStep DEF UsageStat, cells
<1>9. CASE Cleanup
  <2>1. ReserveSound'
    BY <1>9, HeapAssumption DEF Cleanup, ReserveSound, Range, IsInjective
  <2> QED
    BY <1>9, <2>1 DEF Cleanup, IInv, LiveTyped, ReleasingSound, CleanedUp, RefcExact,
                      Holders, NoDangling
<1>10. CASE InitInstance
  <2>1. ReserveSound'
    BY <1>10, HeapAssumption DEF InitInstance, ReserveSound, Range, IsInjective
  <2>2. refc' = refc
    BY <1>10 DEF InitInstance, IInv, CleanedUp, TypeOK
  <2> QED
    BY <1>10, <2>1, <2>2 DEF InitInstance, IInv, LiveTyped, ReleasingSound, CleanedUp,
                             RefcExact, Holders, NoDangling
<1>11. CASE UNCHANGED vars
  BY <1>11, OtherStep DEF vars, cells, stat
<1> QED
  BY <1>1, <1>2, <1>3, <1>4, <1>5, <1>6, <1>7, <1>8, <1>9, <1>10, <1>11 DEF Next

LEMMA Inductive == Spec => []IInv
<1> QED
  BY IInvInit, IInvStep, PTL DEF Spec

(* Every variable of the heap keeps its type. *)
THEOREM TypeCorrect == Spec => []TypeOK
BY Inductive, PTL DEF IInv

(* The reference count of every value in use is the number of places that  *)
(* hold it, through purc_variant_ref, purc_variant_unref and every nested   *)
(* release.                                                                 *)
THEOREM CountsAreExact == Spec => []RefcExact
BY Inductive, PTL DEF IInv

(* No place ever holds a wrapper that pcvariant_put has taken back. *)
THEOREM NoUseAfterPut == Spec => []NoDangling
BY Inductive, PTL DEF IInv

(* The reserve never holds a wrapper twice, never one in use, and never     *)
(* more than MaxReserved; nr_reserved is its length.                        *)
THEOREM ReserveIsSound == Spec => []ReserveSound
BY Inductive, PTL DEF IInv

(* No step gives a reference to a value whose release has begun, not even   *)
(* the callbacks made during the release.                                   *)
THEOREM ReleasedForGood == Spec => NeverRevived
<1>1. IInv /\ IInv' /\ [Next]_vars
        => [\A w \in Range(releasing) : refc[w] = 0 /\ refc'[w] = 0]_vars
  <2> SUFFICES ASSUME IInv, IInv', [Next]_vars, NEW w \in Range(releasing)
               PROVE  refc[w] = 0 /\ refc'[w] = 0
    OBVIOUS
  <2>1. refc[w] = 0 /\ w \in live /\ w \in Variant /\ w \notin Constant
    BY HeapAssumption DEF IInv, ReleasingSound, TypeOK, Variant
  <2>2. ASSUME NEW p \in Place, place[p] # None PROVE place[p] # w
    BY <2>2, HeldNotReleasing
  <2>3. ASSUME NEW p \in Place, Drop(p) PROVE refc'[w] = 0
    BY <2>1, <2>2, <2>3 DEF Drop, Dropped, IInv, TypeOK
  <2>4. ASSUME NEW p \in Root, NEW x \in Wrapper, NEW t \in HeapType,
               NEW n \in Payload, Make(p, x, t, n)
        PROVE  refc'[w] = 0
    <3>1. x # w
      BY <2>1, <2>4, FreshWrapper
    <3> QED
      BY <2>1, <2>4, <3>1 DEF Make, IInv, TypeOK
  <2>5. ASSUME NEW q \in Place, NEW p \in Place, Ref(q, p) PROVE refc'[w] = 0
    <3>1. place[q] # w
      BY <2>2, <2>5 DEF Place, Ref
    <3> QED
      BY <2>1, <2>5, <3>1 DEF Ref, Referenced, IInv, TypeOK
  <2>6. ASSUME NEW p \in Root, NEW c \in UsedConstant, MakeConstant(p, c)
        PROVE  refc'[w] = 0
    BY <2>1, <2>6, HeapAssumption DEF MakeConstant, IInv, TypeOK
  <2>7. ASSUME NEW x \in Wrapper, NEW i \in Index, ReleaseMember(x, i)
        PROVE  refc'[w] = 0
    BY <2>3, <2>7 DEF ReleaseMember, Place, Member
  <2>8. CASE InitInstance
    BY <2>1, <2>8 DEF InitInstance
  <2> QED
    BY <2>1, <2>3, <2>4, <2>5, <2>6, <2>7, <2>8
       DEF Next, Unref, Resize, Put, UsageStat, Cleanup, vars, cells
<1> QED
  BY <1>1, Inductive, PTL DEF NeverRevived, Spec

(* The heap with its reserve in a list implements the reserve pool: each    *)
(* pcvariant_get reuses the wrapper kept longest, or allocates when none is *)
(* kept, and each pcvariant_put keeps or frees as the capacity allows.      *)
THEOREM HeapImplementsPool == Spec => ImplementsPool
<1>1. Init => Pool!Init
  BY DEF Init, Pool!Init
<1>2. IInv /\ [Next]_vars => [Pool!Next]_(Pool!vars)
  <2> SUFFICES ASSUME IInv, [Next]_vars, ~(UNCHANGED Pool!vars) PROVE Pool!Next
    OBVIOUS
  <2>1. ASSUME NEW p \in Root, NEW w \in Wrapper, NEW t \in HeapType,
               NEW n \in Payload, Make(p, w, t, n)
        PROVE  Pool!Next
    <3>1. CASE reserve = <<>>
      BY <2>1, <3>1 DEF Make, Get, Pool!Next, Pool!Allocate
    <3>2. CASE reserve # <<>>
      <4>1. w \notin live
        BY <2>1, FreshWrapper
      <4> QED
        BY <2>1, <3>2, <4>1 DEF Make, Get, Pool!Next, Pool!Reuse
    <3> QED
      BY <3>1, <3>2
  <2>2. ASSUME NEW w \in Wrapper, Put(w) PROVE Pool!Next
    <3>1. w \in live /\ inited
      BY <2>2, HeadInRange DEF Put, IInv, TypeOK, ReleasingSound, CleanedUp
    <3>2. Len(reserve) = nr_reserved /\ Len(reserve) <= MaxReserved
      BY <3>1 DEF IInv, ReserveSound
    <3>3. CASE nr_reserved >= MaxReserved
      <4>1. live' = live \ {w} /\ reserve' = reserve
        BY <2>2, <3>3, HeapAssumption DEF Put, IInv, TypeOK
      <4>2. Len(reserve) = MaxReserved
        BY <3>2, <3>3, HeapAssumption DEF IInv, TypeOK
      <4> QED
        BY <3>1, <4>1, <4>2 DEF Pool!Next, Pool!Free
    <3>4. CASE nr_reserved < MaxReserved
      <4>1. live' = live \ {w} /\ reserve' = Append(reserve, w)
        BY <2>2, <3>4, HeapAssumption DEF Put, KeptLast, IInv, TypeOK
      <4>2. Len(reserve) < MaxReserved
        BY <3>2, <3>4
      <4> QED
        BY <3>1, <4>1, <4>2 DEF Pool!Next, Pool!Keep
    <3> QED
      BY <3>3, <3>4, HeapAssumption DEF IInv, TypeOK
  <2>3. CASE Cleanup \/ InitInstance
    BY <2>3 DEF Cleanup, InitInstance, Pool!Next, Pool!Drain
  <2>4. ASSUME UNCHANGED <<live, reserve>> PROVE Pool!Next
    BY <2>4 DEF Pool!vars
  <2> QED
    BY <2>1, <2>2, <2>3, <2>4
       DEF Next, MakeConstant, Ref, Unref, ReleaseMember, Drop, Resize, UsageStat,
           vars, cells
<1> QED
  BY <1>1, <1>2, Inductive, PTL DEF Spec, ImplementsPool, Pool!Spec

-----------------------------------------------------------------------------
(* What is reachable is the least closed set. *)
LEMMA ReachableClosed ==
  ASSUME NEW X
  PROVE  /\ Reachable(X) \in SUBSET Wrapper
         /\ Closed(Reachable(X))
<1>1. ASSUME NEW m \in Member, m[1] \in Reachable(X), place[m] \in Wrapper
      PROVE  place[m] \in Reachable(X)
  <2>1. ASSUME NEW S \in SUBSET Wrapper, X \subseteq S, Closed(S)
        PROVE  place[m] \in S
    <3>1. m[1] \in S
      BY <1>1, <2>1 DEF Reachable
    <3> QED
      BY <1>1, <2>1, <3>1 DEF Closed
  <2> QED
    BY <1>1, <2>1 DEF Reachable
<1> QED
  BY <1>1 DEF Closed, Reachable

LEMMA ReachableLeast ==
  ASSUME NEW X \in SUBSET Wrapper
  PROVE  /\ X \subseteq Reachable(X)
         /\ \A S \in SUBSET Wrapper : X \subseteq S /\ Closed(S) => Reachable(X) \subseteq S
BY DEF Reachable

LEMMA ClosedUnion ==
  ASSUME NEW S, NEW T, Closed(S), Closed(T)
  PROVE  Closed(S \cup T)
BY DEF Closed

(* NoLeak: the values in use are in every closed set with the anchors. *)
LEMMA NoLeakSets ==
  ASSUME live \in SUBSET Wrapper
  PROVE  NoLeak <=> \A S \in SUBSET Wrapper : Anchors \subseteq S /\ Closed(S) => live \subseteq S
BY DEF NoLeak, Reachable

(* No member is filled: what could not be reached still cannot. *)
LEMMA AcyclicShrink ==
  ASSUME Acyclic, \A m \in Member : place'[m] \in Wrapper => place'[m] = place[m]
  PROVE  Acyclic'
<1> SUFFICES ASSUME NEW m \in Member, place'[m] \in Wrapper
             PROVE  \E S \in SUBSET Wrapper : place'[m] \in S /\ Closed(S)' /\ m[1] \notin S
  BY DEF Acyclic, Reachable
<1> PICK S : S = Reachable({place[m]})
  OBVIOUS
<1>1. place'[m] = place[m] /\ m[1] \notin S
  BY DEF Acyclic
<1>2. S \in SUBSET Wrapper /\ Closed(S) /\ place[m] \in S
  BY <1>1, ReachableClosed, ReachableLeast
<1>3. Closed(S)'
  BY <1>2 DEF Closed
<1> QED
  BY <1>1, <1>2, <1>3

(* A value put into a container from which the container cannot be reached. *)
LEMMA AcyclicGrow ==
  ASSUME Acyclic, NEW p \in Member, NEW v \in Wrapper,
         place \in [Place -> Variant \cup {None}], place' = [place EXCEPT ![p] = v],
         p[1] \notin Reachable({v})
  PROVE  Acyclic'
<1> SUFFICES ASSUME NEW m \in Member, place'[m] \in Wrapper
             PROVE  \E S \in SUBSET Wrapper : place'[m] \in S /\ Closed(S)' /\ m[1] \notin S
  BY DEF Acyclic, Reachable
<1> PICK V : V = Reachable({v})
  OBVIOUS
<1>1. V \in SUBSET Wrapper /\ Closed(V) /\ v \in V
  BY ReachableClosed, ReachableLeast
<1>2. p \in Place /\ place'[p] = v /\ \A n \in Member : n # p => place'[n] = place[n]
  BY DEF Place
<1>3. CASE m = p
  <2>1. Closed(V)'
    BY <1>1, <1>2 DEF Closed
  <2> QED
    BY <1>1, <1>2, <1>3, <2>1
<1>4. CASE m # p
  <2> PICK w : w = place[m]
    OBVIOUS
  <2> PICK W : W = Reachable({w})
    OBVIOUS
  <2>1. place'[m] = w /\ w \in Wrapper /\ m[1] \notin W
    BY <1>2, <1>4 DEF Acyclic
  <2>2. W \in SUBSET Wrapper /\ Closed(W) /\ w \in W
    BY <2>1, ReachableClosed, ReachableLeast
  <2>3. CASE p[1] \notin W
    <3>1. Closed(W)'
      BY <1>2, <2>2, <2>3 DEF Closed
    <3> QED
      BY <2>1, <2>2, <3>1
  <2>4. CASE p[1] \in W
    <3>1. m[1] \notin V
      <4>1. ASSUME m[1] \in V PROVE FALSE
        <5>1. w \in V
          BY <1>1, <2>1, <4>1 DEF Closed
        <5>2. W \subseteq V
          BY <1>1, <2>1, <5>1, ReachableLeast
        <5> QED
          BY <2>4, <5>2
      <4> QED
        BY <4>1
    <3>2. Closed(W \cup V)
      BY <1>1, <2>2, ClosedUnion
    <3>3. Closed(W \cup V)'
      BY <1>1, <1>2, <3>2 DEF Closed
    <3> QED
      BY <1>1, <2>1, <2>2, <3>1, <3>3
  <2> QED
    BY <2>3, <2>4
<1> QED
  BY <1>3, <1>4

(* A value of which a reference is left after a drop is held by another    *)
(* place as well.                                                          *)
LEMMA OtherHolder ==
  ASSUME RefcExact, NEW p \in Place, NEW v \in live \cup Constant, place[p] = v,
         refc[v] # 0, refc[v] # 1
  PROVE  \E q \in Place : q # p /\ place[q] = v
<1> SUFFICES ASSUME \A q \in Place : place[q] = v => q = p PROVE FALSE
  OBVIOUS
<1>1. Holders(v) = {p}
  BY DEF Holders
<1>2. Cardinality(Holders(v)) = 1
  BY <1>1, FS_Singleton
<1> QED
  BY <1>2 DEF RefcExact

(* A new value, in a variable of the program, has no members. *)
LEMMA MakeNesting ==
  ASSUME IInv, Nesting, NEW p \in Root, NEW w \in Wrapper, NEW t \in HeapType,
         NEW n \in Payload, Make(p, w, t, n)
  PROVE  Nesting'
<1>1. /\ live' = live \cup {w} /\ releasing' = releasing
      /\ place[p] = None /\ place' = [place EXCEPT ![p] = w]
  BY DEF Make, Get
<1>2. /\ p \in Place /\ place'[p] = w
      /\ \A m \in Member : place'[m] = place[m]
      /\ \A r \in Root \ {p} : place'[r] = place[r]
  BY <1>1, HeapAssumption DEF IInv, TypeOK, Place
<1>3. MembersOfLive'
  BY <1>1, <1>2 DEF Nesting, MembersOfLive
<1>4. Acyclic'
  BY <1>2, AcyclicShrink DEF Nesting
<1>5. NoLeak'
  <2> live \in SUBSET Wrapper /\ live' \in SUBSET Wrapper
    BY <1>1 DEF IInv, TypeOK
  <2>1. SUFFICES ASSUME NEW S \in SUBSET Wrapper, Anchors' \subseteq S, Closed(S)'
                 PROVE  live' \subseteq S
    BY NoLeakSets DEF NoLeak, Reachable
  <2>2. Closed(S)
    BY <1>2, <2>1 DEF Closed
  <2>3. Anchors \subseteq S /\ w \in S
    BY <1>1, <1>2, <2>1, HeapAssumption DEF Anchors, Held, Variant
  <2>4. live \subseteq S
    BY <2>2, <2>3, NoLeakSets DEF Nesting
  <2> QED
    BY <1>1, <2>3, <2>4
<1> QED
  BY <1>3, <1>4, <1>5 DEF Nesting

(* A reference that is added reaches nothing new, and a container gets no   *)
(* member from which it can be reached.                                     *)
LEMMA AddRefNesting ==
  ASSUME IInv, Nesting, NEW p \in Place, NEW v \in live \cup Constant,
         place[p] = None, place' = [place EXCEPT ![p] = v],
         p \in Member => p[1] \in live /\ (v \in Wrapper => p[1] \notin Reachable({v})),
         UNCHANGED <<live, releasing>>
  PROVE  Nesting'
<1> live \in SUBSET Wrapper
  BY DEF IInv, TypeOK
<1>2. /\ place'[p] = v
      /\ \A q \in Place \ {p} : place'[q] = place[q]
      /\ Root \subseteq Place /\ Member \subseteq Place /\ None \notin Wrapper
  BY HeapAssumption DEF IInv, TypeOK, Place, Variant
<1>3. MembersOfLive'
  BY <1>2 DEF Nesting, MembersOfLive
<1>4. Acyclic'
  <2>1. CASE p \in Member /\ v \in Wrapper
    BY <2>1, AcyclicGrow DEF Nesting, IInv, TypeOK
  <2>2. CASE ~(p \in Member /\ v \in Wrapper)
    <3>1. \A m \in Member : place'[m] \in Wrapper => place'[m] = place[m]
      BY <1>2, <2>2
    <3> QED
      BY <3>1, AcyclicShrink DEF Nesting
  <2> QED
    BY <2>1, <2>2
<1>5. NoLeak'
  <2>1. SUFFICES ASSUME NEW S \in SUBSET Wrapper, Anchors' \subseteq S, Closed(S)'
                 PROVE  live' \subseteq S
    BY DEF NoLeak, Reachable, IInv, TypeOK
  <2>2. Closed(S)
    BY <1>2, <2>1 DEF Closed
  <2>3. Anchors \subseteq S
    BY <1>2, <2>1 DEF Anchors, Held
  <2> QED
    BY <2>2, <2>3, NoLeakSets DEF Nesting
<1> QED
  BY <1>3, <1>4, <1>5 DEF Nesting

(* A reference that is dropped: what it led to is being released, or held   *)
(* by another place, which cannot be inside it and so does not need it to   *)
(* be reached.                                                              *)
LEMMA DropNesting ==
  ASSUME IInv, Nesting, NEW p \in Place, Drop(p)
  PROVE  Nesting'
<1> live \in SUBSET Wrapper
  BY DEF IInv, TypeOK
<1>0. PICK v \in live \cup Constant : v = place[p]
  BY DEF Drop, IInv, NoDangling
<1>1. /\ refc[v] # 0 /\ live' = live
      /\ place' = [place EXCEPT ![p] = None]
      /\ releasing' = IF Dies(v) THEN <<v>> \o releasing ELSE releasing
  BY <1>0 DEF Drop
<1>2. /\ place'[p] = None
      /\ \A q \in Place \ {p} : place'[q] = place[q]
      /\ Root \subseteq Place /\ Member \subseteq Place /\ None \notin Wrapper
  BY <1>1, HeapAssumption DEF IInv, TypeOK, Place, Variant
<1>3. MembersOfLive'
  BY <1>1, <1>2 DEF Nesting, MembersOfLive
<1>4. Acyclic'
  <2>1. \A m \in Member : place'[m] \in Wrapper => place'[m] = place[m]
    BY <1>2
  <2> QED
    BY <2>1, AcyclicShrink DEF Nesting
<1>5. NoLeak'
  <2>1. SUFFICES ASSUME NEW S \in SUBSET Wrapper, Anchors' \subseteq S, Closed(S)'
                 PROVE  live \subseteq S
    BY <1>1 DEF NoLeak, Reachable, IInv, TypeOK
  <2>2. Range(releasing) \subseteq S /\ (Dies(v) => v \in S)
    <3>1. CASE Dies(v)
      <4>1. v \in Wrapper /\ v \notin Range(releasing)
        BY <1>0, <3>1, HeldNotReleasing, HeapAssumption DEF Dies, Drop
      <4>2. Range(releasing') = Range(releasing) \cup {v}
        BY <1>1, <3>1, <4>1, PushRange DEF IInv, TypeOK, ReleasingSound
      <4> QED
        BY <2>1, <4>2 DEF Anchors, Held
    <3>2. CASE ~Dies(v)
      BY <1>1, <2>1, <3>2 DEF Anchors, Held
    <3> QED
      BY <3>1, <3>2
  <2>3. CASE v \in S \/ v \notin Wrapper
    <3>1. Closed(S)
      BY <1>0, <1>2, <2>1, <2>3 DEF Closed
    <3>2. Anchors \subseteq S
      BY <1>0, <1>2, <2>1, <2>2, <2>3 DEF Anchors, Held
    <3> QED
      BY <3>1, <3>2, NoLeakSets DEF Nesting
  <2>4. CASE v \in Wrapper /\ v \notin S
    <3> PICK V : V = Reachable({v})
      OBVIOUS
    <3>1. V \in SUBSET Wrapper /\ Closed(V) /\ v \in V
      BY <2>4, ReachableClosed, ReachableLeast
    <3>2. Closed(S \cup V)
      BY <1>0, <1>2, <2>1, <3>1 DEF Closed
    <3>3. Anchors \subseteq S \cup V
      BY <1>0, <1>2, <2>1, <2>2, <3>1 DEF Anchors, Held
    <3>4. live \subseteq S \cup V
      BY <3>1, <3>2, <3>3, NoLeakSets DEF Nesting
    <3>5. PICK q \in Place : q # p /\ place[q] = v
      <4>1. v \notin Constant
        BY <2>4, HeapAssumption
      <4>2. refc[v] # 1
        BY <2>2, <2>4, <4>1 DEF Dies
      <4> QED
        BY <1>0, <1>1, <4>2, OtherHolder DEF IInv
    <3>6. place'[q] = v
      BY <1>2, <3>5
    <3>7. q \in Member
      <4>1. ASSUME q \in Root PROVE FALSE
        BY <2>1, <2>4, <3>6, <4>1 DEF Anchors, Held
      <4> QED
        BY <4>1 DEF Place
    <3>8. q[1] \notin S
      BY <2>1, <2>4, <3>6, <3>7 DEF Closed
    <3>9. q[1] \in live
      BY <1>2, <2>4, <3>5, <3>7 DEF Nesting, MembersOfLive
    <3>10. q[1] \notin V
      BY <2>4, <3>5, <3>7 DEF Nesting, Acyclic
    <3> QED
      BY <3>4, <3>8, <3>9, <3>10
  <2> QED
    BY <2>3, <2>4
<1> QED
  BY <1>3, <1>4, <1>5 DEF Nesting

(* A value that is put back has no members left. *)
LEMMA PutNesting ==
  ASSUME IInv, Nesting, NEW w \in Wrapper, Put(w)
  PROVE  Nesting'
<1> live \in SUBSET Wrapper /\ live' \in SUBSET Wrapper
  BY DEF IInv, TypeOK, Put
<1>1. /\ releasing # <<>> /\ w = Head(releasing)
      /\ releasing' = Tail(releasing) /\ live' = live \ {w}
      /\ place' = place
      /\ \A i \in Index : place[<<w, i>>] = None
  BY DEF Put, Released
<1>2. \A m \in Member : m[1] = w => place[m] = None
  BY <1>1 DEF Member
<1>3. MembersOfLive'
  BY <1>1, <1>2 DEF Nesting, MembersOfLive
<1>4. Acyclic'
  BY <1>1, AcyclicShrink DEF Nesting
<1>5. NoLeak'
  <2>1. SUFFICES ASSUME NEW S \in SUBSET Wrapper, Anchors' \subseteq S, Closed(S)'
                 PROVE  live' \subseteq S
    BY DEF NoLeak, Reachable
  <2>2. Closed(S \cup {w})
    BY <1>1, <1>2, <2>1, HeapAssumption DEF Closed, Variant
  <2>3. Range(releasing) \subseteq Range(releasing') \cup {w}
    BY <1>1, TailRange DEF IInv, TypeOK, ReleasingSound
  <2>4. Anchors \subseteq S \cup {w}
    BY <1>1, <2>1, <2>3 DEF Anchors, Held
  <2> QED
    BY <1>1, <2>2, <2>4, NoLeakSets DEF Nesting
<1> QED
  BY <1>3, <1>4, <1>5 DEF Nesting

LEMMA OtherNesting ==
  ASSUME Nesting, UNCHANGED <<live, place, releasing>>
  PROVE  Nesting'
BY DEF Nesting, MembersOfLive, Acyclic, NoLeak, Anchors, Held, Reachable, Closed

LEMMA NestingInit == Init => Nesting
<1> SUFFICES ASSUME Init PROVE Nesting
  OBVIOUS
<1>1. \A p \in Place : place[p] = None /\ place[p] \notin Wrapper
  BY HeapAssumption DEF Init, Variant
<1> QED
  BY <1>1 DEF Init, Nesting, MembersOfLive, Acyclic, NoLeak, Place

(* What the program can get at is in use. *)
LEMMA BorrowedLive ==
  ASSUME IInv
  PROVE  Reachable(Held) \subseteq live
<1>1. live \in SUBSET Wrapper
  BY DEF IInv, TypeOK
<1>2. \A p \in Place : place[p] \in Wrapper => place[p] \in live
  BY HeapAssumption DEF IInv, NoDangling, Variant
<1>3. Closed(live) /\ Held \subseteq live
  BY <1>2 DEF Closed, Held, Place
<1> QED
  BY <1>1, <1>3 DEF Reachable

LEMMA NestingStep == IInv /\ Nesting /\ [Next]_vars => Nesting'
<1> SUFFICES ASSUME IInv, Nesting, [Next]_vars PROVE Nesting'
  OBVIOUS
<1>1. ASSUME NEW p \in Root, NEW w \in Wrapper, NEW t \in HeapType, NEW n \in Payload,
             Make(p, w, t, n)
      PROVE  Nesting'
  BY <1>1, MakeNesting
<1>2. ASSUME NEW p \in Root, NEW c \in UsedConstant, MakeConstant(p, c)
      PROVE  Nesting'
  <2>1. c \in Constant /\ p \in Place /\ p \notin Member
    BY HeapAssumption DEF Place
  <2> QED
    BY <1>2, <2>1, AddRefNesting DEF MakeConstant
<1>3. ASSUME NEW q \in Place, NEW p \in Place, Ref(q, p)
      PROVE  Nesting'
  <2>1. place[q] \in live \cup Constant
    BY <1>3 DEF Place, Ref, IInv, NoDangling
  <2>2. ASSUME p \in Member PROVE p[1] \in live
    BY <1>3, <2>2, BorrowedLive DEF Ref, Fillable, Accessible
  <2> QED
    BY <1>3, <2>1, <2>2, AddRefNesting DEF Ref, Fillable
<1>4. ASSUME NEW p \in Place, Unref(p)
      PROVE  Nesting'
  BY <1>4, DropNesting DEF Unref
<1>5. ASSUME NEW w \in Wrapper, NEW i \in Index, ReleaseMember(w, i)
      PROVE  Nesting'
  BY <1>5, DropNesting DEF ReleaseMember, Place, Member
<1>6. ASSUME NEW w \in Wrapper, Put(w)
      PROVE  Nesting'
  BY <1>6, PutNesting
<1> QED
  BY <1>1, <1>2, <1>3, <1>4, <1>5, <1>6, OtherNesting
     DEF Next, Resize, UsageStat, Cleanup, InitInstance, vars, cells

LEMMA NestingInductive == Spec => [](IInv /\ Nesting)
<1> QED
  BY IInvInit, IInvStep, NestingInit, NestingStep, PTL DEF Spec

(* Every value in use can be reached from the program or from a release     *)
(* under way, whatever was shared, nested and dropped in whatever order.    *)
THEOREM NothingLost == Spec => []NoLeak
BY NestingInductive, PTL DEF Nesting

(* A container cannot be reached from any of its members. *)
THEOREM NoCycles == Spec => []Acyclic
BY NestingInductive, PTL DEF Nesting

(* Only a heap in use can be cleaned up, and what it held is then gone. *)
LEMMA CleanupEmpties ==
  ASSUME IInv, Nesting, Cleanup
  PROVE  live = {}
<1>1. Anchors = {}
  BY HeapAssumption DEF Cleanup, Anchors, Held, Range, Variant
<1>2. Closed({})
  BY DEF Closed
<1> QED
  BY <1>1, <1>2, NoLeakSets DEF Nesting, IInv, TypeOK

-----------------------------------------------------------------------------
(* Sums of finitely many numbers.  The induction over them is over sets    *)
(* that are closed under one step more: every number is in such a set, and *)
(* so is every part of a finite set.                                       *)
LEMMA NatSets ==
  ASSUME NEW P, 0 \in P, \A n \in Nat : n \in P => n + 1 \in P
  PROVE  Nat \subseteq P
<1> PICK R : R = OpToRel(<, Nat)
  OBVIOUS
<1>1. IsWellFoundedOn(R, Nat)
  BY NatLessThanWellFounded
<1>2. \A x, y \in Nat : x < y => <<x, y>> \in R
  BY DEF OpToRel
<1>3. SUFFICES ASSUME Nat \ P # {} PROVE FALSE
  OBVIOUS
<1>4. PICK n \in Nat \ P : \A m \in Nat \ P : <<m, n>> \notin R
  BY <1>1, <1>3, WFMin
<1>5. n \in Nat /\ n # 0
  BY <1>4
<1>8. n - 1 \in Nat /\ n - 1 < n /\ n - 1 + 1 = n
  BY ONLY <1>5
<1>6. n - 1 \in P
  BY <1>2, <1>4, <1>8
<1> QED
  BY <1>4, <1>6, <1>8

(* A set that has every part of S of which it has all parts that are one   *)
(* element smaller has every part of S.                                    *)
LEMMA SubsetSets ==
  ASSUME NEW S, IsFiniteSet(S), NEW P,
         \A T \in SUBSET S : (\A x \in T : T \ {x} \in P) => T \in P
  PROVE  SUBSET S \subseteq P
<1> PICK R : R = StrictSubsetOrdering(S)
  OBVIOUS
<1>1. IsWellFoundedOn(R, SUBSET S)
  BY FS_StrictSubsetOrderingWellFounded, FS_FiniteSubsetsOfFinite
<1>2. \A T \in SUBSET S : \A x \in T : <<T \ {x}, T>> \in R
  BY DEF StrictSubsetOrdering
<1>3. SUFFICES ASSUME (SUBSET S) \ P # {} PROVE FALSE
  OBVIOUS
<1>4. PICK T \in (SUBSET S) \ P : \A U \in (SUBSET S) \ P : <<U, T>> \notin R
  BY <1>1, <1>3, WFMin
<1>5. \A x \in T : T \ {x} \in P
  BY <1>2, <1>4
<1> QED
  BY <1>4, <1>5

(* it is the function that SumFunction(f) chooses: its value at a set s is *)
(* the sum of f over s, one element after the other.                       *)
Some(T) == CHOOSE x \in T : TRUE
Sums(f, it) ==
  it = [s \in SUBSET DOMAIN f |-> IF s = {} THEN 0 ELSE f[Some(s)] + it[s \ {Some(s)}]]

LEMMA SumUnfold ==
  ASSUME NEW f
  PROVE  SumFunction(f) = (CHOOSE it : Sums(f, it))[DOMAIN f]
BY DEF SumFunction, SumFunctionOnSet, FoldFunctionOnSet, MapThenFoldSet, Sums, Some

(* A finite domain has such a function: one that is right for the sets of  *)
(* at most n members is made right for those of n + 1.                     *)
LEMMA SumExists ==
  ASSUME NEW f, IsFiniteSet(DOMAIN f), f \in [DOMAIN f -> Int]
  PROVE  \E it : Sums(f, it)
<1> PICK S : S = DOMAIN f
  OBVIOUS
<1> DEFINE Unfolded(it) == [s \in SUBSET S |-> IF s = {} THEN 0 ELSE f[Some(s)] + it[s \ {Some(s)}]]
           P == {n \in Nat : \E it \in [SUBSET S -> Int] : \A s \in SUBSET S : Cardinality(s) <= n => it[s] = Unfolded(it)[s]}
<1>1. \A s \in SUBSET S : /\ IsFiniteSet(s) /\ Cardinality(s) \in Nat
                          /\ s # {} => /\ Some(s) \in s
                                       /\ s \ {Some(s)} \in SUBSET S
                                       /\ Cardinality(s \ {Some(s)}) = Cardinality(s) - 1
  BY FS_Subset, FS_CardinalityType, FS_RemoveElement DEF Some
<1>2. 0 \in P
  <2>1. [s \in SUBSET S |-> 0] \in [SUBSET S -> Int]
    OBVIOUS
  <2>2. \A s \in SUBSET S : Cardinality(s) <= 0 => s = {}
    <3> TAKE s \in SUBSET S
    <3>1. IsFiniteSet(s) /\ Cardinality(s) \in Nat
      BY <1>1
    <3>2. Cardinality(s) = 0 => s = {}
      BY <3>1, FS_EmptySet
    <3> QED
      BY <3>1, <3>2
  <2> QED
    BY <2>1, <2>2
<1>3. ASSUME NEW n \in Nat, n \in P PROVE n + 1 \in P
  <2>1. PICK it \in [SUBSET S -> Int] : \A s \in SUBSET S : Cardinality(s) <= n => it[s] = Unfolded(it)[s]
    BY <1>3
  <2>2. Unfolded(it) \in [SUBSET S -> Int]
    <3>1. ASSUME NEW s \in SUBSET S, s # {}
          PROVE  f[Some(s)] + it[s \ {Some(s)}] \in Int
      <4>1. Some(s) \in DOMAIN f /\ s \ {Some(s)} \in SUBSET S
        BY <1>1, <3>1
      <4>2. f[Some(s)] \in Int /\ it[s \ {Some(s)}] \in Int
        BY <4>1
      <4> QED
        BY <4>2
    <3> QED
      BY <3>1
  <2>3. ASSUME NEW s \in SUBSET S, Cardinality(s) <= n + 1
        PROVE  Unfolded(it)[s] = Unfolded(Unfolded(it))[s]
    <3>1. CASE s = {}
      BY <3>1
    <3>2. CASE s # {}
      <4> PICK t : t = s \ {Some(s)}
        OBVIOUS
      <4>1. t \in SUBSET S /\ Cardinality(t) <= n
        BY <1>1, <2>3, <3>2
      <4>2. it[t] = Unfolded(it)[t]
        BY <2>1, <4>1
      <4>3. Unfolded(it)[s] = f[Some(s)] + it[t]
        BY <3>2
      <4>4. Unfolded(Unfolded(it))[s] = f[Some(s)] + Unfolded(it)[t]
        BY <3>2
      <4> QED
        BY <4>2, <4>3, <4>4
    <3> QED
      BY <3>1, <3>2
  <2> HIDE DEF Unfolded
  <2> QED
    BY <2>2, <2>3
<1>4. PICK it \in [SUBSET S -> Int] :
        \A s \in SUBSET S : Cardinality(s) <= Cardinality(S) => it[s] = Unfolded(it)[s]
  <2>1. Cardinality(S) \in P
    <3> HIDE DEF P
    <3> QED
      BY <1>1, <1>2, <1>3, NatSets
  <2> QED
    BY <2>1
<1>5. \A s \in SUBSET S : it[s] = Unfolded(it)[s]
  BY <1>1, <1>4, FS_Subset
<1> QED
  BY <1>5 DEF Sums

(* it gives the sum over every part of D, whatever is taken out first.     *)
TakesOut(D, f, it) ==
  /\ it[{}] = 0
  /\ \A T \in SUBSET D : it[T] \in Int
  /\ \A T \in SUBSET D : \A x \in T : it[T] = f[x] + it[T \ {x}]

LEMMA SumTake ==
  ASSUME NEW D, IsFiniteSet(D), NEW f \in [D -> Int], NEW it, Sums(f, it)
  PROVE  TakesOut(D, f, it)
<1>1. /\ it[{}] = 0
      /\ \A T \in SUBSET D : T # {} => Some(T) \in T /\ it[T] = f[Some(T)] + it[T \ {Some(T)}]
  BY DEF Sums, Some
<1>2. \A T \in SUBSET D : it[T] \in Int
  <2> DEFINE P == {T \in SUBSET D : it[T] \in Int}
  <2>1. ASSUME NEW T \in SUBSET D, \A x \in T : T \ {x} \in P
        PROVE  T \in P
    <3>1. CASE T = {}
      BY <1>1, <3>1
    <3>2. CASE T # {}
      <4> PICK c \in T : c = Some(T)
        BY <1>1, <3>2
      <4>1. it[T \ {c}] \in Int /\ f[c] \in Int
        BY <2>1
      <4>2. it[T] = f[c] + it[T \ {c}]
        BY <1>1, <3>2
      <4>3. it[T] \in Int
        BY ONLY <4>1, <4>2
      <4> QED
        BY <4>3
    <3> QED
      BY <3>1, <3>2
  <2> HIDE DEF P
  <2>2. SUBSET D \subseteq P
    BY <2>1, SubsetSets
  <2> QED
    BY <2>2 DEF P
<1>3. \A T \in SUBSET D : \A x \in T : it[T] = f[x] + it[T \ {x}]
  <2> DEFINE P == {T \in SUBSET D : \A x \in T : it[T] = f[x] + it[T \ {x}]}
  <2>1. ASSUME NEW T \in SUBSET D, \A x \in T : T \ {x} \in P
        PROVE  T \in P
    <3> SUFFICES ASSUME NEW x \in T PROVE it[T] = f[x] + it[T \ {x}]
      OBVIOUS
    <3> PICK c \in T : c = Some(T)
      BY <1>1
    <3>1. it[T] = f[c] + it[T \ {c}]
      BY <1>1
    <3>2. CASE x = c
      BY <3>1, <3>2
    <3>3. CASE x # c
      <4> PICK U \in SUBSET D : U = (T \ {c}) \ {x} /\ U = (T \ {x}) \ {c}
        OBVIOUS
      <4>1. it[T \ {c}] = f[x] + it[U]
        BY <2>1, <3>3
      <4>2. it[T \ {x}] = f[c] + it[U]
        BY <2>1, <3>3
      <4>3. it[U] \in Int /\ f[x] \in Int /\ f[c] \in Int
        BY <1>2
      <4> QED
        BY ONLY <3>1, <4>1, <4>2, <4>3
    <3> QED
      BY <3>2, <3>3
  <2> HIDE DEF P
  <2>2. SUBSET D \subseteq P
    BY <2>1, SubsetSets
  <2> QED
    BY <2>2 DEF P
<1> QED
  BY <1>1, <1>2, <1>3 DEF TakesOut

(* Summing goes in any order: SumFunction takes the elements of its      *)
(* domain out in an order of its own, which does not matter.               *)
LEMMA SumIs ==
  ASSUME NEW D, IsFiniteSet(D), NEW f \in [D -> Int]
  PROVE  \E it : TakesOut(D, f, it) /\ SumFunction(f) = it[D]
<1>1. DOMAIN f = D
  OBVIOUS
<1>2. Sums(f, CHOOSE it : Sums(f, it))
  BY <1>1, SumExists
<1>3. TakesOut(D, f, CHOOSE it : Sums(f, it))
  BY <1>2, SumTake
<1> QED
  BY <1>1, <1>3, SumUnfold

(* Nothing but zeros add up to zero. *)
LEMMA SumZero ==
  ASSUME NEW D, IsFiniteSet(D), NEW f, f = [x \in D |-> 0]
  PROVE  SumFunction(f) = 0
<1>1. f \in [D -> Int]
  OBVIOUS
<1> PICK it : TakesOut(D, f, it) /\ SumFunction(f) = it[D]
  BY <1>1, SumIs
<1> DEFINE P == {T \in SUBSET D : it[T] = 0}
<1>2. ASSUME NEW T \in SUBSET D, \A x \in T : T \ {x} \in P
      PROVE  T \in P
  <2>1. CASE T = {}
    BY <2>1 DEF TakesOut
  <2>2. CASE T # {}
    <3> PICK x \in T : TRUE
      BY <2>2
    <3>1. it[T] = f[x] + it[T \ {x}]
      BY DEF TakesOut
    <3> QED
      BY <1>2, <3>1
  <2> QED
    BY <2>1, <2>2
<1>3. SUBSET D \subseteq P
  <2> HIDE DEF P
  <2> QED
    BY <1>2, SubsetSets
<1> QED
  BY <1>3

(* A table of numbers that is changed in one place. *)
ChangedAt(D, x, f, g) ==
  /\ x \in D /\ f \in [D -> Int] /\ g \in [D -> Int]
  /\ \A y \in D \ {x} : g[y] = f[y]

(* Changing one number changes the sum by the difference.                  *)
LEMMA SumUpdate ==
  ASSUME NEW D, IsFiniteSet(D), NEW x, NEW f, NEW g, ChangedAt(D, x, f, g)
  PROVE  /\ SumFunction(f) \in Int
         /\ SumFunction(g) = SumFunction(f) - f[x] + g[x]
<1> USE DEF ChangedAt
<1>1. PICK it : TakesOut(D, f, it) /\ SumFunction(f) = it[D]
  BY SumIs
<1>2. PICK jt : TakesOut(D, g, jt) /\ SumFunction(g) = jt[D]
  BY SumIs
<1> DEFINE R == D \ {x}
           P == {T \in SUBSET R : it[T] = jt[T]}
<1>3. ASSUME NEW T \in SUBSET R, \A y \in T : T \ {y} \in P
      PROVE  T \in P
  <2>1. CASE T = {}
    BY <1>1, <1>2, <2>1 DEF TakesOut
  <2>2. CASE T # {}
    <3> PICK y \in T : TRUE
      BY <2>2
    <3>1. it[T] = f[y] + it[T \ {y}] /\ jt[T] = g[y] + jt[T \ {y}]
      BY <1>1, <1>2 DEF TakesOut
    <3>2. it[T \ {y}] = jt[T \ {y}] /\ f[y] = g[y]
      BY <1>3
    <3> QED
      BY <3>1, <3>2
  <2> QED
    BY <2>1, <2>2
<1>4. SUBSET R \subseteq P
  <2> IsFiniteSet(R)
    BY FS_Subset
  <2> HIDE DEF P, R
  <2> QED
    BY <1>3, SubsetSets
<1>5. it[R] = jt[R]
  BY <1>4
<1>6. it[D] = f[x] + it[R] /\ jt[D] = g[x] + jt[R] /\ it[R] \in Int /\ f[x] \in Int /\ g[x] \in Int /\ it[D] \in Int
  BY <1>1, <1>2 DEF TakesOut
<1> QED
  BY <1>1, <1>2, <1>5, <1>6

-----------------------------------------------------------------------------
(* The statistics.  They count finitely many types and values. *)
LEMMA StatFinite ==
  /\ IsFiniteSet(HeapType \cup ConstType)
  /\ \A L \in SUBSET Wrapper : IsFiniteSet(L) /\ Cardinality(L) \in Nat
<1>1. IsFiniteSet(ConstType)
  <2>1. IsFiniteSet({}) /\ ConstType = (({} \cup {"undefined"}) \cup {"null"}) \cup {"boolean"}
    BY FS_EmptySet DEF ConstType
  <2> QED
    BY <2>1, FS_AddElement
<1> QED
  BY <1>1, HeapAssumption, FS_Union, FS_Subset, FS_CardinalityType

(* A new heap accounts four constants, of which two are booleans. *)
LEMMA ConstTotal ==
  SumFunction(ZeroValues) = 0 /\ SumFunction(ConstMem) = 4
<1> PICK D : D = HeapType \cup ConstType
  OBVIOUS
<1> PICK undefined, null, boolean :
      undefined = "undefined" /\ null = "null" /\ boolean = "boolean"
  OBVIOUS
<1>0. /\ IsFiniteSet(D) /\ {undefined, null, boolean} \subseteq D
      /\ undefined # null /\ null # boolean /\ undefined # boolean
      /\ ConstType = {undefined, null, boolean}
  BY StatFinite DEF ConstType
<1>1. ZeroValues \in [D -> Int] /\ ZeroValues = [t \in D |-> 0]
  BY DEF ZeroValues
<1> PICK f1 : f1 = [ZeroValues EXCEPT ![undefined] = 1]
  OBVIOUS
<1> PICK f2 : f2 = [f1 EXCEPT ![null] = 1]
  OBVIOUS
<1>8. f1 \in [D -> Int] /\ f2 \in [D -> Int]
  BY <1>0, <1>1
<1>2. ConstMem = [f2 EXCEPT ![boolean] = 2]
  BY <1>0, <1>1, <1>8 DEF ConstMem
<1>3. SumFunction(ZeroValues) = 0
  BY <1>0, <1>1, SumZero
<1>4. SumFunction(f1) = 1
  <2>1. ZeroValues[undefined] = 0
    BY <1>0, <1>1, <1>8
  <2>2. ChangedAt(D, undefined, ZeroValues, f1) /\ f1[undefined] = 1
    BY <1>0, <1>1, <1>8 DEF ChangedAt
  <2>3. SumFunction(f1) = SumFunction(ZeroValues) - ZeroValues[undefined] + f1[undefined]
    BY ONLY <1>0, <2>2, SumUpdate
  <2> QED
    BY <1>3, <2>1, <2>2, <2>3
<1>5. SumFunction(f2) = 2
  <2>1. f1[null] = 0
    BY <1>0, <1>1, <1>8
  <2>2. ChangedAt(D, null, f1, f2) /\ f2[null] = 1
    BY <1>0, <1>8 DEF ChangedAt
  <2>3. SumFunction(f2) = SumFunction(f1) - f1[null] + f2[null]
    BY ONLY <1>0, <2>2, SumUpdate
  <2> QED
    BY <1>4, <2>1, <2>2, <2>3
<1>6. f2[boolean] = 0
  BY <1>0, <1>1, <1>8
<1>7. SumFunction(ConstMem) = 4
  <2>1. ChangedAt(D, boolean, f2, ConstMem) /\ ConstMem[boolean] = 2
    BY <1>0, <1>2, <1>8 DEF ChangedAt
  <2>2. SumFunction(ConstMem) = SumFunction(f2) - f2[boolean] + ConstMem[boolean]
    BY ONLY <1>0, <2>1, SumUpdate
  <2> QED
    BY <1>5, <1>6, <2>1, <2>2
<1> QED
  BY <1>3, <1>7

LEMMA ExtrasType ==
  ASSUME TypeOK
  PROVE  Extras \in [Wrapper -> Int]
BY DEF Extras, TypeOK

(* What the totals are is left as it is by a step that changes none of what *)
(* they count.                                                              *)
LEMMA TotalsKept ==
  ASSUME TotalsExact,
         UNCHANGED <<inited, live, type, word, reserve,
                     sz_mem, nr_total_values, sz_total_mem>>,
         \A t \in HeapType : nr_values'[t] = nr_values[t]
  PROVE  TotalsExact'
<1>1. Extras' = Extras /\ \A t \in HeapType : OfType(t)' = OfType(t)
  BY DEF Extras, OfType
<1> QED
  BY <1>1 DEF TotalsExact

LEMMA NothingCounted ==
  /\ SumFunction([w \in Wrapper |-> 0]) = 0
  /\ Cardinality({}) = 0
  /\ \A t \in HeapType : ZeroValues[t] = 0
<1>1. SumFunction([w \in Wrapper |-> 0]) = 0
  BY HeapAssumption, SumZero
<1> QED
  BY <1>1, FS_EmptySet DEF ZeroValues

(* An operation on one value w: its type's memory and the total change by   *)
(* the same amount a, which is what the values in use, the reserve and the  *)
(* extra memory of w change by.                                             *)
LEMMA Account ==
  ASSUME TypeOK, TotalsExact, inited,
         NEW t \in HeapType, NEW w \in Wrapper, NEW a \in Int,
         ChangedAt(Wrapper, w, Extras, Extras'),
         sz_mem' = [sz_mem EXCEPT ![t] = @ + a],
         sz_total_mem' = sz_total_mem + a,
         live' \in SUBSET Wrapper, Len(reserve') \in Int,
         a + Cardinality(live) + Len(reserve) + Extras[w]
           = Cardinality(live') + Len(reserve') + Extras'[w]
  PROVE  /\ sz_total_mem' = 4 + Cardinality(live') + Len(reserve') + SumFunction(Extras')
         /\ sz_total_mem' = SumFunction(sz_mem')
<1> DEFINE D == HeapType \cup ConstType
<1>1. PICK m \in Int : m = SumFunction(sz_mem) /\ SumFunction(sz_mem') = m + a
  <2>1. /\ ChangedAt(D, t, sz_mem, sz_mem')
        /\ sz_mem[t] \in Int /\ sz_mem'[t] = sz_mem[t] + a
    BY DEF ChangedAt, TypeOK
  <2>2. /\ SumFunction(sz_mem) \in Int
        /\ SumFunction(sz_mem') = SumFunction(sz_mem) - sz_mem[t] + sz_mem'[t]
    BY ONLY <2>1, StatFinite, SumUpdate
  <2> QED
    BY <2>1, <2>2
<1>2. PICK x \in Int, old \in Int, new \in Int :
        /\ x = SumFunction(Extras) /\ old = Extras[w] /\ new = Extras'[w]
        /\ SumFunction(Extras') = x - old + new
  <2>1. Extras[w] \in Int /\ Extras'[w] \in Int
    BY DEF ChangedAt
  <2>2. IsFiniteSet(Wrapper)
    BY HeapAssumption
  <2>3. /\ SumFunction(Extras) \in Int
        /\ SumFunction(Extras') = SumFunction(Extras) - Extras[w] + Extras'[w]
    BY <2>2, SumUpdate
  <2> QED
    BY <2>1, <2>3
<1>3. PICK c \in Int, d \in Int, len \in Int, lenx \in Int :
        /\ c = Cardinality(live) /\ d = Cardinality(live')
        /\ len = Len(reserve) /\ lenx = Len(reserve')
  <2>1. live \in SUBSET Wrapper /\ reserve \in Seq(Wrapper)
    BY DEF TypeOK
  <2>2. Cardinality(live) \in Int /\ Cardinality(live') \in Int
    BY <2>1, StatFinite
  <2>3. Len(reserve) \in Int
    BY <2>1
  <2> QED
    BY <2>2, <2>3
<1>4. /\ sz_total_mem = 4 + c + len + x
      /\ sz_total_mem = m
  BY <1>1, <1>2, <1>3 DEF TotalsExact
<1>5. a + c + len + old = d + lenx + new
  BY <1>2, <1>3
<1>6. 4 + c + len + x + a = 4 + d + lenx + (x - old + new)
  <2>1. a \in Int
    OBVIOUS
  <2> QED
    BY ONLY <1>5, <2>1
<1> QED
  BY <1>1, <1>2, <1>3, <1>4, <1>6

(* The value that pcvariant_get hands out is counted once, with the extra   *)
(* memory it begins with; a reserved wrapper was counted before.            *)
LEMMA MakeTotals ==
  ASSUME IInv, TotalsExact, NEW p \in Root, NEW w \in Wrapper, NEW t \in HeapType,
         NEW n \in Payload, Make(p, w, t, n)
  PROVE  TotalsExact'
<1> inited
  BY DEF Make, ProgramRuns
<1>0. /\ TypeOK /\ n \in Nat /\ w \notin live
      /\ live \in SUBSET Wrapper /\ nr_values \in [HeapType \cup ConstType -> Int]
      /\ nr_total_values \in Int
  BY HeapAssumption, FreshWrapper DEF IInv, TypeOK
<1>1. PICK extra \in Int : extra = IF t \in ExtraType THEN n ELSE 0
  BY <1>0
<1>2. Extra(t, ClearedWord(w), n) = extra
  BY <1>0, <1>1 DEF Extra, ClearedWord
<1>3. /\ live' = live \cup {w} /\ type' = [type EXCEPT ![w] = t]
      /\ word' = [word EXCEPT ![w] = n]
      /\ nr_values' = [nr_values EXCEPT ![t] = @ + 1]
      /\ nr_total_values' = nr_total_values + 1
  BY DEF Make, Get
<1>4. Cardinality(live') = Cardinality(live) + 1 /\ Cardinality(live) \in Nat
  BY <1>0, <1>3, StatFinite, FS_AddElement
<1>5. /\ ChangedAt(Wrapper, w, Extras, Extras')
      /\ Extras[w] = 0 /\ Extras'[w] = extra
  <2>1. Extras \in [Wrapper -> Int] /\ Extras[w] = 0
    BY <1>0, ExtrasType DEF Extras
  <2>2. Extras' = [Extras EXCEPT ![w] = extra]
    BY <1>0, <1>1, <1>3 DEF Extras, TypeOK
  <2> QED
    BY <1>1, <2>1, <2>2 DEF ChangedAt
<1>6. ASSUME NEW u \in HeapType PROVE nr_values'[u] = Cardinality(OfType(u)')
  <2>1. OfType(u) \in SUBSET Wrapper /\ w \notin OfType(u)
    BY <1>0 DEF OfType
  <2>2. nr_values[u] = Cardinality(OfType(u))
    BY DEF TotalsExact
  <2>3. CASE u = t
    <3>1. OfType(u)' = OfType(u) \cup {w}
      BY <1>0, <1>3, <2>3 DEF OfType, TypeOK
    <3> QED
      BY <1>0, <1>3, <2>1, <2>2, <2>3, <3>1, StatFinite, FS_AddElement
  <2>4. CASE u # t
    <3>1. OfType(u)' = OfType(u)
      BY <1>0, <1>3, <2>4 DEF OfType, TypeOK
    <3> QED
      BY <1>0, <1>3, <2>2, <2>4, <3>1
  <2> QED
    BY <2>3, <2>4
<1>7. PICK a \in Int :
        /\ a + Len(reserve) = 1 + extra + Len(reserve')
        /\ Len(reserve) \in Int /\ Len(reserve') \in Int
        /\ sz_mem' = [sz_mem EXCEPT ![t] = @ + a]
        /\ sz_total_mem' = sz_total_mem + a
  <2>1. CASE reserve = <<>>
    <3>1. /\ reserve' = reserve
          /\ sz_mem' = [sz_mem EXCEPT ![t] = @ + 1 + extra]
          /\ sz_total_mem' = sz_total_mem + 1 + extra
      BY <1>2, <2>1 DEF Make, Get
    <3>2. PICK a \in Int : a = 1 + extra
      BY <1>1
    <3>3. /\ [sz_mem EXCEPT ![t] = @ + 1 + extra] = [sz_mem EXCEPT ![t] = @ + a]
          /\ sz_total_mem + 1 + extra = sz_total_mem + a
      <4>1. sz_mem[t] \in Int /\ sz_total_mem \in Int
        BY <1>0 DEF TypeOK
      <4>2. /\ sz_mem[t] + 1 + extra = sz_mem[t] + a
            /\ sz_total_mem + 1 + extra = sz_total_mem + a
        BY ONLY <1>1, <3>2, <4>1
      <4> QED
        BY <4>2
    <3>4. Len(reserve) \in Int
      BY <1>0 DEF TypeOK
    <3>5. a + Len(reserve) = 1 + extra + Len(reserve')
      BY <3>1, <3>2
    <3> QED
      BY <3>1, <3>2, <3>3, <3>4, <3>5
  <2>2. CASE reserve # <<>>
    <3>1. /\ reserve' = Tail(reserve)
          /\ sz_mem' = [sz_mem EXCEPT ![t] = @ + extra]
          /\ sz_total_mem' = sz_total_mem + extra
      BY <1>2, <2>2 DEF Make, Get
    <3>2. Len(reserve') = Len(reserve) - 1 /\ Len(reserve) \in Int
      <4>1. reserve \in Seq(Wrapper)
        BY <1>0 DEF TypeOK
      <4> QED
        BY <2>2, <3>1, <4>1
    <3>3. /\ extra + Len(reserve) = 1 + extra + Len(reserve')
          /\ Len(reserve') \in Int
      BY ONLY <1>1, <3>2
    <3> QED
      BY <1>1, <3>1, <3>2, <3>3
  <2> QED
    BY <2>1, <2>2
<1>8. /\ a + Cardinality(live) + Len(reserve) + Extras[w]
           = Cardinality(live') + Len(reserve') + Extras'[w]
      /\ live' \in SUBSET Wrapper
  <2>1. PICK c \in Int, d \in Int, len \in Int, lenx \in Int :
          /\ c = Cardinality(live) /\ d = Cardinality(live')
          /\ len = Len(reserve) /\ lenx = Len(reserve')
    <3>1. Cardinality(live) \in Int /\ Cardinality(live') \in Int
      BY <1>4
    <3>2. Len(reserve) \in Int /\ Len(reserve') \in Int
      BY <1>0, <1>7
    <3> QED
      BY ONLY <3>1, <3>2
  <2>2. d = c + 1 /\ a + len = 1 + extra + lenx
    BY <1>4, <1>7, <2>1
  <2>3. a + c + len + 0 = d + lenx + extra
    BY ONLY <2>2
  <2>4. live' \in SUBSET Wrapper
    BY <1>0, <1>3
  <2> QED
    BY <1>5, <2>1, <2>3, <2>4
<1>9. /\ sz_total_mem' = 4 + Cardinality(live') + Len(reserve') + SumFunction(Extras')
      /\ sz_total_mem' = SumFunction(sz_mem')
  BY <1>0, <1>5, <1>7, <1>8, Account
<1>10. nr_total_values' = 4 + Cardinality(live')
  BY <1>0, <1>3, <1>4 DEF TotalsExact
<1> QED
  BY <1>6, <1>9, <1>10 DEF TotalsExact

(* The extra memory of a value changes. *)
LEMMA ResizeTotals ==
  ASSUME IInv, TotalsExact, NEW r \in Place, NEW n \in Payload, Resize(r, n)
  PROVE  TotalsExact'
<1> inited
  BY DEF Resize, ProgramRuns
<1> PICK w \in Wrapper : w = place[r] /\ type[w] \in ExtraType
  BY DEF Resize
<1> PICK t \in HeapType : t = type[w]
  BY DEF ExtraType, HeapType
<1>0. /\ TypeOK /\ n \in Int /\ word[w] \in Int /\ w \in live
  <2>1. place[r] \in live \cup Constant \cup {None}
    BY DEF IInv, NoDangling, Place
  <2> QED
    BY <2>1, HeapAssumption DEF IInv, TypeOK, Variant
<1> PICK a \in Int : a = n - word[w]
  BY <1>0
<1>1. /\ word' = [word EXCEPT ![w] = n]
      /\ sz_mem' = [sz_mem EXCEPT ![t] = @ + a]
      /\ sz_total_mem' = sz_total_mem + a
      /\ UNCHANGED <<inited, live, type, reserve, nr_values, nr_total_values>>
  BY DEF Resize, Extra
<1>2. /\ ChangedAt(Wrapper, w, Extras, Extras')
      /\ Extras[w] = word[w] /\ Extras'[w] = n
  <2>1. Extras \in [Wrapper -> Int] /\ Extras[w] = word[w]
    BY <1>0, ExtrasType DEF Extras
  <2>2. Extras' = [Extras EXCEPT ![w] = n]
    BY <1>0, <1>1 DEF Extras, TypeOK
  <2> QED
    BY <1>0, <2>1, <2>2 DEF ChangedAt
<1>3. /\ a + Cardinality(live) + Len(reserve) + Extras[w]
           = Cardinality(live') + Len(reserve') + Extras'[w]
      /\ live' \in SUBSET Wrapper /\ Len(reserve') \in Int
  <2>1. live \in SUBSET Wrapper /\ Cardinality(live) \in Int /\ Len(reserve) \in Int
    BY <1>0, StatFinite DEF TypeOK
  <2> QED
    BY <1>0, <1>1, <1>2, <2>1
<1>4. /\ sz_total_mem' = 4 + Cardinality(live') + Len(reserve') + SumFunction(Extras')
      /\ sz_total_mem' = SumFunction(sz_mem')
  BY <1>0, <1>1, <1>2, <1>3, Account
<1> QED
  BY <1>1, <1>4 DEF TotalsExact, OfType

(* A value that is put back is counted no longer, nor its extra memory; its *)
(* wrapper is when the reserve keeps it.                                    *)
LEMMA PutTotals ==
  ASSUME IInv, TotalsExact, inited, NEW w \in Wrapper, Put(w)
  PROVE  TotalsExact'
<1>0. /\ TypeOK /\ w \in live /\ word[w] \in Int /\ type[w] \in HeapType
      /\ live \in SUBSET Wrapper /\ nr_values \in [HeapType \cup ConstType -> Int]
      /\ nr_total_values \in Int /\ Len(reserve) \in Nat
  <2>1. w \in Range(releasing) /\ TypeOK
    BY HeadInRange DEF Put, IInv, TypeOK
  <2> QED
    BY <2>1 DEF IInv, ReleasingSound, LiveTyped, TypeOK
<1> PICK t \in HeapType : t = type[w]
  BY <1>0
<1>1. PICK extra \in Int : extra = IF t \in ExtraType THEN word[w] ELSE 0
  BY <1>0
<1>2. Extra(t, word[w], 0) = -extra
  BY <1>0, <1>1 DEF Extra
<1>3. /\ live' = live \ {w} /\ inited' = inited
      /\ nr_values' = [nr_values EXCEPT ![t] = @ - 1]
      /\ nr_total_values' = nr_total_values - 1
      /\ \A u \in live' : type'[u] = type[u] /\ word'[u] = word[u]
  BY <1>0 DEF Put, TypeOK
<1>4. Cardinality(live') = Cardinality(live) - 1 /\ Cardinality(live) \in Nat
  BY <1>0, <1>3, StatFinite, FS_RemoveElement
<1>5. /\ ChangedAt(Wrapper, w, Extras, Extras')
      /\ Extras[w] = extra /\ Extras'[w] = 0
  <2>1. Extras \in [Wrapper -> Int] /\ Extras[w] = extra
    BY <1>0, <1>1, ExtrasType DEF Extras
  <2>2. Extras' = [Extras EXCEPT ![w] = 0]
    BY <1>0, <1>3 DEF Extras
  <2> QED
    BY <1>1, <2>1, <2>2 DEF ChangedAt
<1>6. ASSUME NEW u \in HeapType PROVE nr_values'[u] = Cardinality(OfType(u)')
  <2>1. OfType(u) \in SUBSET Wrapper
    BY <1>0 DEF OfType
  <2>2. nr_values[u] = Cardinality(OfType(u))
    BY DEF TotalsExact
  <2>3. CASE u = t
    <3>1. OfType(u)' = OfType(u) \ {w} /\ w \in OfType(u)
      BY <1>0, <1>3, <2>3 DEF OfType
    <3> QED
      BY <1>0, <1>3, <2>1, <2>2, <2>3, <3>1, StatFinite, FS_RemoveElement
  <2>4. CASE u # t
    <3>1. OfType(u)' = OfType(u)
      BY <1>0, <1>3, <2>4 DEF OfType
    <3> QED
      BY <1>0, <1>3, <2>2, <2>4, <3>1
  <2> QED
    BY <2>3, <2>4
<1>7. PICK a \in Int :
        /\ a + Len(reserve) = Len(reserve') - 1 - extra
        /\ Len(reserve') \in Int
        /\ sz_mem' = [sz_mem EXCEPT ![t] = @ + a]
        /\ sz_total_mem' = sz_total_mem + a
  <2>1. CASE nr_reserved >= MaxReserved
    <3>0. ~(nr_reserved < MaxReserved)
      <4>1. nr_reserved \in Int /\ MaxReserved \in Int
        BY <1>0, HeapAssumption DEF TypeOK
      <4> QED
        BY ONLY <2>1, <4>1
    <3>1. /\ reserve' = reserve
          /\ sz_mem' = [sz_mem EXCEPT ![t] = @ + Extra(t, word[w], 0) - 1]
          /\ sz_total_mem' = sz_total_mem + Extra(t, word[w], 0) - 1
      BY <3>0 DEF Put
    <3>2. PICK a \in Int : a = -extra - 1
      BY <1>1
    <3>3. PICK less \in Int : less = -extra
      BY <1>1
    <3>4. /\ [sz_mem EXCEPT ![t] = @ + less - 1] = [sz_mem EXCEPT ![t] = @ + a]
          /\ sz_total_mem + less - 1 = sz_total_mem + a
      <4>1. sz_mem[t] \in Int /\ sz_total_mem \in Int
        BY <1>0 DEF TypeOK
      <4>2. /\ sz_mem[t] + less - 1 = sz_mem[t] + a
            /\ sz_total_mem + less - 1 = sz_total_mem + a
        BY ONLY <1>1, <3>2, <3>3, <4>1
      <4> QED
        BY <4>2
    <3>5. a + Len(reserve) = Len(reserve') - 1 - extra
      <4>1. Len(reserve) \in Int
        BY <1>0
      <4>2. a + Len(reserve) = Len(reserve) - 1 - extra
        BY ONLY SMTT(20), <1>1, <3>2, <4>1
      <4> QED
        BY <3>1, <4>2
    <3>6. Len(reserve') \in Int
      BY <1>0, <3>1
    <3> QED
      BY <1>2, <3>1, <3>2, <3>3, <3>4, <3>5, <3>6
  <2>2. CASE nr_reserved < MaxReserved
    <3>0. ~(nr_reserved >= MaxReserved)
      <4>1. nr_reserved \in Int /\ MaxReserved \in Int
        BY <1>0, HeapAssumption DEF TypeOK
      <4> QED
        BY ONLY <2>2, <4>1
    <3>1. /\ reserve' = Append(reserve, w)
          /\ sz_mem' = [sz_mem EXCEPT ![t] = @ + Extra(t, word[w], 0)]
          /\ sz_total_mem' = sz_total_mem + Extra(t, word[w], 0)
      BY <3>0 DEF Put, KeptLast
    <3>2. PICK a \in Int : a = -extra
      BY <1>1
    <3>3. Len(reserve') = Len(reserve) + 1 /\ Len(reserve) \in Int
      <4>1. reserve \in Seq(Wrapper)
        BY <1>0 DEF TypeOK
      <4> QED
        BY <3>1, <4>1
    <3>4. /\ a + Len(reserve) = Len(reserve') - 1 - extra
          /\ Len(reserve') \in Int
      BY ONLY <1>1, <3>2, <3>3
    <3> QED
      BY <1>2, <3>1, <3>2, <3>4
  <2> QED
    <3>1. nr_reserved \in Int /\ MaxReserved \in Int
      BY <1>0, HeapAssumption DEF TypeOK
    <3>2. nr_reserved >= MaxReserved \/ nr_reserved < MaxReserved
      BY ONLY <3>1
    <3> QED
      BY <2>1, <2>2, <3>2
<1>8. /\ a + Cardinality(live) + Len(reserve) + Extras[w]
           = Cardinality(live') + Len(reserve') + Extras'[w]
      /\ live' \in SUBSET Wrapper
  <2>1. PICK c \in Int, d \in Int, len \in Int, lenx \in Int :
          /\ c = Cardinality(live) /\ d = Cardinality(live')
          /\ len = Len(reserve) /\ lenx = Len(reserve')
    <3>1. Cardinality(live) \in Int /\ Cardinality(live') \in Int
      BY <1>4
    <3>2. Len(reserve) \in Int /\ Len(reserve') \in Int
      BY <1>0, <1>7
    <3> QED
      BY ONLY <3>1, <3>2
  <2>2. d = c - 1 /\ a + len = lenx - 1 - extra
    BY <1>4, <1>7, <2>1
  <2>3. a + c + len + extra = d + lenx + 0
    BY ONLY <2>2
  <2>4. live' \in SUBSET Wrapper
    BY <1>0, <1>3
  <2> QED
    BY <1>5, <2>1, <2>3, <2>4
<1>9. /\ sz_total_mem' = 4 + Cardinality(live') + Len(reserve') + SumFunction(Extras')
      /\ sz_total_mem' = SumFunction(sz_mem')
  BY <1>0, <1>5, <1>7, <1>8, Account
<1>10. nr_total_values' = 4 + Cardinality(live')
  BY <1>0, <1>3, <1>4 DEF TotalsExact
<1> QED
  BY <1>6, <1>9, <1>10 DEF TotalsExact

LEMMA TotalsInit == Init => TotalsExact /\ Emptied
<1> SUFFICES ASSUME Init PROVE TotalsExact
  BY DEF Init, Emptied
<1>1. Extras = [w \in Wrapper |-> 0] /\ \A t \in HeapType : OfType(t) = {}
  BY DEF Init, Extras, OfType
<1>2. /\ live = {} /\ reserve = <<>> /\ nr_values = ZeroValues /\ sz_mem = ConstMem
      /\ nr_total_values = 4 /\ sz_total_mem = 4
  BY DEF Init
<1>3. Len(reserve) = 0
  BY <1>2
<1>4. SumFunction(Extras) = 0 /\ Cardinality(live) = 0
  BY <1>1, <1>2, NothingCounted
<1>5. sz_total_mem = 4 + Cardinality(live) + Len(reserve) + SumFunction(Extras)
  BY <1>2, <1>3, <1>4
<1>6. sz_total_mem = SumFunction(sz_mem)
  BY <1>2, ConstTotal
<1>7. \A t \in HeapType : nr_values[t] = Cardinality(OfType(t))
  BY <1>1, <1>2, NothingCounted
<1>8. nr_total_values = 4 + Cardinality(live)
  BY <1>2, <1>4
<1> QED
  BY <1>5, <1>6, <1>7, <1>8 DEF TotalsExact

(* Without a heap nothing happens but the initialisation of one. *)
LEMMA OnlyInitInstance ==
  ASSUME IInv, [Next]_vars, ~inited
  PROVE  InitInstance \/ UNCHANGED vars
<1>1. releasing = <<>>
  BY DEF IInv, CleanedUp
<1> QED
  BY <1>1 DEF Next, Make, MakeConstant, Ref, Unref, ReleaseMember, Resize, Put,
         UsageStat, Cleanup, ProgramRuns, vars

LEMMA EmptiedStep ==
  ASSUME IInv, Nesting, Emptied, [Next]_vars
  PROVE  Emptied'
<1>1. CASE ~inited
  BY <1>1, OnlyInitInstance DEF Emptied, InitInstance, vars, cells
<1>2. CASE inited
  <2>1. Cleanup \/ inited'
    BY <1>2 DEF Next, Make, MakeConstant, Ref, Unref, ReleaseMember, Drop, Resize,
           Put, UsageStat, InitInstance, vars
  <2> QED
    BY <2>1, CleanupEmpties DEF Emptied, Cleanup
<1> QED
  BY <1>1, <1>2

LEMMA TotalsStep ==
  ASSUME IInv, Nesting, Emptied, TotalsExact, [Next]_vars
  PROVE  TotalsExact'
<1>1. CASE ~inited
  <2>1. CASE InitInstance
    <3>1. live' = {} /\ reserve' = <<>>
      BY <1>1, <2>1 DEF Emptied, InitInstance
    <3>2. /\ nr_values' = ZeroValues /\ sz_mem' = ConstMem
          /\ nr_total_values' = 4 /\ sz_total_mem' = 4
      BY <2>1 DEF InitInstance
    <3>3. Extras' = [w \in Wrapper |-> 0] /\ \A t \in HeapType : OfType(t)' = {}
      BY <3>1 DEF Extras, OfType
    <3>4. Len(reserve') = 0
      BY <3>1
    <3>5. SumFunction(Extras') = 0 /\ Cardinality(live') = 0
      BY <3>1, <3>3, NothingCounted
    <3>6. sz_total_mem' = 4 + Cardinality(live') + Len(reserve') + SumFunction(Extras')
      BY <3>2, <3>4, <3>5
    <3>7. sz_total_mem' = SumFunction(sz_mem')
      BY <3>2, ConstTotal
    <3>8. \A t \in HeapType : nr_values'[t] = Cardinality(OfType(t)')
      BY <3>1, <3>2, <3>3, NothingCounted
    <3>9. nr_total_values' = 4 + Cardinality(live')
      BY <3>2, <3>5
    <3> QED
      BY <3>6, <3>7, <3>8, <3>9 DEF TotalsExact
  <2>2. CASE UNCHANGED vars
    BY <2>2, TotalsKept DEF vars, cells, stat
  <2> QED
    BY <1>1, <2>1, <2>2, OnlyInitInstance
<1>2. CASE inited
  <2>1. ASSUME NEW p \in Root, NEW w \in Wrapper, NEW t \in HeapType, NEW n \in Payload,
               Make(p, w, t, n)
        PROVE  TotalsExact'
    BY <2>1, MakeTotals
  <2>2. ASSUME NEW r \in Place, NEW n \in Payload, Resize(r, n)
        PROVE  TotalsExact'
    BY <2>2, ResizeTotals
  <2>3. ASSUME NEW w \in Wrapper, Put(w)
        PROVE  TotalsExact'
    BY <1>2, <2>3, PutTotals
  <2>4. CASE UsageStat
    <3>1. /\ UNCHANGED <<inited, live, type, word, reserve,
                         sz_mem, nr_total_values, sz_total_mem>>
          /\ nr_values' = [nr_values EXCEPT !["undefined"] = refc["v_undefined"],
                                            !["null"] = refc["v_null"],
                                            !["boolean"] = refc["v_true"] + refc["v_false"]]
      BY <2>4 DEF UsageStat, cells
    <3>2. nr_values \in [HeapType \cup ConstType -> Int]
      BY DEF IInv, TypeOK
    <3>3. ASSUME NEW t \in HeapType PROVE nr_values'[t] = nr_values[t]
      <4>1. t # "undefined" /\ t # "null" /\ t # "boolean"
        BY HeapAssumption DEF ConstType
      <4> QED
        BY <3>1, <3>2, <4>1
    <3> QED
      BY <3>1, <3>3, TotalsKept
  <2>5. CASE Cleanup
    BY <2>5 DEF TotalsExact, Cleanup
  <2>6. CASE \/ \E p \in Root, c \in UsedConstant : MakeConstant(p, c)
             \/ \E q, p \in Place : Ref(q, p)
             \/ \E p \in Place : Unref(p)
             \/ \E w \in Wrapper, i \in Index : ReleaseMember(w, i)
             \/ UNCHANGED vars
    <3>1. UNCHANGED <<inited, live, type, word, reserve,
                      sz_mem, nr_total_values, sz_total_mem, nr_values>>
      BY <2>6 DEF MakeConstant, Ref, Unref, ReleaseMember, Drop, vars, cells, stat
    <3> QED
      BY <3>1, TotalsKept
  <2> QED
    BY <1>2, <2>1, <2>2, <2>3, <2>4, <2>5, <2>6 DEF Next, InitInstance
<1> QED
  BY <1>1, <1>2

(* The counts that purc_variant_usage_stat reports are what the heap holds, *)
(* in total and for each type, whatever was made, resized, kept in the      *)
(* reserve, reused and put back before.                                     *)
THEOREM TotalsAreExact == Spec => []TotalsExact
<1>1. IInv /\ Nesting /\ Emptied /\ TotalsExact /\ [Next]_vars
        => Emptied' /\ TotalsExact'
  BY EmptiedStep, TotalsStep
<1> QED
  BY <1>1, TotalsInit, NestingInductive, PTL DEF Spec

-----------------------------------------------------------------------------
(* The loader of dynamic objects.                                          *)

LEMMA LoaderInit == DvobjInit => IInv /\ Nesting /\ LoaderInv
<1> SUFFICES ASSUME DvobjInit PROVE LoaderInv
  BY IInvInit, NestingInit DEF DvobjInit
<1> QED
  BY DEF DvobjInit, Init, LoaderInv, LoaderTypeOK, Nested, CodeOpen

-----------------------------------------------------------------------------
(* The heap under the loader.  The object that an entry function returns    *)
(* and that is none is dropped by the loader itself, whoever calls it.      *)
LEMMA HeapDrop ==
  ASSUME IInv, Nesting, inited, NEW p \in Place, Drop(p)
  PROVE  IInv' /\ Nesting' /\ inited'
<1>1. TypeOK'
  BY DropTyped DEF IInv
<1> QED
  BY <1>1, DropStep, DropNesting DEF Drop

LEMMA HeapStep ==
  ASSUME IInv, Nesting, inited, [DvobjNext]_dvars
  PROVE  IInv' /\ Nesting' /\ inited'
<1> Root \subseteq Place
  BY DEF Place
<1>1. CASE [Next]_vars /\ inited'
  BY <1>1, IInvStep, NestingStep
<1>2. ASSUME NEW p \in Root, NEW lib, NEW outer, DropAndClose(lib, p, outer)
      PROVE  IInv' /\ Nesting' /\ inited'
  BY <1>2, HeapDrop DEF DropAndClose
<1>3. ASSUME NEW p \in Root, NEW w \in Wrapper, NEW t \in HeapType, NEW n \in Payload,
             MakeValue(p, w, t, n)
      PROVE  [Next]_vars /\ inited'
  BY <1>3 DEF MakeValue, Next, Make
<1>4. CASE UseValue
  <2>1. Next
    BY <1>4 DEF UseValue, Next
  <2>2. inited'
    BY <1>4 DEF UseValue, Ref, Unref, Drop
  <2> QED
    BY <1>1, <2>1, <2>2
<1>5. ASSUME NEW w \in Wrapper, RunReleaser(w)
      PROVE  [Next]_vars /\ inited'
  BY <1>5 DEF RunReleaser, Next, ReleaseMember, Drop, Put
<1>6. ASSUME NEW p \in Root, LoadEnd(p)
      PROVE  IInv' /\ Nesting' /\ inited'
  <2>1. CASE UNCHANGED vars
    BY <1>1, <2>1 DEF vars
  <2>2. CASE ~UNCHANGED vars
    BY <1>2, <1>6, <2>2 DEF LoadEnd
  <2> QED
    BY <2>1, <2>2
<1>7. ASSUME NEW p \in Root, Unload(p)
      PROVE  IInv' /\ Nesting' /\ inited'
  BY <1>2, <1>7 DEF Unload
<1>8. CASE (\E p \in Root, name \in Name : LoadBegin(p, name)) \/ DlClose \/ UNCHANGED dvars
  <2>1. UNCHANGED vars
    BY <1>8 DEF LoadBegin, DlClose, dvars
  <2> QED
    BY <1>1, <2>1 DEF vars
<1> QED
  BY <1>1, <1>3, <1>4, <1>5, <1>6, <1>7, <1>8 DEF DvobjNext

-----------------------------------------------------------------------------
(* Stacks, the innermost element first. *)
LEMMA PushSeq ==
  ASSUME NEW S, NEW s \in Seq(S), NEW c \in S
  PROVE  /\ <<c>> \o s \in Seq(S)
         /\ Len(<<c>> \o s) = Len(s) + 1
         /\ (<<c>> \o s)[1] = c
         /\ \A i \in 1 .. Len(s) : (<<c>> \o s)[i + 1] = s[i]
         /\ \A i \in 2 .. Len(s) + 1 : (<<c>> \o s)[i] = s[i - 1]
<1>1. <<c>> \in Seq(S) /\ Len(<<c>>) = 1 /\ <<c>>[1] = c
  OBVIOUS
<1> QED
  BY <1>1, ConcatProperties

LEMMA TailSeq ==
  ASSUME NEW S, NEW s \in Seq(S), s # <<>>
  PROVE  /\ Tail(s) \in Seq(S)
         /\ Len(s) >= 1 /\ Len(Tail(s)) = Len(s) - 1
         /\ Head(s) = s[1] /\ 1 \in DOMAIN s /\ Head(s) \in S
         /\ \A i \in DOMAIN Tail(s) : i + 1 \in DOMAIN s /\ Tail(s)[i] = s[i + 1]
OBVIOUS

(* The releases outside those that a call found under way do not change     *)
(* while it is under way.                                                   *)
LEMMA OuterPush ==
  ASSUME NEW v \in Wrapper, releasing \in Seq(Wrapper),
         releasing' = <<v>> \o releasing, NEW d \in Nat, d <= Len(releasing)
  PROVE  Outer(d)' = Outer(d)
<1>1. /\ Len(releasing') = Len(releasing) + 1
      /\ DOMAIN releasing' = 1 .. Len(releasing) + 1
      /\ DOMAIN releasing = 1 .. Len(releasing) /\ Len(releasing) \in Nat
      /\ \A i \in 1 .. Len(releasing) : releasing'[i + 1] = releasing[i]
      /\ \A i \in 2 .. Len(releasing) + 1 : releasing'[i] = releasing[i - 1]
  <2>1. releasing' \in Seq(Wrapper)
    BY PushSeq
  <2> QED
    BY <2>1, PushSeq
<1>2. ASSUME NEW x \in Outer(d)' PROVE x \in Outer(d)
  <2>1. PICK j \in DOMAIN releasing' : j > Len(releasing') - d /\ x = releasing'[j]
    BY <1>2 DEF Outer
  <2>2. j \in 2 .. Len(releasing) + 1
    BY <1>1, <2>1
  <2>3. PICK k \in DOMAIN releasing : k = j - 1
    BY <1>1, <2>2
  <2>4. x = releasing[k] /\ k > Len(releasing) - d
    BY <1>1, <2>1, <2>2, <2>3
  <2> QED
    BY <2>4 DEF Outer
<1>3. ASSUME NEW x \in Outer(d) PROVE x \in Outer(d)'
  <2>1. PICK j \in DOMAIN releasing : j > Len(releasing) - d /\ x = releasing[j]
    BY <1>3 DEF Outer
  <2>3. PICK k \in DOMAIN releasing' : k = j + 1
    BY <1>1
  <2>4. x = releasing'[k] /\ k > Len(releasing') - d
    BY <1>1, <2>1, <2>3
  <2> QED
    BY <2>4 DEF Outer
<1> QED
  BY <1>2, <1>3

LEMMA OuterPop ==
  ASSUME releasing \in Seq(Wrapper), releasing # <<>>,
         releasing' = Tail(releasing), NEW d \in Nat, d < Len(releasing)
  PROVE  Outer(d)' = Outer(d)
<1>1. /\ Len(releasing') = Len(releasing) - 1
      /\ DOMAIN releasing' = 1 .. Len(releasing) - 1
      /\ DOMAIN releasing = 1 .. Len(releasing) /\ Len(releasing) \in Nat
      /\ \A i \in 1 .. Len(releasing) - 1 : releasing'[i] = releasing[i + 1]
  BY TailSeq
<1>2. ASSUME NEW x \in Outer(d)' PROVE x \in Outer(d)
  <2>1. PICK j \in DOMAIN releasing' : j > Len(releasing') - d /\ x = releasing'[j]
    BY <1>2 DEF Outer
  <2>3. PICK k \in DOMAIN releasing : k = j + 1
    BY <1>1
  <2>4. x = releasing[k] /\ k > Len(releasing) - d
    BY <1>1, <2>1, <2>3
  <2> QED
    BY <2>4 DEF Outer
<1>3. ASSUME NEW x \in Outer(d) PROVE x \in Outer(d)'
  <2>1. PICK j \in DOMAIN releasing : j > Len(releasing) - d /\ x = releasing[j]
    BY <1>3 DEF Outer
  <2>2. j >= 2
    BY <1>1, <2>1
  <2>3. PICK k \in DOMAIN releasing' : k = j - 1
    BY <1>1, <2>2
  <2>4. x = releasing'[k] /\ k > Len(releasing') - d
    BY <1>1, <2>1, <2>3
  <2> QED
    BY <2>4 DEF Outer
<1> QED
  BY <1>2, <1>3

LEMMA OuterAll ==
  ASSUME releasing \in Seq(Wrapper)
  PROVE  Outer(Len(releasing)) = Range(releasing)
BY DEF Outer, Range

-----------------------------------------------------------------------------
LEMMA HeldBorrowed == Held \subseteq Reachable(Held)
<1>1. Held \in SUBSET Wrapper
  BY DEF Held
<1> QED
  BY <1>1, ReachableLeast

(* What the program finds in a place is held or borrowed. *)
LEMMA FoundIsBorrowed ==
  ASSUME NEW q \in Place, Accessible(q), place[q] \in Wrapper
  PROVE  place[q] \in Reachable(Held)
<1>1. Held \subseteq Reachable(Held) /\ Closed(Reachable(Held))
  BY HeldBorrowed, ReachableClosed
<1>2. CASE q \in Root
  BY <1>1, <1>2 DEF Held
<1>3. CASE q \in Member
  BY <1>1, <1>3 DEF Accessible, Closed
<1> QED
  BY <1>2, <1>3 DEF Place

(* What an unload has doomed stays doomed: sharing gives nothing a way to a *)
(* value that the program could not reach, and dropping takes ways away.    *)
LEMMA DoomedKept ==
  ASSUME live' \in SUBSET Wrapper, NEW c \in CallType, Doomed(c),
         Outer(c.depth)' = Outer(c.depth), Held' \subseteq Reachable(Held),
         \A m \in Member : place'[m] \in Wrapper =>
                             place'[m] = place[m] \/ place'[m] \in Reachable(Held),
         \A w \in live' \ kept' : w \in live \ kept /\ code'[w] = code[w]
  PROVE  Doomed(c)'
<1> SUFFICES ASSUME c.call = "close", NEW w \in live' \ kept', code'[w] = c.lib
             PROVE  \E S \in SUBSET Wrapper :
                      /\ Outer(c.depth)' \cup Held' \subseteq S
                      /\ Closed(S)' /\ w \notin S
  BY DEF Doomed, Reachable
<1>1. w \notin Reachable(Outer(c.depth) \cup Held) /\ w \in Wrapper
  BY DEF Doomed
<1>2. PICK S \in SUBSET Wrapper :
        Outer(c.depth) \cup Held \subseteq S /\ Closed(S) /\ w \notin S
  BY <1>1 DEF Reachable
<1>3. Reachable(Held) \subseteq S
  BY <1>2, ReachableLeast DEF Held
<1>4. Closed(S)'
  BY <1>2, <1>3 DEF Closed
<1> QED
  BY <1>2, <1>3, <1>4

(* A value made while a library is being closed is one that the library     *)
(* may not expect to see released.                                          *)
LEMMA DoomedMake ==
  ASSUME IInv, Nesting, LoaderTypeOK, NEW c \in CallType, Doomed(c),
         c.call = "close" => Closing,
         NEW p \in Root, NEW w \in Wrapper, NEW t \in HeapType, NEW n \in Payload,
         MakeValue(p, w, t, n)
  PROVE  Doomed(c)'
<1> SUFFICES ASSUME c.call = "close", NEW u \in live' \ kept', code'[u] = c.lib
             PROVE  \E S \in SUBSET Wrapper :
                      /\ Outer(c.depth)' \cup Held' \subseteq S
                      /\ Closed(S)' /\ u \notin S
  <2> live' \in SUBSET Wrapper
    BY DEF MakeValue, Make, Get, IInv, TypeOK
  <2> QED
    BY DEF Doomed, Reachable
<1>0. /\ live' = live \cup {w} /\ place' = [place EXCEPT ![p] = w]
      /\ releasing' = releasing
      /\ kept' = kept \cup {w} /\ \A v \in Wrapper \ {w} : code'[v] = code[v]
      /\ w \notin live
  BY FreshWrapper DEF MakeValue, Make, Get, LoaderTypeOK
<1>1. u \in live \ kept /\ u # w /\ u \in Wrapper /\ code[u] = c.lib
  BY <1>0 DEF IInv, TypeOK
<1>2. PICK S \in SUBSET Wrapper :
        Outer(c.depth) \cup Held \subseteq S /\ Closed(S) /\ u \notin S
  BY <1>1 DEF Doomed, Reachable
<1>3. /\ \A r \in Root : place'[r] = place[r] \/ place'[r] = w
      /\ \A m \in Member : place'[m] = place[m]
      /\ \A m \in Member : m[1] = w => place[m] \notin Wrapper
  BY <1>0, HeapAssumption DEF IInv, TypeOK, Place, Nesting, MembersOfLive, Variant
<1>4. Closed(S \cup {w})'
  BY <1>2, <1>3 DEF Closed
<1>5. Outer(c.depth)' \cup Held' \subseteq S \cup {w}
  BY <1>0, <1>2, <1>3 DEF Outer, Held
<1> QED
  BY <1>1, <1>2, <1>4, <1>5

(* A drop takes ways away, and begins at most one release. *)
LEMMA DropOuter ==
  ASSUME IInv, NEW p \in Place, Drop(p), NEW d \in Nat, d <= Len(releasing)
  PROVE  /\ Outer(d)' = Outer(d)
         /\ Len(releasing') \in Nat /\ d <= Len(releasing')
         /\ live' = live /\ live \in SUBSET Wrapper
         /\ place' = [place EXCEPT ![p] = None]
<1> releasing \in Seq(Wrapper) /\ live \in SUBSET Wrapper
  BY DEF IInv, TypeOK
<1>1. live' = live /\ place' = [place EXCEPT ![p] = None]
  BY DEF Drop
<1>2. CASE Dies(place[p])
  <2>1. place[p] \in Wrapper /\ releasing' = <<place[p]>> \o releasing
    BY <1>2 DEF Drop, Dies, IInv, TypeOK, Variant
  <2>2. Outer(d)' = Outer(d)
    BY <2>1, OuterPush
  <2>3. Len(releasing') = Len(releasing) + 1
    BY <2>1, PushSeq
  <2> QED
    BY <1>1, <2>2, <2>3
<1>3. CASE ~Dies(place[p])
  <2>1. releasing' = releasing
    BY <1>3 DEF Drop
  <2> QED
    BY <1>1, <2>1 DEF Outer
<1> QED
  BY <1>2, <1>3

LEMMA DropDoomed ==
  ASSUME IInv, NEW p \in Place, Drop(p), NEW c \in CallType,
         c.depth <= Len(releasing), Doomed(c), kept \subseteq kept', code' = code
  PROVE  Doomed(c)'
<1>1. c.depth \in Nat
  BY DEF CallType
<1>2. /\ Outer(c.depth)' = Outer(c.depth)
      /\ live' = live /\ live \in SUBSET Wrapper
      /\ place' = [place EXCEPT ![p] = None]
  BY <1>1, DropOuter
<1>3. \A q \in Place : place'[q] \in Wrapper => place'[q] = place[q]
  BY <1>2, HeapAssumption DEF IInv, TypeOK, Variant
<1>4. Held' \subseteq Reachable(Held)
  <2>1. Held' \subseteq Held
    BY <1>3 DEF Held, Place
  <2> QED
    BY <2>1, HeldBorrowed
<1>5. \A m \in Member : place'[m] \in Wrapper => place'[m] = place[m]
  BY <1>3 DEF Place
<1> QED
  BY <1>2, <1>4, <1>5, DoomedKept

(* The code that makes a value is a library's, or the program's. *)
LEMMA AuthorType ==
  ASSUME IInv, LoaderTypeOK
  PROVE  Author \in Library \cup {None}
<1>1. ASSUME InEntry PROVE Head(calls).lib \in Library
  <2>1. calls # <<>> /\ calls \in Seq(CallType)
    BY <1>1 DEF InEntry, Back, LoaderTypeOK
  <2>2. Head(calls) \in CallType
    BY <2>1, TailSeq
  <2> QED
    BY <2>2 DEF CallType
<1>2. ASSUME releasing # <<>> PROVE code[Head(releasing)] \in Library \cup {None}
  <2>1. Head(releasing) \in Wrapper
    BY <1>2, TailSeq DEF IInv, TypeOK
  <2> QED
    BY <2>1 DEF LoaderTypeOK
<1> QED
  BY <1>1, <1>2 DEF Author

-----------------------------------------------------------------------------
(* One lemma for each operation of the loader and of the heap under it.     *)
LEMMA MakeLoader ==
  ASSUME IInv, Nesting, LoaderInv, inited',
         NEW p \in Root, NEW w \in Wrapper, NEW t \in HeapType, NEW n \in Payload,
         MakeValue(p, w, t, n)
  PROVE  LoaderInv'
<1> USE DEF LoaderInv
<1>1. /\ UNCHANGED <<opens, handle, calls, releasing>>
      /\ live' = live \cup {w}
      /\ code' = [code EXCEPT ![w] = IF t \in NativeType THEN Author ELSE None]
      /\ kept' = IF Closing THEN kept \cup {w} ELSE kept
  BY DEF MakeValue, Make, Get
<1> PICK author \in Library \cup {None} : author = Author
  BY AuthorType
<1>2. LoaderTypeOK'
  BY <1>1 DEF LoaderTypeOK
<1>3. Nested'
  BY <1>1 DEF Nested
<1>4. CodeOpen'
  <2> SUFFICES ASSUME NEW u \in live', code'[u] # None
               PROVE  opens[code'[u]] > 0 \/ u \in kept'
    BY <1>1 DEF CodeOpen
  <2>1. CASE u = w
    <3>1. code'[u] = author /\ author \in Library
      BY <1>1, <2>1 DEF LoaderTypeOK
    <3>2. opens[author] \in Nat
      BY <3>1 DEF LoaderTypeOK
    <3>3. CASE opens[author] = 0
      <4>1. Closing
        BY <3>1, <3>3, DynamicAssumption DEF Closing
      <4> QED
        BY <1>1, <2>1, <4>1
    <3>4. CASE opens[author] # 0
      <4>1. opens[author] > 0
        BY ONLY <3>2, <3>4
      <4> QED
        BY <3>1, <4>1
    <3> QED
      BY <3>3, <3>4
  <2>2. CASE u # w
    <3>1. u \in live /\ u \in Wrapper
      BY <1>1, <2>2 DEF IInv, TypeOK
    <3>2. code'[u] = code[u]
      BY <1>1, <2>2, <3>1 DEF LoaderTypeOK
    <3> QED
      BY <1>1, <3>1, <3>2 DEF CodeOpen
  <2> QED
    BY <2>1, <2>2
<1>5. ASSUME NEW i \in DOMAIN calls PROVE Doomed(calls[i])'
  <2> PICK c : c = calls[i]
    OBVIOUS
  <2>1. c \in CallType /\ Doomed(c)
    BY DEF LoaderTypeOK
  <2>2. c.call = "close" => Closing
    BY DEF Closing
  <2>3. Doomed(c)'
    BY <2>1, <2>2, DoomedMake
  <2>4. calls'[i] = c
    BY <1>1
  <2> QED
    BY <1>1, <2>3, <2>4 DEF Doomed
<1> QED
  BY <1>1, <1>2, <1>3, <1>4, <1>5

LEMMA CallsTyped ==
  ASSUME LoaderInv
  PROVE  /\ calls \in Seq(CallType)
         /\ \A i \in DOMAIN calls : /\ calls[i] \in CallType
                                   /\ calls[i].lib \in Library
                                   /\ calls[i].depth \in Nat
                                   /\ calls[i].depth <= Len(releasing)
<1>1. \A i \in DOMAIN calls : calls[i] \in CallType
  BY DEF LoaderInv, LoaderTypeOK
<1>2. \A c \in CallType : c.lib \in Library /\ c.depth \in Nat
  BY DEF CallType
<1> QED
  BY <1>1, <1>2 DEF LoaderInv, LoaderTypeOK, Nested

(* A drop by the program or by a releaser. *)
LEMMA DropLoader ==
  ASSUME IInv, LoaderInv, inited', NEW p \in Place, Drop(p), UNCHANGED loader
  PROVE  LoaderInv'
<1> USE DEF LoaderInv
<1>1. UNCHANGED <<opens, handle, code, calls, kept>>
  BY DEF loader
<1>2. LoaderTypeOK'
  BY <1>1 DEF LoaderTypeOK
<1>3. \A i \in DOMAIN calls :
        calls[i] \in CallType /\ calls[i].depth \in Nat /\ calls[i].depth <= Len(releasing)
  BY CallsTyped
<1>4. Nested'
  <2>1. \A i \in DOMAIN calls : calls[i].depth <= Len(releasing')
    BY <1>3, DropOuter
  <2> QED
    BY <1>1, <2>1 DEF Nested
<1>5. CodeOpen'
  BY <1>1 DEF Drop, CodeOpen
<1>6. ASSUME NEW i \in DOMAIN calls PROVE Doomed(calls[i])'
  <2> PICK c \in CallType : c = calls[i]
    BY <1>3
  <2>1. Doomed(c) /\ c.depth <= Len(releasing)
    BY <1>3
  <2>2. Doomed(c)'
    BY <1>1, <2>1, DropDoomed
  <2> QED
    BY <1>1, <2>2 DEF Doomed
<1> QED
  BY <1>1, <1>2, <1>4, <1>5, <1>6

LEMMA RefLoader ==
  ASSUME IInv, LoaderInv, inited', NEW q \in Place, NEW p \in Place, Ref(q, p),
         UNCHANGED loader
  PROVE  LoaderInv'
<1> USE DEF LoaderInv
<1>1. /\ UNCHANGED <<opens, handle, code, calls, kept, releasing, live>>
      /\ place' = [place EXCEPT ![p] = place[q]]
      /\ live \in SUBSET Wrapper
  BY DEF loader, Ref, IInv, TypeOK
<1>2. LoaderTypeOK' /\ Nested' /\ CodeOpen'
  BY <1>1 DEF LoaderTypeOK, Nested, CodeOpen
<1>3. \A r \in Place :
        place'[r] \in Wrapper => place'[r] = place[r] \/ place'[r] \in Reachable(Held)
  <2>1. place[q] \in Wrapper => place[q] \in Reachable(Held)
    BY FoundIsBorrowed DEF Ref
  <2> QED
    BY <1>1, <2>1 DEF IInv, TypeOK
<1>4. Held' \subseteq Reachable(Held)
  <2> QED
    BY <1>3, HeldBorrowed DEF Held, Place
<1>5. ASSUME NEW i \in DOMAIN calls PROVE Doomed(calls[i])'
  <2> PICK c \in CallType : c = calls[i]
    BY DEF LoaderTypeOK
  <2>1. Outer(c.depth)' = Outer(c.depth)
    BY <1>1 DEF Outer
  <2>2. \A m \in Member :
          place'[m] \in Wrapper => place'[m] = place[m] \/ place'[m] \in Reachable(Held)
    BY <1>3 DEF Place
  <2>3. Doomed(c)'
    BY <1>1, <1>4, <2>1, <2>2, DoomedKept
  <2> QED
    BY <1>1, <2>3 DEF Doomed
<1> QED
  BY <1>1, <1>2, <1>5

(* A value is put back by a release that none of the calls waits under.     *)
LEMMA PutLoader ==
  ASSUME IInv, LoaderInv, inited', NEW w \in Wrapper, Above, Put(w),
         handle' = [handle EXCEPT ![w] = None], code' = [code EXCEPT ![w] = None],
         kept' = kept \ {w}, UNCHANGED <<opens, calls>>
  PROVE  LoaderInv'
<1> USE DEF LoaderInv
<1>1. /\ releasing # <<>> /\ releasing \in Seq(Wrapper) /\ releasing' = Tail(releasing)
      /\ live' = live \ {w} /\ live \in SUBSET Wrapper /\ place' = place
  BY DEF Put, IInv, TypeOK
<1>2. LoaderTypeOK'
  BY DEF LoaderTypeOK
<1>3. ASSUME NEW i \in DOMAIN calls
      PROVE  /\ calls[i] \in CallType /\ calls[i].depth \in Nat
             /\ calls[i].depth < Len(releasing)
             /\ calls[i].depth <= Len(releasing')
  <2>1. calls \in Seq(CallType)
    BY DEF LoaderTypeOK
  <2>2. /\ calls # <<>> /\ Head(calls) = calls[1] /\ 1 \in DOMAIN calls
        /\ i \in Nat /\ i >= 1
    BY <2>1, TailSeq
  <2>3. calls[i] \in CallType /\ calls[1] \in CallType
    BY <2>1, <2>2
  <2>4. calls[i].depth \in Nat /\ calls[1].depth \in Nat
    BY <2>3 DEF CallType
  <2>5. calls[1].depth < Len(releasing)
    BY <2>2 DEF Above
  <2>6. calls[i].depth <= calls[1].depth
    BY <2>2, <2>4 DEF Nested
  <2>7. Len(releasing) \in Nat /\ Len(releasing') = Len(releasing) - 1
    BY <1>1, TailSeq
  <2> QED
    BY <2>3, <2>4, <2>5, <2>6, <2>7
<1>4. Nested'
  BY <1>3 DEF Nested
<1>5. \A u \in live' : u \in live /\ u # w /\ code'[u] = code[u]
  BY <1>1 DEF LoaderTypeOK
<1>6. CodeOpen'
  BY <1>5 DEF CodeOpen
<1>7. ASSUME NEW i \in DOMAIN calls PROVE Doomed(calls[i])'
  <2> PICK c \in CallType : c = calls[i] /\ c.depth \in Nat /\ c.depth < Len(releasing)
    BY <1>3
  <2>1. Outer(c.depth)' = Outer(c.depth)
    BY <1>1, OuterPop
  <2>2. Held' = Held
    BY <1>1 DEF Held
  <2>3. live' \in SUBSET Wrapper /\ \A u \in live' \ kept' : u \in live \ kept
    BY <1>1, <1>5
  <2>4. Doomed(c)'
    BY <1>1, <1>5, <2>1, <2>2, <2>3, HeldBorrowed, DoomedKept
  <2> QED
    BY <2>4 DEF Doomed
<1> QED
  BY <1>2, <1>4, <1>6, <1>7

(* A new call is begun inside the others and inside the releases under way. *)
LEMMA CallsPushed ==
  ASSUME NEW c \in CallType, NEW outer \in Seq(CallType), calls' = <<c>> \o outer,
         NEW len \in Nat, c.depth = len, Len(releasing') \in Nat, len <= Len(releasing'),
         \A i \in DOMAIN outer : outer[i].depth <= len,
         \A i, j \in DOMAIN outer : i < j => outer[j].depth <= outer[i].depth
  PROVE  Nested'
<1>1. /\ DOMAIN calls' = 1 .. Len(outer) + 1 /\ Len(outer) \in Nat
      /\ DOMAIN outer = 1 .. Len(outer)
      /\ calls'[1] = c
      /\ \A i \in 2 .. Len(outer) + 1 : calls'[i] = outer[i - 1]
  <2>1. <<c>> \o outer \in Seq(CallType)
    BY PushSeq
  <2> QED
    BY <2>1, PushSeq
<1>2. \A i \in DOMAIN outer : outer[i].depth \in Nat
  <2>1. \A d \in CallType : d.depth \in Nat
    BY DEF CallType
  <2> QED
    BY <2>1
<1>3. ASSUME NEW i \in DOMAIN calls'
      PROVE  calls'[i].depth \in Nat /\ calls'[i].depth <= len
  <2>1. CASE i = 1
    BY <1>1, <2>1
  <2>2. CASE i # 1
    <3> PICK k \in DOMAIN outer : k = i - 1
      BY <1>1, <2>2
    <3>1. calls'[i] = outer[k]
      BY <1>1, <2>2
    <3> QED
      BY <1>2, <3>1
  <2> QED
    BY <2>1, <2>2
<1>4. ASSUME NEW i \in DOMAIN calls', NEW j \in DOMAIN calls', i < j
      PROVE  calls'[j].depth <= calls'[i].depth
  <2>1. CASE i = 1
    BY <1>1, <1>3, <2>1
  <2>2. CASE i # 1
    <3> PICK k \in DOMAIN outer, l \in DOMAIN outer : k = i - 1 /\ l = j - 1 /\ k < l
      BY <1>1, <1>4, <2>2
    <3>1. calls'[i] = outer[k] /\ calls'[j] = outer[l]
      BY <1>1, <1>4, <2>2
    <3> QED
      BY <3>1
  <2> QED
    BY <2>1, <2>2
<1>5. \A i \in DOMAIN calls' : calls'[i].depth <= Len(releasing')
  BY <1>3
<1> QED
  BY <1>4, <1>5 DEF Nested

(* dlopen, and the call of the entry function. *)
LEMMA LoadBeginLoader ==
  ASSUME IInv, LoaderInv, inited', NEW p \in Root, NEW name, LoadBegin(p, name)
  PROVE  LoaderInv'
<1> USE DEF LoaderInv
<1> PICK lib \in Library : lib = Opened(name)
  BY DynamicAssumption DEF LoadBegin
<1> PICK c : c = [call |-> "load", lib |-> lib, place |-> p, depth |-> Len(releasing)]
  OBVIOUS
<1>1. /\ UNCHANGED <<live, place, releasing, handle, code, kept>>
      /\ opens' = [opens EXCEPT ![lib] = @ + 1]
      /\ calls' = <<c>> \o calls
  BY DEF LoadBegin, Call, vars, cells
<1>2. c \in CallType /\ c.call = "load" /\ c.depth = Len(releasing) /\ c.depth \in Nat
  BY DEF CallType, IInv, TypeOK
<1>3. /\ calls' \in Seq(CallType)
      /\ DOMAIN calls' = 1 .. Len(calls) + 1 /\ Len(calls) \in Nat
      /\ DOMAIN calls = 1 .. Len(calls)
      /\ calls'[1] = c
      /\ \A i \in 2 .. Len(calls) + 1 : calls'[i] = calls[i - 1]
  BY <1>1, <1>2, CallsTyped, PushSeq
<1>4. \A l \in Library : opens'[l] \in Nat /\ (opens[l] > 0 => opens'[l] > 0)
  BY <1>1 DEF LoaderTypeOK
<1>5. LoaderTypeOK'
  BY <1>1, <1>3 DEF LoaderTypeOK
<1>6. CodeOpen'
  BY <1>1, <1>4 DEF CodeOpen, LoaderTypeOK, IInv, TypeOK
<1>7. Nested'
  <2>1. Len(releasing') = c.depth
    BY <1>1, <1>2
  <2>2. /\ \A i \in DOMAIN calls : calls[i].depth <= c.depth
        /\ \A i, j \in DOMAIN calls : i < j => calls[j].depth <= calls[i].depth
    BY <1>2 DEF Nested
  <2>3. calls \in Seq(CallType)
    BY CallsTyped
  <2>4. c.depth <= Len(releasing')
    BY <1>2, <2>1
  <2> QED
    BY <1>1, <1>2, <2>1, <2>2, <2>3, <2>4, CallsPushed
<1>8. ASSUME NEW i \in DOMAIN calls' PROVE Doomed(calls[i])'
  <2> PICK d : d = calls'[i]
    OBVIOUS
  <2>1. CASE i = 1
    <3>1. d.call # "close"
      BY <1>2, <1>3, <2>1
    <3> QED
      BY <3>1 DEF Doomed
  <2>2. CASE i # 1
    <3> PICK j \in DOMAIN calls : j = i - 1
      BY <1>3, <2>2
    <3>1. d = calls[j] /\ Doomed(d)
      BY <1>3, <2>2
    <3>2. Doomed(d)'
      <4>1. d \in CallType /\ live \in SUBSET Wrapper
        BY <3>1, CallsTyped DEF IInv, TypeOK
      <4>2. Outer(d.depth)' = Outer(d.depth) /\ Held' = Held
        BY <1>1 DEF Outer, Held
      <4> QED
        BY <1>1, <3>1, <4>1, <4>2, HeldBorrowed, DoomedKept
    <3> QED
      BY <3>2 DEF Doomed
  <2> QED
    BY <2>1, <2>2
<1> QED
  BY <1>5, <1>6, <1>7, <1>8

(* purc_variant_unref before dlclose: what nothing but the dropped value    *)
(* leads to is doomed, the rest the library may not expect to see released. *)
LEMMA CloseLoader ==
  ASSUME IInv, LoaderInv, inited', NEW p \in Root, NEW lib \in Library,
         NEW outer \in Seq(CallType), DropAndClose(lib, p, outer),
         \A i \in DOMAIN outer : \E j \in DOMAIN calls : outer[i] = calls[j],
         \A i, j \in DOMAIN outer : i < j => outer[j].depth <= outer[i].depth
  PROVE  LoaderInv'
<1> USE DEF LoaderInv
<1> PICK c : c = [call |-> "close", lib |-> lib, place |-> p, depth |-> Len(releasing)]
  OBVIOUS
<1>1. /\ Drop(p) /\ p \in Place
      /\ UNCHANGED <<handle, code, opens, live>>
      /\ kept' = kept \cup Survivors(lib, p)
      /\ calls' = <<c>> \o outer
  BY DEF DropAndClose, WhileReleasing, Call, Drop, Place
<1>2. /\ c \in CallType /\ c.lib = lib
      /\ c.depth = Len(releasing) /\ c.depth \in Nat
  BY DEF CallType, IInv, TypeOK
<1>3. /\ calls' \in Seq(CallType)
      /\ DOMAIN calls' = 1 .. Len(outer) + 1 /\ Len(outer) \in Nat
      /\ DOMAIN outer = 1 .. Len(outer)
      /\ calls'[1] = c
      /\ \A i \in 2 .. Len(outer) + 1 : calls'[i] = outer[i - 1]
  BY <1>1, <1>2, PushSeq
<1>4. live \in SUBSET Wrapper
  BY DEF IInv, TypeOK
<1>5. Survivors(lib, p) \subseteq Wrapper
  BY <1>4, ReachableClosed DEF Survivors, Others
<1>6. LoaderTypeOK'
  BY <1>1, <1>3, <1>5 DEF LoaderTypeOK
<1>7. CodeOpen'
  BY <1>1 DEF CodeOpen
<1>8. \A i \in DOMAIN outer : /\ outer[i] \in CallType /\ Doomed(outer[i])
                             /\ outer[i].depth <= Len(releasing)
  BY CallsTyped
<1>9. Nested'
  <2>1. c.depth <= Len(releasing') /\ Len(releasing') \in Nat
    BY <1>1, <1>2, DropOuter
  <2> QED
    BY <1>1, <1>2, <1>8, <2>1, CallsPushed
<1>10. Doomed(c)'
  <2> SUFFICES ASSUME NEW w \in live \ kept', code[w] = lib
               PROVE  \E S \in SUBSET Wrapper :
                        /\ Outer(c.depth)' \cup Held' \subseteq S
                        /\ Closed(S)' /\ w \notin S
    BY <1>1, <1>2, <1>4 DEF Doomed, Reachable
  <2> PICK X : X = Range(releasing) \cup ({place[r] : r \in Root \ {p}} \cap Wrapper)
    OBVIOUS
  <2>1. w \notin Reachable(X)
    BY <1>1 DEF Survivors, Others
  <2>2. PICK S \in SUBSET Wrapper : X \subseteq S /\ Closed(S) /\ w \notin S
    BY <1>4, <2>1 DEF Reachable
  <2>3. Outer(c.depth)' = Range(releasing)
    BY <1>1, <1>2, DropOuter, OuterAll DEF IInv, TypeOK
  <2>4. /\ place' = [place EXCEPT ![p] = None] /\ None \notin Wrapper
        /\ place \in [Place -> Variant \cup {None}] /\ Root \subseteq Place
        /\ Member \subseteq Place
    BY <1>1, HeapAssumption DEF Drop, Variant, IInv, TypeOK, Place
  <2>5. Held' \subseteq X
    BY <2>4 DEF Held
  <2>6. Closed(S)'
    BY <2>2, <2>4 DEF Closed
  <2> QED
    BY <2>2, <2>3, <2>5, <2>6
<1>11. ASSUME NEW i \in DOMAIN calls' PROVE Doomed(calls[i])'
  <2> PICK d : d = calls'[i]
    OBVIOUS
  <2>1. CASE i = 1
    <3>1. d = c
      BY <1>3, <2>1
    <3> QED
      BY <1>10, <3>1 DEF Doomed
  <2>2. CASE i # 1
    <3> PICK j \in DOMAIN outer : j = i - 1
      BY <1>3, <2>2
    <3>1. d = outer[j]
      BY <1>3, <2>2
    <3>2. Doomed(d)'
      BY <1>1, <1>8, <3>1, DropDoomed
    <3> QED
      BY <3>2 DEF Doomed
  <2> QED
    BY <2>1, <2>2
<1> QED
  BY <1>6, <1>7, <1>9, <1>11

(* A call that ends was the innermost one. *)
LEMMA CallsPopped ==
  ASSUME LoaderInv, calls # <<>>
  PROVE  /\ Tail(calls) \in Seq(CallType)
         /\ Head(calls) \in CallType /\ Head(calls).lib \in Library
         /\ 1 \in DOMAIN calls /\ Head(calls) = calls[1]
         /\ Head(calls).depth <= Len(releasing)
         /\ \A i \in DOMAIN Tail(calls) : i + 1 \in DOMAIN calls /\ Tail(calls)[i] = calls[i + 1]
         /\ \A i, j \in DOMAIN Tail(calls) :
              i < j => Tail(calls)[j].depth <= Tail(calls)[i].depth
<1>1. /\ Tail(calls) \in Seq(CallType)
      /\ Head(calls) = calls[1] /\ 1 \in DOMAIN calls
      /\ \A i \in DOMAIN Tail(calls) : i + 1 \in DOMAIN calls /\ Tail(calls)[i] = calls[i + 1]
  BY CallsTyped, TailSeq
<1>2. ASSUME NEW i \in DOMAIN Tail(calls), NEW j \in DOMAIN Tail(calls), i < j
      PROVE  Tail(calls)[j].depth <= Tail(calls)[i].depth
  <2>1. i \in Nat /\ j \in Nat
    BY <1>1
  <2>2. i + 1 < j + 1
    BY <1>2, <2>1
  <2> QED
    BY <1>1, <2>2 DEF LoaderInv, Nested
<1> QED
  BY <1>1, <1>2, CallsTyped

LEMMA ReturnLoader ==
  ASSUME IInv, LoaderInv, inited', calls # <<>>, calls' = Tail(calls),
         UNCHANGED <<live, place, releasing, code>>,
         opens' \in [Library -> Nat], handle' \in [Wrapper -> Library \cup {None}],
         kept \subseteq kept', kept' \in SUBSET Wrapper, CodeOpen'
  PROVE  LoaderInv'
<1>1. LoaderTypeOK'
  BY CallsPopped DEF LoaderTypeOK, LoaderInv
<1>2. Nested'
  <2>1. \A i \in DOMAIN calls' : calls'[i].depth <= Len(releasing')
    BY CallsPopped, CallsTyped
  <2> QED
    BY <2>1, CallsPopped DEF Nested
<1>3. ASSUME NEW i \in DOMAIN calls' PROVE Doomed(calls[i])'
  <2> PICK d : d = calls'[i]
    OBVIOUS
  <2>1. d \in CallType /\ Doomed(d)
    BY CallsPopped, CallsTyped DEF LoaderInv
  <2>2. live \in SUBSET Wrapper /\ Held' = Held /\ Outer(d.depth)' = Outer(d.depth)
    BY DEF IInv, TypeOK, Held, Outer
  <2>3. Doomed(d)'
    BY <2>1, <2>2, HeldBorrowed, DoomedKept
  <2> QED
    BY <2>3 DEF Doomed
<1> QED
  BY <1>1, <1>2, <1>3 DEF LoaderInv

(* One close of a library may be its last. *)
LEMMA CloseOne ==
  ASSUME LoaderTypeOK, NEW lib \in Library, opens' = dlclose(lib)
  PROVE  /\ opens' \in [Library -> Nat]
         /\ \A l \in Library \ {lib} : opens'[l] = opens[l]
<1>1. opens[lib] \in Nat
  BY DEF LoaderTypeOK
<1>2. PICK n \in Nat : n = IF opens[lib] = 0 THEN 0 ELSE opens[lib] - 1
  BY <1>1
<1>3. opens' = [opens EXCEPT ![lib] = n]
  BY <1>2 DEF dlclose
<1> QED
  BY <1>3 DEF LoaderTypeOK

LEMMA LoadEndLoader ==
  ASSUME IInv, Nesting, LoaderInv, inited', NEW p \in Root, LoadEnd(p)
  PROVE  LoaderInv'
<1> PICK lib : lib = Head(calls).lib
  OBVIOUS
<1>0. calls # <<>> /\ lib \in Library
  <2>1. calls # <<>>
    BY DEF LoadEnd, InEntry, Back
  <2> QED
    BY <2>1, CallsPopped
<1>1. LoaderTypeOK /\ CodeOpen
  BY DEF LoaderInv
<1>2. CASE /\ place[p] = None /\ opens' = dlclose(lib)
           /\ kept' = kept \cup Survivors(lib, p)
           /\ calls' = Tail(calls) /\ UNCHANGED <<vars, handle, code>>
  <2>1. UNCHANGED <<live, place, releasing, code, handle>>
    BY <1>2 DEF vars, cells
  <2>2. Range(releasing) \cup ({place[r] : r \in Root \ {p}} \cap Wrapper) = Anchors
    BY <1>2, HeapAssumption DEF Anchors, Held, Variant
  <2>3. live \subseteq Others(p) /\ live \in SUBSET Wrapper
    BY <2>2 DEF Others, Nesting, NoLeak, IInv, TypeOK
  <2>4. \A w \in live : code[w] = lib => w \in kept'
    BY <1>2, <2>3 DEF Survivors
  <2>5. /\ opens' \in [Library -> Nat]
        /\ \A l \in Library \ {lib} : opens'[l] = opens[l]
    BY <1>0, <1>1, <1>2, CloseOne
  <2>6. CodeOpen'
    <3> SUFFICES ASSUME NEW w \in live, code[w] # None
                 PROVE  opens'[code[w]] > 0 \/ w \in kept'
      BY <2>1 DEF CodeOpen
    <3>1. code[w] \in Library
      BY <1>1, <2>3 DEF LoaderTypeOK
    <3> QED
      BY <1>1, <1>2, <2>4, <2>5, <3>1 DEF CodeOpen
  <2>7. kept' \in SUBSET Wrapper
    BY <1>1, <1>2, <2>3, ReachableClosed DEF LoaderTypeOK, Survivors, Others
  <2>8. handle' \in [Wrapper -> Library \cup {None}]
    BY <1>1, <2>1 DEF LoaderTypeOK
  <2> QED
    BY <1>0, <1>2, <2>1, <2>5, <2>6, <2>7, <2>8, ReturnLoader
<1>3. CASE /\ IsObject(place[p]) /\ handle' = [handle EXCEPT ![place[p]] = lib]
           /\ calls' = Tail(calls) /\ UNCHANGED <<vars, opens, code, kept>>
  <2>1. UNCHANGED <<live, place, releasing, code, opens, kept>>
    BY <1>3 DEF vars, cells
  <2>2. /\ handle' \in [Wrapper -> Library \cup {None}]
        /\ opens' \in [Library -> Nat] /\ kept' \in SUBSET Wrapper
    BY <1>0, <1>1, <1>3 DEF LoaderTypeOK
  <2>3. CodeOpen'
    BY <1>1, <2>1 DEF CodeOpen
  <2> QED
    BY <1>0, <1>3, <2>1, <2>2, <2>3, ReturnLoader
<1>4. CASE DropAndClose(lib, p, Tail(calls))
  <2>1. \A i \in DOMAIN Tail(calls) : \E j \in DOMAIN calls : Tail(calls)[i] = calls[j]
    BY <1>0, CallsPopped
  <2> QED
    BY <1>0, <1>4, <2>1, CallsPopped, CloseLoader
<1> QED
  BY <1>2, <1>3, <1>4 DEF LoadEnd

LEMMA UnloadLoader ==
  ASSUME IInv, LoaderInv, inited', NEW p \in Root, Unload(p)
  PROVE  LoaderInv'
<1>1. handle[place[p]] \in Library
  BY DEF Unload, IsObject, LoaderInv, LoaderTypeOK
<1>2. DropAndClose(handle[place[p]], p, calls)
  BY DEF Unload
<1>3. calls \in Seq(CallType)
  BY CallsTyped
<1> QED
  BY <1>1, <1>2, <1>3, CloseLoader DEF LoaderInv, Nested

(* When the releases that the unref began are over, nothing of the library  *)
(* that it must expect to see released is left: nothing leads to it.        *)
LEMMA DlCloseLoader ==
  ASSUME IInv, Nesting, LoaderInv, inited', DlClose
  PROVE  LoaderInv'
<1> PICK c : c = Head(calls)
  OBVIOUS
<1> PICK lib : lib = c.lib
  OBVIOUS
<1>1. /\ calls # <<>> /\ c.call = "close" /\ ~Above
      /\ opens' = dlclose(lib) /\ calls' = Tail(calls)
      /\ UNCHANGED <<live, place, releasing, handle, code, kept>>
  BY DEF DlClose, Back, vars, cells
<1>2. /\ c \in CallType /\ lib \in Library /\ c.depth <= Len(releasing)
      /\ c.depth \in Nat /\ 1 \in DOMAIN calls /\ c = calls[1]
  BY <1>1, CallsPopped, CallsTyped
<1>3. LoaderTypeOK /\ CodeOpen /\ Doomed(c) /\ live \in SUBSET Wrapper
  BY <1>2 DEF LoaderInv, IInv, TypeOK
<1>4. c.depth = Len(releasing) /\ releasing \in Seq(Wrapper)
  <2>1. Len(releasing) \in Nat /\ ~(Len(releasing) > c.depth) /\ releasing \in Seq(Wrapper)
    BY <1>1 DEF Above, IInv, TypeOK
  <2> QED
    BY <1>2, <2>1
<1>5. Outer(c.depth) \cup Held = Anchors
  BY <1>4, OuterAll DEF Anchors, Held
<1>6. \A w \in live \ kept : code[w] # lib
  BY <1>1, <1>3, <1>5 DEF Doomed, Nesting, NoLeak
<1>7. /\ opens' \in [Library -> Nat]
      /\ \A l \in Library \ {lib} : opens'[l] = opens[l]
  BY <1>1, <1>2, <1>3, CloseOne
<1>8. CodeOpen'
  <2> SUFFICES ASSUME NEW w \in live, code[w] # None
               PROVE  opens'[code[w]] > 0 \/ w \in kept
    BY <1>1 DEF CodeOpen
  <2>1. code[w] \in Library
    BY <1>3 DEF LoaderTypeOK
  <2> QED
    BY <1>3, <1>6, <1>7, <2>1 DEF CodeOpen
<1>9. handle' \in [Wrapper -> Library \cup {None}] /\ kept' \in SUBSET Wrapper
  BY <1>1, <1>3 DEF LoaderTypeOK
<1> QED
  BY <1>1, <1>7, <1>8, <1>9, ReturnLoader

LEMMA LoaderStep ==
  IInv /\ Nesting /\ LoaderInv /\ [DvobjNext]_dvars => IInv' /\ Nesting' /\ LoaderInv'
<1> SUFFICES ASSUME IInv, Nesting, LoaderInv, [DvobjNext]_dvars
             PROVE  LoaderInv' /\ IInv' /\ Nesting'
  OBVIOUS
<1>1. IInv' /\ Nesting' /\ inited'
  BY HeapStep DEF LoaderInv
<1>2. ASSUME NEW p \in Root, NEW w \in Wrapper, NEW t \in HeapType, NEW n \in Payload,
             MakeValue(p, w, t, n)
      PROVE  LoaderInv'
  BY <1>1, <1>2, MakeLoader
<1>3. CASE UseValue
  <2>1. ASSUME NEW q \in Place, NEW p \in Place, Ref(q, p), UNCHANGED loader
        PROVE  LoaderInv'
    BY <1>1, <2>1, RefLoader
  <2>2. ASSUME NEW p \in Place, Unref(p), UNCHANGED loader
        PROVE  LoaderInv'
    BY <1>1, <2>2, DropLoader DEF Unref
  <2> QED
    BY <1>1, <1>3, <2>1, <2>2 DEF UseValue
<1>4. ASSUME NEW w \in Wrapper, RunReleaser(w)
      PROVE  LoaderInv'
  <2>1. CASE UNCHANGED <<handle, code, kept>> /\ \E i \in Index : ReleaseMember(w, i)
    <3>1. PICK i \in Index : ReleaseMember(w, i)
      BY <2>1
    <3>2. <<w, i>> \in Place /\ Drop(<<w, i>>)
      BY <3>1 DEF ReleaseMember, Place, Member
    <3>3. UNCHANGED loader
      BY <1>4, <2>1 DEF RunReleaser, loader
    <3> QED
      BY <1>1, <3>2, <3>3, DropLoader
  <2>2. CASE Put(w) /\ ~(\E i \in Index : ReleaseMember(w, i) /\ UNCHANGED <<handle, code, kept>>)
    BY <1>1, <1>4, <2>2, PutLoader DEF RunReleaser
  <2> QED
    BY <1>4, <2>1, <2>2 DEF RunReleaser
<1>5. ASSUME NEW p \in Root, NEW name \in Name, LoadBegin(p, name)
      PROVE  LoaderInv'
  BY <1>1, <1>5, LoadBeginLoader
<1>6. ASSUME NEW p \in Root, LoadEnd(p)
      PROVE  LoaderInv'
  BY <1>1, <1>6, LoadEndLoader
<1>7. ASSUME NEW p \in Root, Unload(p)
      PROVE  LoaderInv'
  BY <1>1, <1>7, UnloadLoader
<1>8. CASE DlClose
  BY <1>1, <1>8, DlCloseLoader
<1>9. CASE UNCHANGED dvars
  <2>1. UNCHANGED <<live, place, releasing, opens, handle, code, calls, kept>>
    BY <1>9 DEF dvars, vars, cells, loader
  <2>2. LoaderTypeOK' /\ Nested' /\ CodeOpen'
    BY <2>1 DEF LoaderInv, LoaderTypeOK, Nested, CodeOpen
  <2>3. ASSUME NEW i \in DOMAIN calls PROVE Doomed(calls[i])'
    BY <2>1 DEF LoaderInv, Doomed, Outer, Held, Reachable, Closed
  <2> QED
    BY <1>1, <2>1, <2>2, <2>3 DEF LoaderInv
<1> QED
  BY <1>1, <1>2, <1>3, <1>4, <1>5, <1>6, <1>7, <1>8, <1>9 DEF DvobjNext

LEMMA LoaderInductive == DvobjSpec => [](IInv /\ Nesting /\ LoaderInv)
<1> QED
  BY LoaderInit, LoaderStep, PTL DEF DvobjSpec

(* A native value's releaser finds its library open, whatever was shared    *)
(* and dropped in whichever nesting of loads, unloads, entry functions and  *)
(* callbacks, unless the value is one the unload itself could not wait for. *)
THEOREM UnloadedAfterRelease == DvobjSpec => []UnloadedLast
<1>1. IInv /\ LoaderInv => UnloadedLast
  BY DEF IInv, ReleasingSound, LoaderInv, CodeOpen, UnloadedLast
<1> QED
  BY <1>1, LoaderInductive, PTL

(* The heap keeps its promises when a loader uses it, that drops a value in *)
(* the middle of an entry function's return.                                *)
THEOREM HeapUnderLoader == DvobjSpec => [](RefcExact /\ NoDangling /\ NoLeak)
BY LoaderInductive, PTL DEF IInv, Nesting
=============================================================================
