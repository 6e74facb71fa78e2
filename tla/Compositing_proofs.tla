------------------------- MODULE Compositing_proofs -------------------------
(***************************************************************************)
(* Proofs about the compositing pass, for any layers, windows and menus:   *)
(* no drawn rectangle is lost, no lock is kept, and only what the screen   *)
(* shows is noted as composited.                                           *)
(***************************************************************************)
EXTENDS Compositing, FiniteSetTheorems, WellFoundedInduction, TLAPS

-----------------------------------------------------------------------------
(* The order of a pass and the places it visits.                           *)

Places(l) == {j \in 1 .. Len(Order(l)) : Visited(l, Order(l)[j])}

(* Every znode has a surface; a client's has its own, and no other znode.  *)
LEMMA SurfType ==
  /\ \A n \in Node : Surf(n) \in Surface
  /\ \A n \in WindowNode \cup MenuNode : Surf(n) = n
  /\ \A n \in ClientOwned : n \in Node /\ n \in Surface /\ Surf(n) = n
  /\ \A n \in Node : Surf(n) \in ClientOwned => Surf(n) = n
PROOF
  <1>1. /\ WallpaperNode \cap (WindowNode \cup MenuNode) = {}
        /\ ClientOwned \subseteq WindowNode \cup MenuNode
        /\ Screen \notin WindowNode \cup MenuNode
    BY CompositingAssumption
  <1> QED
    BY <1>1 DEF Surf, Surface, Node

LEMMA OrderType ==
  ASSUME NEW l \in Layer
  PROVE  /\ Order(l) \in Seq(Node)
         /\ \A i, j \in 1 .. Len(Order(l)) : Order(l)[i] = Order(l)[j] => i = j
PROOF
  <1>1. Menus[l] \in Seq(Node)
    <2>1. Menus[l] \in Seq(MenuNode) /\ MenuNode \subseteq Node
      BY CompositingAssumption DEF Node
    <2> QED
      BY ONLY <2>1
  <1>2. Windows[l] \in Seq(Node)
    <2>1. Windows[l] \in Seq(WindowNode) /\ WindowNode \subseteq Node
      BY CompositingAssumption DEF Node
    <2> QED
      BY ONLY <2>1
  <1>3. <<Wallpaper[l]>> \in Seq(Node)
    <2>1. Wallpaper[l] \in Node
      BY DEF Node, WallpaperNode
    <2> QED
      BY ONLY <2>1
  <1>4. Order(l) \in Seq(Node)
    BY <1>1, <1>2, <1>3 DEF Order
  <1>5. DOMAIN Order(l) = 1 .. Len(Order(l))
    BY <1>4
  <1> QED
    BY <1>4, <1>5, CompositingAssumption DEF IsInjective

(* The next place after i is the first one that is visited.                *)
LEMMA AfterIsNext ==
  ASSUME NEW l \in Layer, NEW i \in Nat, i <= Len(Order(l))
  PROVE  /\ After(l, i) \in i + 1 .. Len(Order(l)) + 1
         /\ After(l, i) <= Len(Order(l)) => After(l, i) \in Places(l)
         /\ \A j \in Places(l) : i < j <=> After(l, i) <= j
PROOF
  <1> DEFINE R == OpToRel(<, Nat)
             S == Rest(l, i)
  <1>1. Len(Order(l)) \in Nat
    BY OrderType
  <1>2. S \subseteq i + 1 .. Len(Order(l)) + 1 /\ S # {}
    BY <1>1 DEF Rest
  <1>3. S \subseteq Nat
    BY <1>1, <1>2
  <1>4. IsWellFoundedOn(R, Nat)
    BY NatLessThanWellFounded
  <1>5. \A x, y \in Nat : x < y => <<x, y>> \in R
    BY DEF OpToRel
  <1>6. PICK m \in S : \A j \in S : <<j, m>> \notin R
    <2> HIDE DEF R, S
    <2> QED
      BY <1>2, <1>3, <1>4, WFMin
  <1>7. \A j \in S : m <= j
    <2> TAKE j \in S
    <2>1. m \in Nat /\ j \in Nat
      BY <1>3
    <2>2. ~(j < m)
      <3> HIDE DEF R, S
      <3> QED
        BY <1>5, <1>6, <2>1
    <2> QED
      BY <2>1, <2>2
  <1>8. After(l, i) \in S /\ \A j \in S : After(l, i) <= j
    <2> HIDE DEF S
    <2>1. \E x \in S : \A j \in S : x <= j
      BY <1>7
    <2>2. After(l, i) = CHOOSE x \in S : \A j \in S : x <= j
      BY DEF After, S
    <2> QED
      BY <2>1, <2>2
  <1>9. \A j \in Places(l) : i < j => j \in S
    BY <1>1 DEF Places, Rest
  <1>10. After(l, i) <= Len(Order(l)) => After(l, i) \in Places(l)
    BY <1>1, <1>8 DEF Places, Rest
  <1>11. ASSUME NEW j \in Places(l)
         PROVE  i < j <=> After(l, i) <= j
    <2>1. j \in Nat /\ After(l, i) \in Nat /\ i < After(l, i)
      BY <1>1, <1>2, <1>8 DEF Places
    <2>2. CASE i < j
      BY <1>8, <1>9, <1>11, <2>1, <2>2
    <2>3. CASE After(l, i) <= j
      BY <2>1, <2>3
    <2> QED
      BY <2>2, <2>3
  <1> QED
    BY <1>2, <1>8, <1>10, <1>11

-----------------------------------------------------------------------------
(* The invariant.                                                          *)
Signal == [node : ClientOwned \ ResetEarly, age : Nat]

TypeOK ==
  /\ dirty_age \in [Surface -> Nat]
  /\ dirty_rcs \in [Surface -> SUBSET Rect]
  /\ stale \in [Surface -> SUBSET Rect]
  /\ drawing \subseteq ClientOwned
  /\ changes \in [Node -> Nat]
  /\ lock_count \in [Node -> Nat]
  /\ seen_rcs \in [Node -> SUBSET Rect]
  /\ visible \subseteq WindowNode
  /\ topmost \in Layer
  /\ pc \in {"idle", "layer", "lock", "unlock", "reset"}
  /\ layer \in Layer
  /\ layers \in Seq(Layer)
  /\ at \in Nat
  /\ msgs \subseteq Signal

(* The pass stands at a visited place or past the last one.                *)
Standing ==
  /\ pc \in {"lock", "unlock", "reset"} =>
       /\ at \in 1 .. Len(Order(layer)) + 1
       /\ at <= Len(Order(layer)) => at \in Places(layer)
  /\ pc = "reset" => at <= Len(Order(layer))

(* The places whose surface is locked: those gone by while locking, those  *)
(* still to come while unlocking.                                          *)
LockedPlaces ==
  {j \in Places(layer) :
     \/ pc = "lock" /\ j < at
     \/ pc = "unlock" /\ j >= at
     \/ pc = "reset" /\ j > at}

Held == {Order(layer)[j] : j \in LockedPlaces}

LocksExact == \A n \in Node : lock_count[n] = IF n \in Held THEN 1 ELSE 0

(* Under the lock nobody draws; until the refresh the rectangles are those *)
(* noted.                                                                  *)
LockExcludes ==
  \A n \in Node : lock_count[n] > 0 =>
    /\ Surf(n) \notin drawing
    /\ pc = "lock" => seen_rcs[n] = dirty_rcs[Surf(n)]

(* After the refresh a locked surface is shown in full.                    *)
ShownWhileHeld ==
  /\ pc \in {"unlock", "reset"} =>
       \A n \in Node \ ResetEarly : lock_count[n] > 0 => stale[Surf(n)] = {}
  /\ pc = "reset" /\ Here \notin ClientOwned => stale[Surf(Here)] = {}

(* A message names an age that was shown in full.                          *)
MessagesTrue ==
  \A m \in msgs : m.age <= dirty_age[m.node]
                    /\ (m.age = dirty_age[m.node] => stale[m.node] = {})

AgesGrow == \A n \in Node : changes[n] <= dirty_age[Surf(n)]

IInv ==
  /\ TypeOK /\ Standing /\ LocksExact /\ LockExcludes
  /\ ShownWhileHeld /\ MessagesTrue /\ AgesGrow /\ NothingLost

LEMMA InitHolds == Init => IInv
PROOF
  <1> SUFFICES ASSUME Init PROVE IInv
    OBVIOUS
  <1>1. TypeOK
    BY DEF Init, TypeOK, Signal
  <1>2. Standing /\ LockExcludes /\ ShownWhileHeld /\ MessagesTrue /\ AgesGrow /\ NothingLost
    BY SurfType DEF Init, Standing, LockExcludes, ShownWhileHeld, MessagesTrue, AgesGrow, NothingLost
  <1>3. LockedPlaces = {}
    BY DEF Init, LockedPlaces
  <1>4. LocksExact
    BY <1>3 DEF Init, LocksExact, Held
  <1> QED
    BY <1>1, <1>2, <1>4 DEF IInv

-----------------------------------------------------------------------------
(* What every step that leaves something alone preserves.                  *)

LEMMA PlacesKept ==
  ASSUME UNCHANGED <<scene, layer>>
  PROVE  Places(layer)' = Places(layer)
  BY DEF scene, Places, Visited

LEMMA LocksKept ==
  ASSUME LocksExact, UNCHANGED lock_count, LockedPlaces' = LockedPlaces,
         UNCHANGED layer \/ LockedPlaces = {}
  PROVE  LocksExact'
PROOF
  <1>1. Held' = Held
    BY DEF Held
  <1> QED
    BY <1>1 DEF LocksExact

LEMMA PassKept ==
  ASSUME IInv, UNCHANGED <<scene, pass, lock_count>>
  PROVE  Standing' /\ LocksExact'
PROOF
  <1>1. UNCHANGED <<scene, layer>> /\ UNCHANGED <<pc, layer, at, lock_count>>
    BY DEF pass
  <1>2. Places(layer)' = Places(layer)
    BY <1>1, PlacesKept
  <1>3. Standing'
    BY <1>1, <1>2 DEF IInv, Standing
  <1>4. LockedPlaces' = LockedPlaces
    BY <1>1, <1>2 DEF LockedPlaces
  <1>5. LocksExact'
    BY <1>1, <1>4, LocksKept DEF IInv
  <1> QED
    BY <1>3, <1>5

LEMMA NoneHeld ==
  ASSUME IInv, LockedPlaces = {}
  PROVE  \A n \in Node : lock_count[n] = 0
  BY DEF IInv, LocksExact, Held

(* A step with no lock held that touches neither surfaces nor znodes.      *)
LEMMA DataKept ==
  ASSUME IInv, LockedPlaces = {}, UNCHANGED <<surface, znode, msgs>>,
         pc' \notin {"unlock", "reset"}
  PROVE  LockExcludes' /\ ShownWhileHeld' /\ MessagesTrue' /\ AgesGrow' /\ NothingLost'
PROOF
  <1>1. \A n \in Node : lock_count[n] = 0
    BY NoneHeld
  <1>2. LockExcludes'
    BY <1>1 DEF znode, LockExcludes
  <1> QED
    BY <1>2 DEF IInv, surface, znode, ShownWhileHeld, MessagesTrue, AgesGrow, NothingLost

LEMMA NoneLocked ==
  ASSUME pc \in {"idle", "layer"}
  PROVE  LockedPlaces = {}
  BY DEF LockedPlaces

(* Only a step of the pass can lock and unlock; none is locked before it.  *)
LEMMA OutsidePass ==
  ASSUME IInv, pc \in {"idle", "layer"}, pc' \in {"idle", "layer"}, UNCHANGED lock_count
  PROVE  Standing' /\ LocksExact'
PROOF
  <1>1. LockedPlaces = {} /\ LockedPlaces' = {}
    BY DEF LockedPlaces
  <1> QED
    BY <1>1, LocksKept DEF IInv, Standing

-----------------------------------------------------------------------------
(* The server between two passes.                                          *)

LEMMA ScenePreserves ==
  ASSUME IInv, \/ \E S \in SUBSET WindowNode : SetVisible(S)
               \/ \E l \in Layer : SetTopmost(l)
  PROVE  IInv'
PROOF
  <1>1. pc = "idle" /\ UNCHANGED <<surface, znode, pass, msgs>>
    BY DEF SetVisible, SetTopmost
  <1>2. visible' \subseteq WindowNode /\ topmost' \in Layer
    BY DEF SetVisible, SetTopmost, IInv, TypeOK
  <1>3. TypeOK'
    BY <1>1, <1>2 DEF IInv, TypeOK, surface, znode, pass
  <1>4. Standing' /\ LocksExact'
    BY <1>1, OutsidePass DEF pass, znode
  <1> QED
    BY <1>1, <1>3, <1>4, NoneLocked, DataKept DEF IInv, pass

(* The order in which the layers are composited is a sequence of layers.   *)
LEMMA LayersInOrder ==
  ASSUME TypeOK
  PROVE  <<topmost>> \o SetToSeq(Layer \ {topmost}) \in Seq(Layer)
PROOF
  <1> DEFINE S == Layer \ {topmost}
             n == Cardinality(S)
  <1>1. IsFiniteSet(S)
    BY CompositingAssumption, FS_Difference
  <1>2. n \in Nat /\ ExistsBijection(1 .. n, S)
    BY <1>1, FS_CardinalityType
  <1>3. \E f \in [1 .. n -> S] : IsInjective(f)
    <2> HIDE DEF n, S
    <2>1. PICK f \in Bijection(1 .. n, S) : TRUE
      BY <1>2 DEF ExistsBijection
    <2>2. f \in [1 .. n -> S] /\ \A a, b \in 1 .. n : f[a] = f[b] => a = b
      BY <2>1 DEF Bijection, Injection, IsInjective
    <2>3. DOMAIN f = 1 .. n
      BY <2>2
    <2> QED
      BY <2>2, <2>3 DEF IsInjective
  <1>4. SetToSeq(S) = CHOOSE f \in [1 .. n -> S] : IsInjective(f)
    BY DEF SetToSeq
  <1>5. SetToSeq(S) \in [1 .. n -> S]
    <2> HIDE DEF n, S
    <2> QED
      BY <1>3, <1>4
  <1>6. SetToSeq(S) \in Seq(S)
    <2> HIDE DEF n, S
    <2> QED
      BY <1>2, <1>5
  <1>7. SetToSeq(S) \in Seq(Layer)
    BY <1>6
  <1> HIDE DEF S, n
  <1>8. <<topmost>> \in Seq(Layer)
    BY DEF TypeOK
  <1>9. <<topmost>> \o SetToSeq(S) \in Seq(Layer)
    BY <1>7, <1>8
  <1> QED
    BY <1>9 DEF S

(* The steps between two layers.                                           *)
LEMMA BetweenLayersPreserves ==
  ASSUME IInv, StartPass \/ EndPass \/ DeclineLayer
  PROVE  IInv'
PROOF
  <1>1. /\ pc \in {"idle", "layer"} /\ pc' \in {"idle", "layer"}
        /\ UNCHANGED <<surface, znode, scene, layer, at, msgs>>
    BY DEF StartPass, EndPass, DeclineLayer
  <1>2. layers' \in Seq(Layer)
    <2>1. CASE StartPass
      BY <2>1, LayersInOrder DEF StartPass, IInv
    <2>2. CASE EndPass
      BY <2>2 DEF EndPass, IInv, TypeOK
    <2>3. CASE DeclineLayer
      BY <2>3 DEF DeclineLayer, IInv, TypeOK
    <2> QED
      BY <2>1, <2>2, <2>3
  <1>3. TypeOK'
    BY <1>1, <1>2 DEF IInv, TypeOK, surface, znode, scene
  <1>4. Standing' /\ LocksExact'
    BY <1>1, OutsidePass DEF znode
  <1> QED
    BY <1>1, <1>3, <1>4, NoneLocked, DataKept DEF IInv

LEMMA AcceptLayerPreserves ==
  ASSUME IInv, AcceptLayer
  PROVE  IInv'
PROOF
  <1>1. /\ pc = "layer" /\ pc' = "lock" /\ at' = After(layer', 0)
        /\ UNCHANGED <<surface, znode, scene, msgs>>
    BY DEF AcceptLayer, First
  <1>2. layer' \in Layer /\ layers' \in Seq(Layer)
    BY DEF AcceptLayer, IInv, TypeOK
  <1>3. PICK l \in Layer : l = layer'
    BY <1>2
  <1>4. Len(Order(l)) \in Nat
    BY OrderType
  <1>5. /\ at' \in 1 .. Len(Order(l)) + 1
        /\ at' <= Len(Order(l)) => at' \in Places(l)
        /\ \A j \in Places(l) : 0 < j <=> at' <= j
    BY <1>1, <1>3, <1>4, AfterIsNext
  <1>6. Places(layer)' = Places(l)
    BY <1>1, <1>3 DEF scene, Places, Visited
  <1>7. TypeOK'
    BY <1>1, <1>2, <1>4, <1>5 DEF IInv, TypeOK, surface, znode, scene
  <1>8. Standing'
    BY <1>1, <1>3, <1>5, <1>6 DEF Standing
  <1>9. LockedPlaces' = {}
    <2>1. \A j \in Places(l) : j \in Nat /\ ~(j < at')
      BY <1>4, <1>5 DEF Places
    <2> QED
      BY <1>1, <1>6, <2>1 DEF LockedPlaces
  <1>10. LocksExact'
    BY <1>1, <1>9, NoneLocked, LocksKept DEF IInv, znode
  <1> QED
    BY <1>1, <1>7, <1>8, <1>10, NoneLocked, DataKept DEF IInv

-----------------------------------------------------------------------------
(* The server's pass over a layer.                                         *)

(* The znode the pass stands at.                                           *)
LEMMA HereIsNode ==
  ASSUME IInv, pc \in {"lock", "unlock", "reset"}, Visiting
  PROVE  Here \in Node /\ at \in Places(layer) /\ at \in 1 .. Len(Order(layer))
PROOF
  <1>1. layer \in Layer /\ at \in Places(layer)
    BY DEF IInv, TypeOK, Standing, Visiting
  <1>2. at \in 1 .. Len(Order(layer))
    BY <1>1 DEF Places
  <1>3. Here \in Node
    BY <1>1, <1>2, OrderType DEF Here
  <1> QED
    BY <1>1, <1>2, <1>3

(* It is locked exactly if its place is.                                   *)
LEMMA HereHeld ==
  ASSUME IInv, pc \in {"lock", "unlock", "reset"}, Visiting
  PROVE  /\ Here \in Held <=> pc = "unlock"
         /\ Held \ {Here} = {Order(layer)[j] : j \in LockedPlaces \ {at}}
PROOF
  <1>1. layer \in Layer
    BY DEF IInv, TypeOK
  <1>2. at \in Places(layer) /\ at \in 1 .. Len(Order(layer)) /\ at \in Nat
    BY HereIsNode DEF IInv, TypeOK
  <1>3. LockedPlaces \subseteq 1 .. Len(Order(layer))
    BY DEF LockedPlaces, Places
  <1>4. \A j \in LockedPlaces : Order(layer)[j] = Here <=> j = at
    BY <1>1, <1>2, <1>3, OrderType DEF Here
  <1>5. at \in LockedPlaces <=> pc = "unlock"
    BY <1>2 DEF LockedPlaces
  <1>6. Here \in Held <=> at \in LockedPlaces
    BY <1>4 DEF Held, Here
  <1>7. Held \ {Here} = {Order(layer)[j] : j \in LockedPlaces \ {at}}
    BY <1>4 DEF Held
  <1> QED
    BY <1>5, <1>6, <1>7

(* To go on to the next place.                                             *)
LEMMA StepOn ==
  ASSUME IInv, pc \in {"lock", "unlock", "reset"}, Visiting,
         at' = After(layer, at), UNCHANGED <<scene, layer>>, pc' \in {"lock", "unlock"}
  PROVE  /\ Standing' /\ at' \in Nat
         /\ Places(layer)' = Places(layer)
         /\ \A j \in Places(layer) : at < j <=> at' <= j
PROOF
  <1>1. layer \in Layer /\ at \in 1 .. Len(Order(layer))
    BY HereIsNode DEF IInv, TypeOK
  <1>2. Len(Order(layer)) \in Nat
    BY <1>1, OrderType
  <1>3. /\ at' \in at + 1 .. Len(Order(layer)) + 1
        /\ at' <= Len(Order(layer)) => at' \in Places(layer)
        /\ \A j \in Places(layer) : at < j <=> at' <= j
    BY <1>1, <1>2, AfterIsNext
  <1>4. Places(layer)' = Places(layer)
    BY PlacesKept
  <1>5. at' \in 1 .. Len(Order(layer)) + 1 /\ at' \in Nat
    BY <1>1, <1>2, <1>3
  <1>6. Standing'
    BY <1>3, <1>4, <1>5 DEF Standing
  <1> QED
    BY <1>3, <1>4, <1>5, <1>6

LEMMA LockPreserves ==
  ASSUME IInv, Lock
  PROVE  IInv'
PROOF
  <1>1. /\ pc = "lock" /\ Visiting /\ at' = After(layer, at)
        /\ UNCHANGED <<surface, changes, scene, pc, layer, layers, msgs>>
    BY DEF Lock
  <1>2. PICK n \in Node : n = Here
    BY <1>1, HereIsNode
  <1>3. n \notin Held
    BY <1>1, <1>2, HereHeld
  <1>4. lock_count[n] = 0
    BY <1>3 DEF IInv, LocksExact
  <1>5. /\ Surf(n) \notin drawing
        /\ lock_count' = [lock_count EXCEPT ![n] = 1]
        /\ seen_rcs' = [seen_rcs EXCEPT ![n] = dirty_rcs[Surf(n)]]
    BY <1>2, <1>4 DEF Lock
  <1>6. /\ Standing' /\ at' \in Nat
        /\ Places(layer)' = Places(layer)
        /\ \A j \in Places(layer) : at < j <=> at' <= j
    BY <1>1, StepOn
  <1>7. TypeOK'
    <2>1. dirty_rcs[Surf(n)] \in SUBSET Rect
      BY SurfType DEF IInv, TypeOK
    <2> QED
      BY <1>1, <1>5, <1>6, <2>1 DEF IInv, TypeOK, surface, scene
  <1>8. LocksExact'
    <2>1. at \in Places(layer) /\ at \in Nat
      BY <1>1, HereIsNode DEF IInv, TypeOK
    <2>2. \A j \in Places(layer) : j \in Nat
      BY DEF Places
    <2>3. LockedPlaces' = LockedPlaces \cup {at}
      <3>1. \A j \in Places(layer) : j < at' <=> j < at \/ j = at
        BY <1>6, <2>1, <2>2
      <3>2. LockedPlaces = {j \in Places(layer) : j < at}
        BY <1>1 DEF LockedPlaces
      <3>3. LockedPlaces' = {j \in Places(layer) : j < at'}
        BY <1>1, <1>6 DEF LockedPlaces
      <3> QED
        BY <2>1, <3>1, <3>2, <3>3
    <2>4. Held' = Held \cup {n}
      BY <1>1, <1>2, <2>3 DEF Held, Here
    <2> QED
      BY <1>5, <2>4 DEF IInv, LocksExact, TypeOK
  <1>9. LockExcludes'
    BY <1>1, <1>5 DEF IInv, TypeOK, LockExcludes, surface
  <1>10. ShownWhileHeld' /\ MessagesTrue' /\ AgesGrow' /\ NothingLost'
    BY <1>1 DEF IInv, ShownWhileHeld, MessagesTrue, AgesGrow, NothingLost, surface
  <1> QED
    BY <1>6, <1>7, <1>8, <1>9, <1>10 DEF IInv

(* What the refresh brings to the screen.                                  *)
LEMMA RefreshBrings ==
  ASSUME IInv, Refresh
  PROVE  /\ stale' \in [Surface -> SUBSET Rect]
         /\ \A t \in Surface : stale'[t] \subseteq stale[t]
         /\ \A n \in Node \ ResetEarly : lock_count[n] > 0 => stale'[Surf(n)] = {}
PROOF
  <1>1. stale' = [t \in Surface |-> stale[t] \ MergedOf(t)]
    BY DEF Refresh
  <1>2. \A t \in Surface : stale[t] \in SUBSET Rect /\ stale'[t] = stale[t] \ MergedOf(t)
    BY <1>1 DEF IInv, TypeOK
  <1>3. ASSUME NEW n \in Node \ ResetEarly, lock_count[n] > 0
        PROVE  stale'[Surf(n)] = {}
    <2>1. n \in Held
      BY <1>3 DEF IInv, LocksExact
    <2>2. PICK j \in Places(layer) : n = Order(layer)[j]
      BY <2>1 DEF Held, LockedPlaces
    <2>3. layer \in Layer /\ pc = "lock"
      BY DEF IInv, TypeOK, Refresh
    <2>4. Visited(layer, n) /\ j \in 1 .. Len(Order(layer))
      BY <2>2 DEF Places
    <2>5. n \in Range(Order(layer))
      BY <2>2, <2>3, <2>4, OrderType DEF Range
    <2>6. Merged(n) <=> dirty_age[Surf(n)] # changes[n]
      BY <2>4, <2>5 DEF Merged
    <2>7. seen_rcs[n] = dirty_rcs[Surf(n)] /\ stale[Surf(n)] \subseteq dirty_rcs[Surf(n)]
      BY <1>3, <2>3 DEF IInv, LockExcludes, NothingLost
    <2>8. Surf(n) \in Surface
      BY SurfType
    <2>9. CASE Merged(n)
      <3>1. seen_rcs[n] \subseteq MergedOf(Surf(n))
        BY <2>9 DEF MergedOf
      <3> QED
        BY <1>2, <2>7, <2>8, <3>1
    <2>10. CASE ~Merged(n)
      BY <1>2, <2>6, <2>8, <2>10 DEF IInv, NothingLost
    <2> QED
      BY <2>9, <2>10
  <1>4. stale' \in [Surface -> SUBSET Rect]
    <2>1. \A t \in Surface : stale[t] \ MergedOf(t) \in SUBSET Rect
      BY <1>2
    <2> QED
      BY <1>1, <2>1
  <1> QED
    BY <1>2, <1>3, <1>4

LEMMA RefreshPreserves ==
  ASSUME IInv, Refresh
  PROVE  IInv'
PROOF
  <1>1. /\ pc = "lock" /\ Done /\ pc' = "unlock" /\ at' = After(layer, 0)
        /\ UNCHANGED <<dirty_age, dirty_rcs, drawing, znode, scene, layer, layers, msgs>>
    BY DEF Refresh, FirstToUnlock
  <1>2. layer \in Layer /\ Len(Order(layer)) \in Nat /\ at \in Nat /\ at > Len(Order(layer))
    BY <1>1, OrderType DEF IInv, TypeOK, Done
  <1>3. /\ at' \in 1 .. Len(Order(layer)) + 1
        /\ at' <= Len(Order(layer)) => at' \in Places(layer)
        /\ \A j \in Places(layer) : 0 < j <=> at' <= j
    BY <1>1, <1>2, AfterIsNext
  <1>4. Places(layer)' = Places(layer)
    BY <1>1, PlacesKept
  <1>5. TypeOK'
    BY <1>1, <1>2, <1>3, RefreshBrings DEF IInv, TypeOK, znode, scene
  <1>6. Standing'
    BY <1>1, <1>3, <1>4 DEF Standing
  <1>7. LocksExact'
    <2>1. \A j \in Places(layer) : j \in Nat /\ at' <= j /\ j < at
      BY <1>2, <1>3 DEF Places
    <2>2. at' \in Nat
      BY <1>2, <1>3
    <2>3. LockedPlaces = Places(layer)
      BY <1>1, <2>1 DEF LockedPlaces
    <2>4. LockedPlaces' = Places(layer)
      BY <1>1, <1>4, <2>1, <2>2 DEF LockedPlaces
    <2> QED
      BY <1>1, <2>3, <2>4, LocksKept DEF IInv, znode
  <1>8. LockExcludes' /\ AgesGrow'
    BY <1>1 DEF IInv, LockExcludes, AgesGrow, znode
  <1>9. ShownWhileHeld'
    BY <1>1, RefreshBrings DEF ShownWhileHeld, znode
  <1>10. MessagesTrue'
    <2>1. \A m \in msgs : m.node \in Surface
      BY SurfType DEF IInv, TypeOK, Signal
    <2> QED
      BY <1>1, <2>1, RefreshBrings DEF IInv, MessagesTrue
  <1>11. NothingLost'
    <2>1. \A n \in Node : stale'[Surf(n)] \subseteq stale[Surf(n)]
      BY RefreshBrings, SurfType
    <2> QED
      BY <1>1, <2>1 DEF IInv, NothingLost, znode
  <1> QED
    BY <1>5, <1>6, <1>7, <1>8, <1>9, <1>10, <1>11 DEF IInv

(* A surface that is unlocked, and one that has to be reset.               *)
LEMMA UnlockPreserves ==
  ASSUME IInv, Unlock
  PROVE  IInv'
PROOF
  <1>1. /\ pc = "unlock" /\ Visiting
        /\ UNCHANGED <<surface, scene, layer, layers, msgs>>
    BY DEF Unlock
  <1>2. PICK n \in Node : n = Here
    BY <1>1, HereIsNode
  <1>3. lock_count[n] = 1
    BY <1>1, <1>2, HereHeld DEF IInv, LocksExact
  <1>4. n \notin ResetEarly => stale[Surf(n)] = {}
    BY <1>1, <1>3 DEF IInv, ShownWhileHeld
  <1>5. /\ lock_count' = [lock_count EXCEPT ![n] = 0]
        /\ seen_rcs' = [seen_rcs EXCEPT ![n] = {}]
    BY <1>2, <1>3 DEF Unlock
  <1>6. \/ /\ changes' = [changes EXCEPT ![n] = dirty_age[Surf(n)]]
           /\ pc' = "reset" /\ at' = at
        \/ changes' = changes /\ pc' = "unlock" /\ at' = After(layer, at)
    BY <1>1, <1>2 DEF Unlock
  <1>7. at \in Places(layer) /\ at \in Nat /\ at \in 1 .. Len(Order(layer))
    BY <1>1, HereIsNode DEF IInv, TypeOK
  <1>8. Places(layer)' = Places(layer)
    BY <1>1, PlacesKept
  <1>9. \A j \in Places(layer) : j \in Nat
    BY DEF Places
  <1>10. /\ Standing' /\ at' \in Nat
         /\ LockedPlaces' = LockedPlaces \ {at}
    <2>1. LockedPlaces = {j \in Places(layer) : j >= at}
      BY <1>1 DEF LockedPlaces
    <2>2. CASE pc' = "reset" /\ at' = at
      <3>1. LockedPlaces' = {j \in Places(layer) : j > at}
        BY <1>8, <2>2 DEF LockedPlaces
      <3>2. \A j \in Places(layer) : j > at <=> j >= at /\ j # at
        BY <1>7, <1>9
      <3>3. LockedPlaces' = LockedPlaces \ {at}
        BY <2>1, <3>1, <3>2
      <3>4. Standing'
        BY <1>1, <1>7, <1>8, <2>2 DEF IInv, Standing
      <3> QED
        BY <1>7, <2>2, <3>3, <3>4
    <2>3. CASE pc' = "unlock" /\ at' = After(layer, at)
      <3>1. /\ Standing' /\ at' \in Nat
            /\ \A j \in Places(layer) : at < j <=> at' <= j
        BY <1>1, <2>3, StepOn
      <3>2. LockedPlaces' = {j \in Places(layer) : j >= at'}
        BY <1>8, <2>3 DEF LockedPlaces
      <3>3. \A j \in Places(layer) : j >= at' <=> j >= at /\ j # at
        BY <1>7, <1>9, <3>1
      <3>4. LockedPlaces' = LockedPlaces \ {at}
        BY <2>1, <3>2, <3>3
      <3> QED
        BY <3>1, <3>4
    <2> QED
      BY <1>6, <2>2, <2>3
  <1>11. LocksExact'
    <2>1. Held' = {Order(layer)[j] : j \in LockedPlaces \ {at}}
      BY <1>1, <1>10 DEF Held
    <2>2. Held' = Held \ {n}
      BY <1>1, <1>2, <2>1, HereHeld
    <2> QED
      BY <1>5, <2>2 DEF IInv, LocksExact, TypeOK
  <1>12. changes' \in [Node -> Nat] /\ AgesGrow' /\ NothingLost'
    <2>1. UNCHANGED <<dirty_age, dirty_rcs, stale>>
      BY <1>1 DEF surface
    <2>2. dirty_age[Surf(n)] \in Nat /\ changes \in [Node -> Nat]
      BY SurfType DEF IInv, TypeOK
    <2>3. /\ changes' \in [Node -> Nat]
          /\ \A k \in Node : \/ changes'[k] = changes[k]
                             \/ k = n /\ changes'[k] = dirty_age[Surf(k)]
      BY <1>6, <2>2
    <2>4. AgesGrow'
      <3>1. \A k \in Node : dirty_age[Surf(k)] \in Nat
                             /\ dirty_age'[Surf(k)] = dirty_age[Surf(k)]
        BY <2>1, SurfType DEF IInv, TypeOK
      <3>2. \A k \in Node : changes[k] <= dirty_age[Surf(k)]
        BY DEF IInv, AgesGrow
      <3>3. \A k \in Node : changes'[k] <= dirty_age'[Surf(k)]
        BY <2>3, <3>1, <3>2
      <3> QED
        BY <3>3 DEF AgesGrow
    <2>5. NothingLost'
      BY <1>4, <2>1, <2>3 DEF IInv, NothingLost
    <2> QED
      BY <2>3, <2>4, <2>5
  <1>13. TypeOK'
    BY <1>1, <1>5, <1>6, <1>10, <1>12 DEF IInv, TypeOK, surface, scene
  <1>14. LockExcludes' /\ MessagesTrue'
    BY <1>1, <1>5, <1>6 DEF IInv, TypeOK, LockExcludes, MessagesTrue, surface
  <1>15. ShownWhileHeld'
    <2>1. \A k \in Node \ ResetEarly : lock_count'[k] > 0 => stale'[Surf(k)] = {}
      BY <1>1, <1>5 DEF IInv, TypeOK, ShownWhileHeld, surface
    <2>2. pc' = "reset" => Here' = n
      BY <1>1, <1>2, <1>6 DEF Here
    <2>3. n \notin ClientOwned => stale'[Surf(n)] = {}
      BY <1>1, <1>4 DEF surface, ResetEarly
    <2> QED
      BY <2>1, <2>2, <2>3 DEF ShownWhileHeld
  <1> QED
    BY <1>10, <1>11, <1>12, <1>13, <1>14, <1>15 DEF IInv

(* The server resets what is its own or in slot 0, and sends for the rest. *)
LEMMA DirectIsServers ==
  ASSUME NEW n \in Node
  PROVE  DirectReset(n) <=> n \notin ClientOwned \ ResetEarly
  BY DEF DirectReset, ResetEarly

LEMMA ResetPreserves ==
  ASSUME IInv, Reset
  PROVE  IInv'
PROOF
  <1>1. /\ pc = "reset" /\ pc' = "unlock" /\ at' = After(layer, at)
        /\ UNCHANGED <<dirty_age, stale, drawing, znode, scene, layer, layers>>
    BY DEF Reset
  <1>2. Visiting
    BY <1>1 DEF IInv, Standing, Visiting
  <1>3. PICK n \in Node : n = Here
    BY <1>1, <1>2, HereIsNode
  <1>4. lock_count[n] = 0
    BY <1>1, <1>2, <1>3, HereHeld DEF IInv, LocksExact
  <1>5. \/ /\ n \notin ClientOwned \ ResetEarly /\ msgs' = msgs
           /\ dirty_rcs' = [dirty_rcs EXCEPT ![Surf(n)] = {}]
        \/ /\ n \in ClientOwned \ ResetEarly /\ dirty_rcs' = dirty_rcs
           /\ msgs' \in {msgs, msgs \cup {Message(n)}}
    BY <1>3, DirectIsServers DEF Reset
  <1>6. /\ Standing' /\ at' \in Nat
        /\ Places(layer)' = Places(layer)
        /\ \A j \in Places(layer) : at < j <=> at' <= j
    BY <1>1, <1>2, StepOn
  <1>7. LocksExact'
    <2>1. at \in Nat /\ \A j \in Places(layer) : j \in Nat
      BY DEF IInv, TypeOK, Places
    <2>2. LockedPlaces = {j \in Places(layer) : j > at}
      BY <1>1 DEF LockedPlaces
    <2>3. LockedPlaces' = {j \in Places(layer) : j >= at'}
      BY <1>1, <1>6 DEF LockedPlaces
    <2>4. \A j \in Places(layer) : j > at <=> j >= at'
      BY <1>6, <2>1
    <2>5. LockedPlaces' = LockedPlaces
      BY <2>2, <2>3, <2>4
    <2> QED
      BY <1>1, <2>5, LocksKept DEF IInv, znode
  <1>8. msgs' \subseteq Signal /\ MessagesTrue'
    <2>1. n \in ClientOwned \ ResetEarly =>
            /\ Message(n) \in Signal
            /\ Message(n).node = n /\ Message(n).age = changes[n]
      BY DEF Message, Signal, IInv, TypeOK
    <2>2. n \in ClientOwned \ ResetEarly =>
            changes[n] <= dirty_age[n] /\ (changes[n] = dirty_age[n] => stale[n] = {})
      BY SurfType DEF IInv, AgesGrow, NothingLost
    <2> QED
      BY <1>1, <1>5, <2>1, <2>2 DEF IInv, TypeOK, MessagesTrue
  <1>9. TypeOK'
    BY <1>1, <1>5, <1>6, <1>8 DEF IInv, TypeOK, znode, scene
  <1>10. LockExcludes'
    BY <1>1 DEF IInv, LockExcludes, znode
  <1>11. ShownWhileHeld' /\ AgesGrow'
    BY <1>1 DEF IInv, ShownWhileHeld, AgesGrow, znode
  <1>12. NothingLost'
    <2>1. n \notin ClientOwned => stale[Surf(n)] = {}
      BY <1>1, <1>3 DEF IInv, ShownWhileHeld
    <2>2. ASSUME NEW k \in Node \ ResetEarly
          PROVE  stale[Surf(k)] \subseteq dirty_rcs'[Surf(k)]
      <3>1. Surf(k) \in Surface /\ stale[Surf(k)] \subseteq dirty_rcs[Surf(k)]
        BY SurfType DEF IInv, NothingLost
      <3>2. n \in ResetEarly => Surf(k) # Surf(n)
        BY SurfType DEF ResetEarly
      <3>3. Surf(k) = Surf(n) => stale[Surf(k)] = {} \/ dirty_rcs' = dirty_rcs
        BY <1>5, <2>1, <3>2
      <3>4. Surf(k) # Surf(n) => dirty_rcs'[Surf(k)] = dirty_rcs[Surf(k)]
        BY <1>5, <3>1 DEF IInv, TypeOK
      <3> QED
        BY <3>1, <3>3, <3>4
    <2> QED
      BY <1>1, <2>2 DEF IInv, NothingLost, znode
  <1> QED
    BY <1>6, <1>7, <1>8, <1>9, <1>10, <1>11, <1>12 DEF IInv

LEMMA LayerDonePreserves ==
  ASSUME IInv, LayerDone
  PROVE  IInv'
PROOF
  <1>1. /\ pc = "unlock" /\ Done /\ pc' = "layer" /\ at' = 0
        /\ UNCHANGED <<surface, znode, scene, layer, layers, msgs>>
    BY DEF LayerDone
  <1>2. LockedPlaces = {}
    <2>1. Len(Order(layer)) \in Nat /\ at \in Nat /\ at > Len(Order(layer))
      BY <1>1, OrderType DEF IInv, TypeOK, Done
    <2>2. \A j \in Places(layer) : j \in Nat /\ ~(j >= at)
      BY <2>1 DEF Places
    <2> QED
      BY <1>1, <2>2 DEF LockedPlaces
  <1>3. LockedPlaces' = {}
    BY <1>1 DEF LockedPlaces
  <1>4. TypeOK' /\ Standing'
    BY <1>1 DEF IInv, TypeOK, Standing, surface, znode, scene
  <1>5. LocksExact'
    BY <1>1, <1>2, <1>3, LocksKept DEF IInv, znode
  <1> QED
    BY <1>1, <1>2, <1>4, <1>5, DataKept DEF IInv

-----------------------------------------------------------------------------
(* Drawing: the server between two passes, the clients whenever they have  *)
(* the lock.                                                               *)

LEMMA DrawPreserves ==
  ASSUME IInv, NEW t \in Surface, NEW r \in Rect, Drawn(t, r),
         \A k \in Node : Surf(k) = t => lock_count[k] = 0,
         UNCHANGED <<znode, scene, pass, msgs>>, drawing' \subseteq drawing,
         pc = "idle" \/ t \in ClientOwned
  PROVE  IInv'
PROOF
  <1>1. /\ dirty_age' = [dirty_age EXCEPT ![t] = @ + 1]
        /\ dirty_rcs' = [dirty_rcs EXCEPT ![t] = @ \cup {r}]
        /\ stale' = [stale EXCEPT ![t] = @ \cup {r}]
    BY DEF Drawn
  <1>2. UNCHANGED <<changes, lock_count, seen_rcs, visible, topmost, pc, layer, layers, at, msgs>>
    BY DEF znode, scene, pass
  <1>3. TypeOK'
    <2>1. /\ dirty_age' \in [Surface -> Nat]
          /\ dirty_rcs' \in [Surface -> SUBSET Rect] /\ stale' \in [Surface -> SUBSET Rect]
      BY <1>1 DEF IInv, TypeOK
    <2>2. drawing' \subseteq ClientOwned
      BY DEF IInv, TypeOK
    <2> QED
      BY <1>2, <2>1, <2>2 DEF IInv, TypeOK
  <1>4. Standing' /\ LocksExact'
    BY <1>2, PassKept
  <1>5. \A k \in Node : /\ Surf(k) \in Surface
                        /\ Surf(k) # t => /\ dirty_rcs'[Surf(k)] = dirty_rcs[Surf(k)]
                                          /\ stale'[Surf(k)] = stale[Surf(k)]
    BY <1>1, SurfType DEF IInv, TypeOK
  <1>6. LockExcludes'
    <2>1. \A k \in Node : lock_count[k] > 0 => Surf(k) # t
      BY DEF IInv, TypeOK
    <2> QED
      BY <1>2, <1>5, <2>1 DEF IInv, LockExcludes
  <1>7. ShownWhileHeld'
    <2>1. \A k \in Node : lock_count[k] > 0 => Surf(k) # t
      BY DEF IInv, TypeOK
    <2>2. Here' = Here
      BY <1>2 DEF Here
    <2>3. pc = "reset" => Here \in Node
      BY HereIsNode DEF IInv, Standing, Visiting
    <2>4. pc = "reset" /\ Here \notin ClientOwned => Surf(Here) # t
      BY <2>3, SurfType
    <2> QED
      BY <1>2, <1>5, <2>1, <2>2, <2>3, <2>4 DEF IInv, ShownWhileHeld
  <1>8. MessagesTrue'
    <2>1. \A m \in msgs : m.node \in Surface /\ m.age \in Nat
      BY SurfType DEF IInv, TypeOK, Signal
    <2> QED
      BY <1>1, <1>2, <2>1 DEF IInv, TypeOK, MessagesTrue
  <1>9. AgesGrow' /\ NothingLost'
    <2>1. \A k \in Node : /\ changes[k] \in Nat /\ dirty_age[Surf(k)] \in Nat
                          /\ dirty_age'[Surf(k)] = IF Surf(k) = t THEN dirty_age[Surf(k)] + 1
                                                   ELSE dirty_age[Surf(k)]
      BY <1>1, SurfType DEF IInv, TypeOK
    <2>2. \A k \in Node : changes[k] <= dirty_age[Surf(k)]
      BY DEF IInv, AgesGrow
    <2>3. AgesGrow'
      BY <1>2, <2>1, <2>2 DEF AgesGrow
    <2>4. ASSUME NEW k \in Node \ ResetEarly
          PROVE  /\ stale'[Surf(k)] \subseteq dirty_rcs'[Surf(k)]
                 /\ stale'[Surf(k)] # {} => dirty_age'[Surf(k)] # changes[k]
      <3>1. /\ stale[Surf(k)] \subseteq dirty_rcs[Surf(k)]
            /\ stale[Surf(k)] # {} => dirty_age[Surf(k)] # changes[k]
        BY DEF IInv, NothingLost
      <3>2. CASE Surf(k) = t
        <4>1. stale'[t] = stale[t] \cup {r} /\ dirty_rcs'[t] = dirty_rcs[t] \cup {r}
          BY <1>1 DEF IInv, TypeOK
        <4>2. dirty_age'[Surf(k)] # changes[k]
          BY <2>1, <2>2, <3>2
        <4> QED
          BY <3>1, <3>2, <4>1, <4>2
      <3>3. CASE Surf(k) # t
        BY <1>5, <2>1, <3>1, <3>3
      <3> QED
        BY <3>2, <3>3
    <2> QED
      BY <1>2, <2>3, <2>4 DEF NothingLost
  <1> QED
    BY <1>3, <1>4, <1>6, <1>7, <1>8, <1>9 DEF IInv

LEMMA ServerDrawsPreserves ==
  ASSUME IInv, NEW t \in Surface, NEW r \in Rect, ServerDraws(t, r)
  PROVE  IInv'
PROOF
  <1>1. pc = "idle" /\ Drawn(t, r) /\ drawing' = drawing /\ UNCHANGED <<znode, scene, pass, msgs>>
    BY DEF ServerDraws
  <1>2. \A n \in Node : lock_count[n] = 0
    BY <1>1, NoneLocked, NoneHeld
  <1> QED
    BY <1>1, <1>2, DrawPreserves

LEMMA EndDrawPreserves ==
  ASSUME IInv, NEW t \in Surface, NEW r \in Rect, EndDraw(t, r)
  PROVE  IInv'
PROOF
  <1>1. t \in drawing /\ Drawn(t, r) /\ drawing' = drawing \ {t} /\ UNCHANGED <<znode, scene, pass, msgs>>
    BY DEF EndDraw
  <1>2. t \in ClientOwned
    BY <1>1 DEF IInv, TypeOK
  <1>3. \A k \in Node : Surf(k) = t => lock_count[k] = 0
    BY <1>1 DEF IInv, TypeOK, LockExcludes, LocksExact
  <1> QED
    BY <1>1, <1>2, <1>3, DrawPreserves

LEMMA BeginDrawPreserves ==
  ASSUME IInv, NEW n \in Surface, BeginDraw(n)
  PROVE  IInv'
PROOF
  <1>1. /\ n \in ClientOwned /\ ~(lock_count[n] > 0)
        /\ drawing' = drawing \cup {n}
        /\ UNCHANGED <<dirty_age, dirty_rcs, stale, znode, scene, pass, msgs>>
    BY DEF BeginDraw, ReadLocked
  <1>2. UNCHANGED <<changes, lock_count, seen_rcs, visible, topmost, pc, layer, layers, at>>
    BY <1>1 DEF znode, scene, pass
  <1>3. TypeOK'
    BY <1>1, <1>2 DEF IInv, TypeOK
  <1>4. Standing' /\ LocksExact'
    BY <1>1, <1>2, PassKept
  <1>5. LockExcludes'
    <2>1. \A k \in Node : lock_count[k] > 0 => Surf(k) # n
      BY <1>1, SurfType
    <2> QED
      BY <1>1, <1>2, <2>1 DEF IInv, LockExcludes
  <1>6. ShownWhileHeld'
    BY <1>1, <1>2 DEF IInv, ShownWhileHeld, Here
  <1>7. MessagesTrue' /\ AgesGrow' /\ NothingLost'
    BY <1>1, <1>2 DEF IInv, MessagesTrue, AgesGrow, NothingLost
  <1> QED
    BY <1>3, <1>4, <1>5, <1>6, <1>7 DEF IInv

LEMMA CompositedPreserves ==
  ASSUME IInv, NEW m \in msgs, Composited(m)
  PROVE  IInv'
PROOF
  <1>1. m.node \in ClientOwned /\ m.node \in Surface
    BY SurfType DEF IInv, TypeOK, Signal
  <1>2. /\ ~(lock_count[m.node] > 0)
        /\ msgs' = msgs \ {m}
        /\ \/ dirty_rcs' = dirty_rcs
           \/ /\ dirty_age[m.node] = m.age
              /\ dirty_rcs' = [dirty_rcs EXCEPT ![m.node] = {}]
        /\ UNCHANGED <<dirty_age, stale, drawing, znode, scene, pass>>
    BY <1>1 DEF Composited, ReadLocked
  <1>3. UNCHANGED <<changes, lock_count, seen_rcs, visible, topmost, pc, layer, layers, at>>
    BY <1>2 DEF znode, scene, pass
  <1>4. TypeOK'
    BY <1>2, <1>3 DEF IInv, TypeOK
  <1>5. Standing' /\ LocksExact'
    BY <1>2, <1>3, PassKept
  <1>6. LockExcludes'
    <2>1. \A k \in Node : lock_count[k] > 0 => Surf(k) # m.node /\ Surf(k) \in Surface
      BY <1>1, <1>2, SurfType
    <2> QED
      BY <1>2, <1>3, <2>1 DEF IInv, TypeOK, LockExcludes
  <1>7. ShownWhileHeld'
    BY <1>2, <1>3 DEF IInv, ShownWhileHeld, Here
  <1>8. MessagesTrue' /\ AgesGrow'
    BY <1>2, <1>3 DEF IInv, MessagesTrue, AgesGrow
  <1>9. NothingLost'
    <2>1. dirty_age[m.node] = m.age => stale[m.node] = {}
      BY DEF IInv, MessagesTrue
    <2>2. \A k \in Node : /\ Surf(k) \in Surface
                          /\ Surf(k) # m.node => dirty_rcs'[Surf(k)] = dirty_rcs[Surf(k)]
      BY <1>2, SurfType DEF IInv, TypeOK
    <2> QED
      BY <1>2, <1>3, <2>1, <2>2 DEF IInv, NothingLost
  <1> QED
    BY <1>4, <1>5, <1>6, <1>7, <1>8, <1>9 DEF IInv

-----------------------------------------------------------------------------
(* The theorems.                                                           *)

(* Every step of the server and of the clients preserves the invariant.    *)
LEMMA NextPreserves == IInv /\ [Next]_vars => IInv'
PROOF
  <1> SUFFICES ASSUME IInv, [Next]_vars PROVE IInv'
    OBVIOUS
  <1>1. CASE Pass
    BY <1>1, BetweenLayersPreserves, AcceptLayerPreserves, LockPreserves, RefreshPreserves,
       UnlockPreserves, ResetPreserves, LayerDonePreserves DEF Pass
  <1>2. CASE (\E S \in SUBSET WindowNode : SetVisible(S)) \/ (\E l \in Layer : SetTopmost(l))
    BY <1>2, ScenePreserves
  <1>3. CASE \E t \in Surface, r \in Rect : ServerDraws(t, r) \/ EndDraw(t, r)
    BY <1>3, ServerDrawsPreserves, EndDrawPreserves
  <1>4. CASE \E t \in Surface : BeginDraw(t)
    BY <1>4, BeginDrawPreserves
  <1>5. CASE \E m \in msgs : Composited(m)
    BY <1>5, CompositedPreserves
  <1>6. CASE UNCHANGED vars
    <2>1. UNCHANGED <<surface, znode, scene, pass, msgs>>
      BY <1>6 DEF vars
    <2>2. TypeOK'
      BY <2>1 DEF IInv, TypeOK, surface, znode, scene, pass
    <2>3. Standing' /\ LocksExact'
      BY <2>1, PassKept DEF znode
    <2>4. LockExcludes' /\ MessagesTrue' /\ AgesGrow' /\ NothingLost'
      BY <2>1 DEF IInv, LockExcludes, MessagesTrue, AgesGrow, NothingLost, surface, znode, pass
    <2>5. ShownWhileHeld'
      BY <2>1 DEF IInv, ShownWhileHeld, Here, surface, znode, pass
    <2> QED
      BY <2>2, <2>3, <2>4, <2>5 DEF IInv
  <1> QED
    BY <1>1, <1>2, <1>3, <1>4, <1>5, <1>6 DEF Next

(* The invariant holds always.                                             *)
THEOREM Inductive == Spec => []IInv
  BY InitHolds, NextPreserves, PTL DEF Spec

(* What the screen does not show yet is among the dirty rectangles of its  *)
(* surface, whose age says so to the znode (composite_layer,               *)
(* reset_znode_surface_dirty); a client's menu in slot 0 apart.            *)
THEOREM UpdatesSurvive == Spec => []NothingLost
PROOF
  <1>1. IInv => NothingLost
    BY DEF IInv
  <1> QED
    BY <1>1, Inductive, PTL

(* unlock_znode_surface gives back every lock before the next layer.       *)
THEOREM LocksReturned == Spec => []AllUnlocked
PROOF
  <1>1. IInv => AllUnlocked
    <2> SUFFICES ASSUME IInv, NEW n \in Node
                 PROVE  lock_count[n] <= (IF pc \in {"idle", "layer"} THEN 0 ELSE 1)
      BY DEF AllUnlocked
    <2>1. pc \in {"idle", "layer"} => n \notin Held
      BY NoneLocked DEF Held
    <2> QED
      BY <2>1 DEF IInv, LocksExact
  <1> QED
    BY <1>1, Inductive, PTL

(* unlock_znode_surface notes an age only when the refresh has shown all   *)
(* that was drawn up to it.                                                *)
THEOREM NotesAreTrue == Spec => NotedIsShown
PROOF
  <1>1. IInv /\ [Next]_vars => [\A n \in Node \ ResetEarly : changes'[n] # changes[n] =>
                  stale[Surf(n)] = {} /\ changes'[n] = dirty_age[Surf(n)]]_vars
    <2> SUFFICES ASSUME IInv, Next, NEW n \in Node \ ResetEarly, changes'[n] # changes[n]
                 PROVE  stale[Surf(n)] = {} /\ changes'[n] = dirty_age[Surf(n)]
      OBVIOUS
    <2>1. Unlock
      BY DEF Next, Pass, StartPass, EndPass, DeclineLayer, AcceptLayer, Lock, Refresh, Reset,
             LayerDone, SetVisible, SetTopmost, ServerDraws, BeginDraw, EndDraw, Composited, znode
    <2>2. /\ pc = "unlock" /\ Visiting /\ NeedReset(Here)
          /\ changes' = [changes EXCEPT ![Here] = dirty_age[Surf(Here)]]
      BY <2>1 DEF Unlock
    <2>3. n = Here /\ changes'[n] = dirty_age[Surf(n)]
      BY <2>2 DEF IInv, TypeOK
    <2>4. lock_count[n] > 0
      BY <2>2, <2>3 DEF NeedReset
    <2>5. stale[Surf(n)] = {}
      BY <2>2, <2>4 DEF IInv, ShownWhileHeld
    <2> QED
      BY <2>3, <2>5
  <1> QED
    BY <1>1, Inductive, PTL DEF Spec, NotedIsShown

(* What a sequence holds stays where it is when another is put behind it.  *)
LEMMA AppendKeeps ==
  ASSUME NEW S, NEW q \in Seq(S), NEW p \in Seq(S), NEW i \in 1 .. Len(q)
  PROVE  Len(q \o p) = Len(q) + Len(p) /\ (q \o p)[i] = q[i]
  OBVIOUS

(* A visible window of the layer has a place that a pass visits, and is    *)
(* never reset early.                                                      *)
LEMMA WindowPlace ==
  ASSUME NEW l \in Layer, NEW n \in Range(Windows[l]), n \in visible
  PROVE  /\ n \in Node \ ResetEarly /\ Surf(n) = n
         /\ \E j \in Places(l) : Order(l)[j] = n
PROOF
  <1>1. /\ Menus[l] \in Seq(MenuNode) /\ Windows[l] \in Seq(WindowNode)
        /\ \A k \in Layer : Menus[k] \in Seq(MenuNode)
        /\ WindowNode \cap MenuNode = {} /\ WallpaperNode \cap WindowNode = {}
    BY CompositingAssumption
  <1>2. n \in WindowNode
    BY DEF WindowNode
  <1>3. ~InSlot0(n)
    <2>1. \A k \in Layer : Menus[k] # <<>> => Menus[k][1] \in MenuNode
      <3> SUFFICES ASSUME NEW k \in Layer, Menus[k] # <<>>
                   PROVE  Menus[k][1] \in MenuNode
        OBVIOUS
      <3>1. Menus[k] \in Seq(MenuNode)
        BY <1>1
      <3> QED
        BY <3>1
    <2> QED
      BY <1>1, <1>2, <2>1 DEF InSlot0
  <1>4. n \in Node \ ResetEarly /\ Surf(n) = n
    BY <1>2, <1>3, SurfType DEF Node, ResetEarly
  <1>5. PICK i \in DOMAIN Windows[l] : Windows[l][i] = n
    BY DEF Range
  <1> DEFINE M == Menus[l]
             W == Windows[l]
             j == Len(M) + i
  <1>6. i \in 1 .. Len(W) /\ Len(M) \in Nat /\ Len(W) \in Nat
    BY <1>1, <1>5
  <1>7. M \in Seq(Node) /\ W \in Seq(Node) /\ <<Wallpaper[l]>> \in Seq(Node)
    <2>1. MenuNode \subseteq Node /\ WindowNode \subseteq Node /\ Wallpaper[l] \in Node
      BY DEF Node, WallpaperNode
    <2>2. M \in Seq(MenuNode) /\ W \in Seq(WindowNode)
      BY <1>1
    <2> HIDE DEF M, W
    <2> QED
      BY ONLY <2>1, <2>2
  <1>8. j \in 1 .. Len(Order(l)) /\ Order(l)[j] = W[i]
    <2>1. Order(l) = M \o W \o <<Wallpaper[l]>>
      BY DEF Order
    <2> DEFINE P == <<Wallpaper[l]>>
    <2>2. P \in Seq(Node) /\ Len(P) = 1
      BY <1>7
    <2> HIDE DEF M, W, P
    <2>3. M \o W \in Seq(Node) /\ Len(M \o W) = Len(M) + Len(W)
      BY <1>7
    <2>4. (M \o W)[j] = W[i] /\ j \in 1 .. Len(M \o W)
      BY <1>6, <1>7, <2>3
    <2> DEFINE Q == M \o W
    <2>5. Len(M \o W \o P) = Len(M) + Len(W) + 1 /\ (M \o W \o P)[j] = (M \o W)[j]
      <3>1. Q \in Seq(Node) /\ j \in 1 .. Len(Q) /\ Len(Q) = Len(M) + Len(W)
        BY <2>3, <2>4
      <3> HIDE DEF Q, j
      <3>2. Len(Q \o P) = Len(Q) + Len(P) /\ (Q \o P)[j] = Q[j]
        BY <2>2, <3>1, AppendKeeps
      <3> QED
        BY <2>2, <3>1, <3>2 DEF Q
    <2> QED
      BY <1>6, <2>1, <2>4, <2>5 DEF P
  <1>9. Visited(l, n)
    BY <1>2 DEF Visited
  <1>10. j \in Places(l) /\ Order(l)[j] = n
    BY <1>5, <1>8, <1>9 DEF Places
  <1> QED
    BY <1>4, <1>10

(* What was drawn on a visible window before the pass locked it is on the  *)
(* screen after refresh_dirty_region.                                      *)
THEOREM WindowsShown == Spec => RefreshShows
PROOF
  <1>1. IInv /\ [Next]_vars =>
          [pc = "lock" /\ pc' = "unlock" =>
             \A n \in Range(Windows[layer]) \cap visible : stale'[n] = {}]_vars
    <2> SUFFICES ASSUME IInv, Next, pc = "lock", pc' = "unlock",
                        NEW n \in Range(Windows[layer]), n \in visible
                 PROVE  stale'[n] = {}
      OBVIOUS
    <2>1. Refresh
      BY DEF Next, Pass, StartPass, EndPass, DeclineLayer, AcceptLayer, Lock, Unlock, Reset,
             LayerDone, SetVisible, SetTopmost, ServerDraws, BeginDraw, EndDraw, Composited, pass
    <2>2. layer \in Layer /\ Len(Order(layer)) \in Nat /\ at \in Nat /\ at > Len(Order(layer))
      BY <2>1, OrderType DEF IInv, TypeOK, Refresh, Done
    <2>3. n \in Node \ ResetEarly /\ Surf(n) = n
      BY <2>2, WindowPlace
    <2>4. PICK j \in Places(layer) : Order(layer)[j] = n
      BY <2>2, WindowPlace
    <2>5. j < at
      BY <2>2, <2>4 DEF Places
    <2>6. n \in Held
      BY <2>4, <2>5 DEF Held, LockedPlaces
    <2>7. lock_count[n] > 0
      BY <2>3, <2>6 DEF IInv, LocksExact
    <2> QED
      BY <2>1, <2>3, <2>7, RefreshBrings
  <1> QED
    BY <1>1, Inductive, PTL DEF Spec, RefreshShows
=============================================================================
