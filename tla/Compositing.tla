---------------------------- MODULE Compositing ----------------------------
(***************************************************************************)
(* One pass of the window server over the layers: the surfaces that        *)
(* changed are locked and merged, the screen is refreshed, the surfaces    *)
(* are unlocked and their dirty rectangles reset.  Clients draw into their *)
(* shared surfaces while the server works.                                 *)
(***************************************************************************)
EXTENDS Integers, Sequences, SequencesExt

CONSTANTS
  Layer,        \* mgLayers
  Windows,      \* Windows[l]: the window znodes of a layer, from the top
  Menus,        \* Menus[l]: the popup menus of a layer
  Wallpaper,    \* Wallpaper[l]: znode 0 of a layer
  Screen,       \* the surface of HDC_SCREEN, which every znode 0 stands for
  ScreenHasSize,\* its w and h are positive
  ClientOwned,  \* znodes with cli # 0: their surfaces have a shared_header
  Rect,         \* rectangles of a surface that can become dirty
  MaxAge        \* bound: MaxAge[s], how often a surface is drawn

WindowNode == UNION {Range(Windows[l]) : l \in Layer}
MenuNode == UNION {Range(Menus[l]) : l \in Layer}
WallpaperNode == {Wallpaper[l] : l \in Layer}
Node == WindowNode \cup MenuNode \cup WallpaperNode

(* A window or menu has a surface of its own, named like its znode.        *)
Surface == WindowNode \cup MenuNode \cup {Screen}
Surf(n) == IF n \in WallpaperNode THEN Screen ELSE n

(* The order in which a pass goes over the znodes of layer l.              *)
Order(l) == Menus[l] \o Windows[l] \o <<Wallpaper[l]>>

ASSUME CompositingAssumption ==
  /\ Layer # {} /\ IsFiniteSet(Layer)
  /\ Windows \in [Layer -> Seq(WindowNode)] /\ Menus \in [Layer -> Seq(MenuNode)]
  /\ ClientOwned \subseteq WindowNode \cup MenuNode
  /\ WallpaperNode \cap (WindowNode \cup MenuNode) = {}
  /\ WindowNode \cap MenuNode = {} /\ Screen \notin WindowNode \cup MenuNode
  /\ \A l \in Layer : IsInjective(Order(l))        \* a znode has one place
  /\ ScreenHasSize \in BOOLEAN
  /\ MaxAge \in [Surface -> Nat]

VARIABLES
  dirty_age, dirty_rcs,  \* dirty_info of a surface, shared with its owner
  stale,                 \* what the screen does not show yet (not in the code)
  drawing,               \* client surfaces locked for writing by their client
  changes, lock_count, seen_rcs, \* of a znode: seen_rcs is its dirty_rcs copy
  visible,
  topmost,               \* mgTopmostLayer
  pc, layer, layers,     \* where the pass is: see the actions
  at,                    \* the place in Order(layer) it has reached
  msgs                   \* MSG_WINCOMPOSITED on the way to the clients

surface == <<dirty_age, dirty_rcs, stale, drawing>>
znode == <<changes, lock_count, seen_rcs>>
scene == <<visible, topmost>>
pass == <<pc, layer, layers, at>>
vars == <<surface, znode, scene, pass, msgs>>

(* Slot numbers start at 1 for windows and at 0 for menus and wallpaper.   *)
InSlot0(n) ==
  \/ n \in WallpaperNode
  \/ \E l \in Layer : Menus[l] # <<>> /\ n = Menus[l][1]

(* A pass visits the windows of the layer that are visible; menus and      *)
(* wallpaper of the topmost layer only.                                    *)
HiddenVisited(l, n) ==                   \* mutant: the visibility test is inverted
  IF n \in WindowNode THEN n \notin visible ELSE l = topmost
Visited(l, n) ==
  IF n \in WindowNode THEN n \in visible
  ELSE l = topmost /\ (n \in WallpaperNode => ScreenHasSize)

(* The first place after i that is visited, or one past the end.           *)
Rest(l, i) == {j \in i + 1 .. Len(Order(l)) : Visited(l, Order(l)[j])}
                \cup {Len(Order(l)) + 1}
After(l, i) == CHOOSE j \in Rest(l, i) : \A k \in Rest(l, i) : j <= k
First(l) == After(l, 0)
PastMenus(l) == After(l, Len(Menus[l]))  \* mutant: the menus are forgotten
FirstToUnlock(l) == After(l, 0)

Visiting == at <= Len(Order(layer))
Done == at > Len(Order(layer))
Here == Order(layer)[at]

Init ==
  /\ dirty_age = [s \in Surface |-> 0]
  /\ dirty_rcs = [s \in Surface |-> {}]
  /\ stale = [s \in Surface |-> {}]
  /\ drawing = {}
  /\ changes = [n \in Node |-> 0]
  /\ lock_count = [n \in Node |-> 0]
  /\ seen_rcs = [n \in Node |-> {}]
  /\ visible \in SUBSET WindowNode
  /\ topmost \in Layer
  /\ pc = "idle" /\ layer = topmost /\ layers = <<>> /\ at = 0
  /\ msgs = {}

-----------------------------------------------------------------------------
(* The server, between passes: its message loop (not under src/) shows and *)
(* hides windows, switches layers and draws into its own surfaces.         *)
SetVisible(S) ==
  /\ pc = "idle"
  /\ visible' = S
  /\ UNCHANGED <<surface, znode, topmost, pass, msgs>>

SetTopmost(l) ==
  /\ pc = "idle"
  /\ topmost' = l
  /\ UNCHANGED <<surface, znode, visible, pass, msgs>>

Drawn(s, r) ==
  /\ dirty_age[s] < MaxAge[s]
  /\ dirty_age' = [dirty_age EXCEPT ![s] = @ + 1]
  /\ dirty_rcs' = [dirty_rcs EXCEPT ![s] = @ \cup {r}]
  /\ stale' = [stale EXCEPT ![s] = @ \cup {r}]

ServerDraws(s, r) ==
  /\ pc = "idle"
  /\ s \notin ClientOwned
  /\ Drawn(s, r)
  /\ UNCHANGED <<drawing, znode, scene, pass, msgs>>

(* __mg_composite_dirty_znodes: the topmost layer first.                   *)
StartPass ==
  /\ pc = "idle"
  /\ pc' = "layer"
  /\ layers' = <<topmost>> \o SetToSeq(Layer \ {topmost})
  /\ UNCHANGED <<surface, znode, scene, layer, at, msgs>>

EndPass ==
  /\ pc = "layer" /\ layers = <<>>
  /\ pc' = "idle"
  /\ UNCHANGED <<surface, znode, scene, layer, layers, at, msgs>>

(* composite_layer begins: the compositor's reset_dirty_region may decline *)
(* a layer; every compositor shows the topmost one.                        *)
DeclineLayer ==
  /\ pc = "layer" /\ layers # <<>> /\ Head(layers) # topmost
  /\ layers' = Tail(layers)
  /\ UNCHANGED <<surface, znode, scene, pc, layer, at, msgs>>

AcceptLayer ==
  /\ pc = "layer" /\ layers # <<>>
  /\ layer' = Head(layers)
  /\ layers' = Tail(layers)
  /\ at' = First(layer')
  /\ pc' = "lock"
  /\ UNCHANGED <<surface, znode, scene, msgs>>

(* lock_znode_surface waits for a client that is drawing; then, under the  *)
(* lock, merge_dirty_* if the surface has changed.                         *)
NeverReadLocked(n) == FALSE              \* mutant: the surface is not locked
ReadLocked(n) == n \in ClientOwned /\ lock_count[n] > 0

Lock ==
  /\ pc = "lock" /\ Visiting
  /\ LET n == Here
     IN  /\ lock_count[n] = 0 => Surf(n) \notin drawing
         /\ lock_count' = [lock_count EXCEPT ![n] = @ + 1]
         /\ seen_rcs' = IF lock_count[n] = 0
                        THEN [seen_rcs EXCEPT ![n] = dirty_rcs[Surf(n)]] ELSE seen_rcs
  /\ at' = After(layer, at)
  /\ UNCHANGED <<surface, changes, scene, pc, layer, layers, msgs>>

(* refresh_dirty_region brings to the screen the rectangles merged.        *)
Merged(n) ==
  /\ n \in Range(Order(layer)) /\ Visited(layer, n)
  /\ dirty_age[Surf(n)] # changes[n]
MergedOf(s) == UNION {seen_rcs[n] : n \in {k \in Node : Surf(k) = s /\ Merged(k)}}

Refresh ==
  /\ pc = "lock" /\ Done
  /\ stale' = [s \in Surface |-> stale[s] \ MergedOf(s)]
  /\ at' = FirstToUnlock(layer)
  /\ pc' = "unlock"
  /\ UNCHANGED <<dirty_age, dirty_rcs, drawing, znode, scene, layer, layers, msgs>>

(* unlock_znode_surface; a znode whose surface changed is reset next.      *)
NeedReset(n) == lock_count[n] = 1 /\ changes[n] # dirty_age[Surf(n)]

Unlock ==
  /\ pc = "unlock" /\ Visiting
  /\ LET n == Here
     IN  /\ lock_count' = [lock_count EXCEPT ![n] = IF @ > 0 THEN @ - 1 ELSE 0]
         /\ seen_rcs' = [seen_rcs EXCEPT ![n] = IF lock_count[n] = 1 THEN {} ELSE @]
         /\ IF NeedReset(n)
            THEN /\ changes' = [changes EXCEPT ![n] = dirty_age[Surf(n)]]
                 /\ pc' = "reset"
                 /\ UNCHANGED at
            ELSE /\ at' = After(layer, at)
                 /\ UNCHANGED <<changes, pc>>
  /\ UNCHANGED <<surface, scene, layer, layers, msgs>>

(* reset_znode_surface_dirty, after the lock is released: a client is told *)
(* which age was composited and resets its rectangles itself.  Whether the *)
(* message reaches it, or the znode has an hwnd, is not looked at.         *)
DirectReset(n) == n \notin ClientOwned \/ InSlot0(n)
AgeReadLate(n) == [node |-> n, age |-> dirty_age[n]]  \* mutant: not the age noted
Message(n) == [node |-> n, age |-> changes[n]]

Reset ==
  /\ pc = "reset"
  /\ LET n == Here
     IN  \/ /\ DirectReset(n)
            /\ dirty_rcs' = [dirty_rcs EXCEPT ![Surf(n)] = {}]
            /\ UNCHANGED msgs
         \/ /\ ~DirectReset(n)
            /\ msgs' \in {msgs, msgs \cup {Message(n)}}
            /\ UNCHANGED dirty_rcs
  /\ at' = After(layer, at)
  /\ pc' = "unlock"
  /\ UNCHANGED <<dirty_age, stale, drawing, znode, scene, layer, layers>>

LayerDone ==
  /\ pc = "unlock" /\ Done
  /\ pc' = "layer" /\ at' = 0
  /\ UNCHANGED <<surface, znode, scene, layer, layers, msgs>>

-----------------------------------------------------------------------------
(* A client locks its surface for writing, draws and unlocks; when it is   *)
(* told that an age was composited it drops its rectangles, unless it drew *)
(* again since.                                                            *)
BeginDraw(n) ==
  /\ n \in ClientOwned /\ n \notin drawing
  /\ ~ReadLocked(n)
  /\ dirty_age[n] < MaxAge[n]
  /\ drawing' = drawing \cup {n}
  /\ UNCHANGED <<dirty_age, dirty_rcs, stale, znode, scene, pass, msgs>>

EndDraw(n, r) ==
  /\ n \in drawing
  /\ Drawn(n, r)
  /\ drawing' = drawing \ {n}
  /\ UNCHANGED <<znode, scene, pass, msgs>>

Composited(m) ==
  /\ m \in msgs
  /\ m.node \notin drawing /\ ~ReadLocked(m.node)
  /\ msgs' = msgs \ {m}
  /\ dirty_rcs' = IF dirty_age[m.node] = m.age
                  THEN [dirty_rcs EXCEPT ![m.node] = {}] ELSE dirty_rcs
  /\ UNCHANGED <<dirty_age, stale, drawing, znode, scene, pass>>

Pass == StartPass \/ EndPass \/ DeclineLayer \/ AcceptLayer \/ Lock \/ Refresh
          \/ Unlock \/ Reset \/ LayerDone

Next ==
  \/ Pass
  \/ \E S \in SUBSET WindowNode : SetVisible(S)
  \/ \E l \in Layer : SetTopmost(l)
  \/ \E s \in Surface, r \in Rect : ServerDraws(s, r) \/ EndDraw(s, r)
  \/ \E s \in Surface : BeginDraw(s)
  \/ \E m \in msgs : Composited(m)

Spec == Init /\ [][Next]_vars

-----------------------------------------------------------------------------
(* A client's popup menu in slot 0: DirectReset takes it for the server's  *)
(* own, and drops after the unlock what its client may have drawn since.   *)
(* Of such a menu nothing is promised.                                     *)
ResetEarly == {n \in ClientOwned : InSlot0(n)}

(* What the screen does not show is in the surface's dirty rectangles, and *)
(* the next pass will see that the surface has changed, whatever a client  *)
(* draws while the server composites and resets, and whichever layer's     *)
(* znode 0 notes the age of the screen.                                    *)
NothingLost ==
  \A n \in Node \ ResetEarly :
    /\ stale[Surf(n)] \subseteq dirty_rcs[Surf(n)]
    /\ stale[Surf(n)] # {} => dirty_age[Surf(n)] # changes[n]

(* A surface is locked at most once, and between two layers, and between   *)
(* two passes, every surface is unlocked: no client stays blocked.         *)
AllUnlocked ==
  \A n \in Node : lock_count[n] <= (IF pc \in {"idle", "layer"} THEN 0 ELSE 1)

(* The server notes an age as composited only when the screen shows all    *)
(* that was drawn up to it.                                                *)
NotedIsShown ==
  [][\A n \in Node \ ResetEarly : changes'[n] # changes[n] =>
       stale[Surf(n)] = {} /\ changes'[n] = dirty_age[Surf(n)]]_vars

(* When refresh_dirty_region has composited a layer the screen shows all   *)
(* that was drawn on its visible windows: a surface whose age was noted    *)
(* before has nothing left to merge.                                       *)
RefreshShows ==
  [][pc = "lock" /\ pc' = "unlock" =>
       \A n \in Range(Windows[layer]) \cap visible : stale'[n] = {}]_vars
=============================================================================
