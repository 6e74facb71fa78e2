---------------------------- MODULE VariantHeap ----------------------------
(***************************************************************************)
(* The variant heap of a PurC instance: reference counting, the release of *)
(* nested containers, the reserve of wrappers and the usage statistics.    *)
(*                                                                         *)
(* A place is wherever a purc_variant_t is stored: a variable of the       *)
(* program (Root) or a member position of a container (Member).  Memory    *)
(* is counted in units of sizeof(purc_variant).                            *)
(***************************************************************************)
EXTENDS Integers, Sequences, FiniteSets, Functions

CONSTANTS
  Wrapper,        \* the memory cells malloc can return
  Root,           \* the program's variables
  Index,          \* member positions of one container
  PlainType,      \* number, longint...: the payload is in the wrapper
  SizedType,      \* string and byte sequence: extra memory is accounted
  ContainerType,  \* array, object, set, tuple
  NativeType,     \* native entities: their releaser calls the program back
  Payload,        \* values of the first payload word, sizes included
  UsedConstant,   \* the constant values the program asks for
  MaxReserved,    \* MAX_RESERVED_VARIANTS: 0 in a debug build, else 32
  None            \* PURC_VARIANT_INVALID

HeapType  == PlainType \cup SizedType \cup ContainerType \cup NativeType
ExtraType == SizedType \cup ContainerType
Constant  == {"v_undefined", "v_null", "v_true", "v_false"}
ConstType == {"undefined", "null", "boolean"}
Member    == Wrapper \X Index
Place     == Root \cup Member
Variant   == Wrapper \cup Constant

ASSUME HeapAssumption ==
  /\ MaxReserved \in Nat
  /\ Payload \subseteq Nat
  /\ UsedConstant \subseteq Constant
  /\ IsFiniteSet(Wrapper) /\ IsFiniteSet(Root) /\ IsFiniteSet(Index)
  /\ IsFiniteSet(HeapType)
  /\ Wrapper \cap Constant = {}
  /\ Root \cap Member = {}
  /\ HeapType \cap ConstType = {}
  /\ None \notin Variant

VARIABLES
  inited,           \* inst->variant_heap # NULL
  live,             \* wrappers handed out by pcvariant_get and not yet put
  type, refc, word, \* fields of the wrappers; word is sz_ptr[0], which the
                    \*   other payloads of the union overlay
  place,            \* what each place holds
  releasing,        \* variants being released, the innermost call first
  reserve,          \* heap->v_reserved
  nr_values, sz_mem, nr_total_values, sz_total_mem, nr_reserved  \* heap->stat

cells == <<live, type, refc, word, place, releasing, reserve>>
stat  == <<nr_values, sz_mem, nr_total_values, sz_total_mem, nr_reserved>>
vars  == <<inited, cells, stat>>

-----------------------------------------------------------------------------
(* The program runs when no release is under way, or inside the callback   *)
(* that the releaser of a native variant makes.                            *)
ProgramRuns ==
  /\ inited
  /\ \/ releasing = <<>>
     \/ /\ releasing # <<>>
        /\ type[Head(releasing)] \in NativeType

(* Wrappers that can be reached through containers from the set X.         *)
Closed(S) ==
  \A m \in Member : m[1] \in S /\ place[m] \in Wrapper => place[m] \in S
Reachable(X) ==
  {w \in Wrapper : \A S \in SUBSET Wrapper : X \subseteq S /\ Closed(S) => w \in S}

(* The program gets at its variables and, through containers it holds, at  *)
(* members that it borrows without a reference of its own.                 *)
Held          == {place[r] : r \in Root} \cap Wrapper
Accessible(p) == p \in Member => p[1] \in Reachable(Held)

(* A place the program may fill.  Containers are never put inside          *)
(* themselves.                                                             *)
Fillable(p, v) ==
  /\ place[p] = None
  /\ Accessible(p)
  /\ p \in Member =>
       /\ type[p[1]] \in ContainerType
       /\ v \in Wrapper => p[1] \notin Reachable({v})

-----------------------------------------------------------------------------
ZeroValues == [t \in HeapType \cup ConstType |-> 0]
ConstMem   == [t \in HeapType \cup ConstType |->
                 IF t = "boolean" THEN 2 ELSE IF t \in ConstType THEN 1 ELSE 0]

Init ==
  /\ inited = TRUE
  /\ live = {}
  /\ type = [w \in Wrapper |-> None]
  /\ refc = [v \in Variant |-> 0]
  /\ word = [w \in Wrapper |-> 0]
  /\ place = [p \in Place |-> None]
  /\ releasing = <<>>
  /\ reserve = <<>>
  /\ nr_values = ZeroValues
  /\ sz_mem = ConstMem
  /\ nr_total_values = 4
  /\ sz_total_mem = 4
  /\ nr_reserved = 0

(* pcvariant_stat_set_extra_size for a value of type t: the size old goes  *)
(* out of the account and new comes in.  The other types have no extra     *)
(* size to account.                                                        *)
Extra(t, old, new) == IF t \in ExtraType THEN new - old ELSE 0

(* The first payload word of a wrapper just got: calloc or the explicit    *)
(* reset clears what an earlier value left there.                          *)
StaleWord(w)   == word[w]     \* mutant: the reset is forgotten
ClearedWord(w) == 0

NrStillReserved     == nr_reserved          \* mutant: nr_reserved-- forgotten
NrReservedAfterGet  == nr_reserved - 1

(* list_add_tail, so that the wrapper kept longest is the next one reused. *)
KeptFirst(w) == <<w>> \o reserve     \* mutant: list_add
KeptLast(w)  == Append(reserve, w)

(* pcvariant_get, and the constructor that called it: w becomes a value of *)
(* type t with the payload word n.  When the allocator has nothing left    *)
(* the call returns PURC_VARIANT_INVALID and changes nothing.              *)
Get(w, t, n) ==
  LET extra == Extra(t, ClearedWord(w), n) IN
  /\ live' = live \cup {w}
  /\ type' = [type EXCEPT ![w] = t]
  /\ word' = [word EXCEPT ![w] = n]
  /\ nr_values' = [nr_values EXCEPT ![t] = @ + 1]
  /\ nr_total_values' = nr_total_values + 1
  /\ \/ /\ reserve = <<>>
        /\ w \notin live
        /\ sz_mem' = [sz_mem EXCEPT ![t] = @ + 1 + extra]
        /\ sz_total_mem' = sz_total_mem + 1 + extra
        /\ UNCHANGED <<reserve, nr_reserved>>
     \/ /\ reserve # <<>>
        /\ w = Head(reserve)
        /\ reserve' = Tail(reserve)
        /\ nr_reserved' = NrReservedAfterGet
        /\ sz_mem' = [sz_mem EXCEPT ![t] = @ + extra]
        /\ sz_total_mem' = sz_total_mem + extra

(* The program makes a new value and keeps its only reference in p.        *)
Make(p, w, t, n) ==
  /\ ProgramRuns
  /\ place[p] = None
  /\ Get(w, t, n)
  /\ refc' = [refc EXCEPT ![w] = 1]
  /\ place' = [place EXCEPT ![p] = w]
  /\ UNCHANGED <<inited, releasing>>

(* purc_variant_make_null and the like hand out the constant itself.       *)
MakeConstant(p, c) ==
  /\ ProgramRuns
  /\ place[p] = None
  /\ refc' = [refc EXCEPT ![c] = @ + 1]
  /\ place' = [place EXCEPT ![p] = c]
  /\ UNCHANGED <<inited, live, type, word, releasing, reserve, stat>>

(* purc_variant_ref: what the program finds in q is stored in p as well.   *)
Uncounted(v)  == refc                           \* mutant: refc++ forgotten
Referenced(v) == [refc EXCEPT ![v] = @ + 1]

Ref(q, p) ==
  /\ ProgramRuns
  /\ place[q] # None
  /\ Accessible(q)
  /\ Fillable(p, place[q])
  /\ refc[place[q]] # 0
  /\ refc' = Referenced(place[q])
  /\ place' = [place EXCEPT ![p] = place[q]]
  /\ UNCHANGED <<inited, live, type, word, releasing, reserve, stat>>

(* purc_variant_unref up to the call of the releaser.  A count that drops  *)
(* to zero starts the release, unless the flag PCVRNT_FLAG_NOFREE is set.  *)
DroppedTwice(v) == [refc EXCEPT ![v] = @ - 2]   \* mutant: a double unref
Dropped(v)      == [refc EXCEPT ![v] = @ - 1]

DiesEarly(v) == refc[v] <= 2 /\ v \notin Constant   \* mutant: refc == 1
Dies(v)      == refc[v] = 1 /\ v \notin Constant

Drop(p) ==
  LET v == place[p] IN
  /\ v # None
  /\ refc[v] # 0
  /\ refc' = Dropped(v)
  /\ place' = [place EXCEPT ![p] = None]
  /\ releasing' = IF Dies(v) THEN <<v>> \o releasing ELSE releasing
  /\ UNCHANGED <<inited, live, type, word, reserve, stat>>

(* The program drops a reference, or removes a member of a container.      *)
Unref(p) ==
  /\ ProgramRuns
  /\ Accessible(p)
  /\ Drop(p)

(* The container whose releaser runs drops one of its members.             *)
ReleaseMember(w, i) ==
  /\ releasing # <<>>
  /\ w = Head(releasing)
  /\ Drop(<<w, i>>)

(* The program grows or shrinks the extra memory of a value.               *)
Resize(p, n) ==
  LET w == place[p] IN
  /\ ProgramRuns
  /\ Accessible(p)
  /\ w \in Wrapper
  /\ type[w] \in ExtraType
  /\ word' = [word EXCEPT ![w] = n]
  /\ sz_mem' = [sz_mem EXCEPT ![type[w]] = @ + Extra(type[w], word[w], n)]
  /\ sz_total_mem' = sz_total_mem + Extra(type[w], word[w], n)
  /\ UNCHANGED <<inited, live, type, refc, place, releasing, reserve,
                 nr_values, nr_total_values, nr_reserved>>

(* The releaser of w has nothing left to do.                               *)
MembersForgotten(w) == TRUE                   \* mutant: members are not dropped
Released(w) == \A i \in Index : place[<<w, i>>] = None

(* The end of the releaser, which gives the extra memory back, and         *)
(* pcvariant_put.                                                          *)
Put(w) ==
  LET t     == type[w]
      extra == Extra(t, word[w], 0) IN
  /\ releasing # <<>>
  /\ w = Head(releasing)
  /\ Released(w)
  /\ releasing' = Tail(releasing)
  /\ live' = live \ {w}
  /\ nr_values' = [nr_values EXCEPT ![t] = @ - 1]
  /\ nr_total_values' = nr_total_values - 1
  /\ \/ /\ nr_reserved >= MaxReserved
        /\ sz_mem' = [sz_mem EXCEPT ![t] = @ + extra - 1]
        /\ sz_total_mem' = sz_total_mem + extra - 1
        /\ type' = [type EXCEPT ![w] = None]
        /\ word' = [word EXCEPT ![w] = 0]
        /\ UNCHANGED <<reserve, nr_reserved>>
     \/ /\ nr_reserved < MaxReserved
        /\ reserve' = KeptLast(w)
        /\ nr_reserved' = nr_reserved + 1
        /\ sz_mem' = [sz_mem EXCEPT ![t] = @ + extra]
        /\ sz_total_mem' = sz_total_mem + extra
        /\ word' = [word EXCEPT ![w] = IF t \in ExtraType THEN 0 ELSE @]
        /\ UNCHANGED type
  /\ UNCHANGED <<inited, refc, place>>

(* purc_variant_usage_stat recounts the constants from their references.   *)
UsageStat ==
  /\ ProgramRuns
  /\ nr_values' = [nr_values EXCEPT
                     !["undefined"] = refc["v_undefined"],
                     !["null"]      = refc["v_null"],
                     !["boolean"]   = refc["v_true"] + refc["v_false"]]
  /\ UNCHANGED <<inited, cells, sz_mem, nr_total_values, sz_total_mem,
                 nr_reserved>>

(* _cleanup_instance: the variables and dynamic objects of the instance    *)
(* are roots like the program's, dropped by Unref before the reserve is    *)
(* freed; the code asserts that no constant is referenced any more.        *)
Cleanup ==
  /\ inited
  /\ releasing = <<>>
  /\ \A r \in Root : place[r] = None
  /\ \A c \in Constant : refc[c] = 0
  /\ inited' = FALSE
  /\ reserve' = <<>>
  /\ UNCHANGED <<live, type, refc, word, place, releasing, stat>>

(* _init_instance: a new heap.                                             *)
InitInstance ==
  /\ ~inited
  /\ inited' = TRUE
  /\ reserve' = <<>>
  /\ refc' = [v \in Variant |-> IF v \in Constant THEN 0 ELSE refc[v]]
  /\ nr_values' = ZeroValues
  /\ sz_mem' = ConstMem
  /\ nr_total_values' = 4
  /\ sz_total_mem' = 4
  /\ nr_reserved' = 0
  /\ UNCHANGED <<live, type, word, place, releasing>>

Next ==
  \/ \E p \in Root, w \in Wrapper, t \in HeapType, n \in Payload : Make(p, w, t, n)
  \/ \E p \in Root, c \in UsedConstant : MakeConstant(p, c)
  \/ \E q, p \in Place : Ref(q, p)
  \/ \E p \in Place : Unref(p)
  \/ \E w \in Wrapper, i \in Index : ReleaseMember(w, i)
  \/ \E p \in Place, n \in Payload : Resize(p, n)
  \/ \E w \in Wrapper : Put(w)
  \/ UsageStat
  \/ Cleanup
  \/ InitInstance

Spec == Init /\ [][Next]_vars

-----------------------------------------------------------------------------
(* Types of the heap's variables: the counts are whole numbers, the stack *)
(* of releases and the reserve hold wrappers (struct pcvariant_heap).      *)
TypeOK ==
  /\ inited \in BOOLEAN
  /\ live \in SUBSET Wrapper
  /\ type \in [Wrapper -> HeapType \cup {None}]
  /\ refc \in [Variant -> Nat]
  /\ word \in [Wrapper -> Nat]
  /\ place \in [Place -> Variant \cup {None}]
  /\ releasing \in Seq(Wrapper)
  /\ reserve \in Seq(Wrapper)
  /\ nr_values \in [HeapType \cup ConstType -> Int]
  /\ sz_mem \in [HeapType \cup ConstType -> Int]
  /\ nr_total_values \in Int
  /\ sz_total_mem \in Int
  /\ nr_reserved \in Int

Holders(v) == {p \in Place : place[p] = v}

(* The reference count of a value is the number of places that hold it,    *)
(* whatever mix of program references, memberships and half-released       *)
(* containers they are (purc_variant_ref, purc_variant_unref).             *)
RefcExact == \A v \in live \cup Constant : refc[v] = Cardinality(Holders(v))

(* No place is left pointing at a wrapper that was put back: neither in    *)
(* the reserve nor with the allocator (use after pcvariant_put).           *)
NoDangling == \A p \in Place : place[p] \in live \cup Constant \cup {None}

(* The reserve holds each wrapper once, none that is in use, and as many   *)
(* as nr_reserved says, at most MaxReserved (pcvariant_get, pcvariant_put). *)
ReserveSound ==
  /\ Range(reserve) \cap live = {}
  /\ IsInjective(reserve)
  /\ inited => Len(reserve) = nr_reserved
  /\ Len(reserve) <= MaxReserved

(* Every value in use is reachable from the program, or from a container   *)
(* that is being released: no order of nested unrefs loses a value.        *)
Anchors == Range(releasing) \cup Held
NoLeak == live \subseteq Reachable(Anchors)

(* The totals of purc_variant_usage_stat are what the heap holds: wrappers *)
(* in use and kept, their extra memory, and the four constants.            *)
Extras    == [w \in Wrapper |->
                IF w \in live /\ type[w] \in ExtraType THEN word[w] ELSE 0]
OfType(t) == {w \in live : type[w] = t}
TotalsExact ==
  inited =>
    /\ nr_total_values = 4 + Cardinality(live)
    /\ sz_total_mem = 4 + Cardinality(live) + Len(reserve) + SumFunction(Extras)
    /\ sz_total_mem = SumFunction(sz_mem)
    /\ \A t \in HeapType : nr_values[t] = Cardinality(OfType(t))

(* A value whose release has begun is never referenced again, not even by  *)
(* the callbacks made during the release.                                  *)
NeverRevived ==
  [][\A w \in Range(releasing) : refc[w] = 0 /\ refc'[w] = 0]_vars

(* The inductive invariant behind the safety of the heap.  A value being   *)
(* released is still in use, but nothing refers to it; between a cleanup   *)
(* and the next initialisation nothing is being released.                  *)
ReleasingSound ==
  /\ Range(releasing) \subseteq live
  /\ IsInjective(releasing)
  /\ \A w \in Range(releasing) : refc[w] = 0

LiveTyped == \A w \in live : type[w] \in HeapType

CleanedUp ==
  ~inited => releasing = <<>> /\ reserve = <<>> /\ \A c \in Constant : refc[c] = 0

IInv ==
  /\ TypeOK
  /\ LiveTyped
  /\ ReleasingSound
  /\ CleanedUp
  /\ RefcExact
  /\ NoDangling
  /\ ReserveSound

(* What NoLeak rests on.  Only values in use have members, and no value is *)
(* inside itself, however deep: a value that keeps a reference after a     *)
(* drop is then still reachable without that reference.                    *)
MembersOfLive == \A m \in Member : place[m] # None => m[1] \in live

Acyclic ==
  \A m \in Member : place[m] \in Wrapper => m[1] \notin Reachable({place[m]})

Nesting == MembersOfLive /\ Acyclic /\ NoLeak

(* A heap that was cleaned up is empty, so that the statistics of the next *)
(* one begin with nothing in use.                                          *)
Emptied == ~inited => live = {}

(* The reserve kept in a list is the promised reserve.                     *)
Pool == INSTANCE ReservePool
          WITH Capacity <- MaxReserved, inUse <- live, kept <- reserve
ImplementsPool == Pool!Spec

(* The memory accounted to a type is a size_t: it must not fall below zero *)
(* ("Gets statistic of the memory usage of variants", purc-variant.h).     *)
SzMemNeverWraps == \A t \in HeapType : sz_mem[t] >= 0
=============================================================================
