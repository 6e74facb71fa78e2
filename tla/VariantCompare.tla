--------------------------- MODULE VariantCompare ---------------------------
(***************************************************************************)
(* How variant.c compares two variants: purc_variant_is_equal_to, the      *)
(* structural pcvar_compare_ex, and pcvariant_diff, by which sets order    *)
(* and find their members.  A value is [type, x]; a string is its position *)
(* in strcmp order, a container the sequence of its members in the order   *)
(* its list or tree gives them, an object's members are <<key, value>>.    *)
(* l and r are two variants even when their values are the same: a variant *)
(* compared with itself is answered by its address.  NaN is left out.      *)
(***************************************************************************)
EXTENDS Integers, Sequences, FiniteSets

CONSTANTS
  Value,        \* the variants that are compared, and their members
  Depth,        \* how many of them are nested in one another, at most
  Fold,         \* Fold[s]: position of string s in strcasecmp order
  Spell,        \* Spell[type][x]: the string a scalar is spelled as
  AtomString,   \* AtomString[a]: the string of atom a, of any bucket
  Epsilon,      \* 1 / DBL_EPSILON
  Infinity,     \* larger than any finite number in Value
  InlineBytes   \* a byte sequence of no more bytes lives in the wrapper itself


(* Types in the order of enum purc_variant_type.                           *)
TypeNames ==
  <<"undefined", "null", "boolean", "exception", "number", "longint", "ulongint",
    "longdouble", "atomstring", "string", "bsequence", "dynamic", "native",
    "object", "array", "set", "tuple">>
Types == {TypeNames[i] : i \in 1 .. 17}
TypeNo(type) == CHOOSE i \in 1 .. 17 : TypeNames[i] = type
Invalid == [type |-> "invalid", x |-> 0]    \* PURC_VARIANT_INVALID
Undefined == [type |-> "undefined", x |-> 0]
Any == Value \cup {Invalid, Undefined}
Aborts == 2                                  \* a PC_ASSERT fails

Float == {"number", "longdouble"}
OfNumber == {"number", "longint", "ulongint", "longdouble"}
Atom == {"exception", "atomstring"}
Address == {"dynamic", "native"}
Container == {"object", "array", "set", "tuple"}

String == DOMAIN Fold
ScalarOf(type) ==
  CASE type \in {"undefined", "null"} -> {0}
    [] type = "boolean"  -> {0, 1}
    [] type \in OfNumber -> Int
    [] type \in Atom     -> DOMAIN AtomString
    [] type = "string"   -> String
    [] type = "bsequence" -> Seq(Nat)
    [] OTHER             -> Nat                \* addresses
Scalars == Types \ Container

(* What a container holds; the keys of an object are in strcmp order.      *)
Members(v) == IF v.type = "object" THEN {v.x[i][2] : i \in 1 .. Len(v.x)}
              ELSE IF v.type \in Container THEN {v.x[i] : i \in 1 .. Len(v.x)}
              ELSE {}
KeysSorted(x) == \A i, j \in 1 .. Len(x) : i < j => x[i][1] < x[j][1]

WellFormed(v) ==
  /\ v = [type |-> v.type, x |-> v.x]
  /\ \/ v.type \in Scalars /\ v.x \in ScalarOf(v.type)
     \/ v.type \in Container \ {"object"} /\ v.x \in Seq(Value \ {Invalid})
     \/ v.type = "object" /\ v.x \in Seq(String \X (Value \ {Invalid})) /\ KeysSorted(v.x)

(* The values that nest at most d levels, themselves included.             *)
Nests[d \in 0 .. Depth] ==
  IF d = 0 THEN {} ELSE {v \in Value : Members(v) \subseteq Nests[d - 1]}

ASSUME CompareAssumption ==
  /\ Epsilon \in Nat \ {0} /\ Infinity \in Nat /\ IsFiniteSet(Value)
  /\ Depth \in Nat /\ Value \subseteq Nests[Depth] /\ InlineBytes \in Nat
  /\ \A v \in Value \ {Invalid} : WellFormed(v)
  /\ String \subseteq Int /\ Fold \in [String -> Int] /\ AtomString \in Seq(String)
  /\ \A v \in Any : v.type \in Scalars => Spell[v.type][v.x] \in String
  /\ \A v, w \in Value :                     \* the exceptions are of one bucket
       v.type = "exception" /\ w.type = "exception" /\ v.x # w.x => AtomString[v.x] # AtomString[w.x]

(* The sign of a comparison.                                               *)
Sgn(a, b) == IF a < b THEN -1 ELSE IF a > b THEN 1 ELSE 0
Abs(a) == IF a < 0 THEN -a ELSE a
Larger(a, b) == IF a > b THEN a ELSE b
IsInfinite(a) == Abs(a) = Infinity

(* equal_doubles, equal_long_doubles: |a - b| <= max(|a|, |b|) * EPSILON.  *)
(* With an infinite operand the right side is infinite, and so is the left *)
(* one, unless both are the same infinity: then it is NaN.                 *)
EqualDoubles(a, b) ==
  IF IsInfinite(a) \/ IsInfinite(b) THEN a # b
  ELSE Abs(a - b) * Epsilon <= Larger(Abs(a), Abs(b))

-----------------------------------------------------------------------------
(* purc_variant_is_equal_to.  E[a][b]: whether the members a and b, which  *)
(* nest less deep, are equal.                                              *)
AnySize(l, r) == Len(l.x) <= Len(r.x)       \* mutant: the sizes may differ
SameSize(l, r) == Len(l.x) = Len(r.x)

(* equal_arrays, equal_tuples, and equal_sets: pairwise.                   *)
EqualMembers(E, l, r) == SameSize(l, r) /\ \A i \in 1 .. Len(l.x) : E[l.x[i]][r.x[i]]

(* equal_objects: every key of one leads to an equal value in the other.   *)
Property(o, key) ==
  IF \E i \in 1 .. Len(o.x) : o.x[i][1] = key
  THEN o.x[CHOOSE i \in 1 .. Len(o.x) : o.x[i][1] = key][2] ELSE Invalid
EqualObjects(E, l, r) ==
  SameSize(l, r) /\ \A i \in 1 .. Len(l.x) : E[l.x[i][2]][Property(r, l.x[i][1])]

EqualStep(E, l, r) ==
  /\ l.type = r.type
  /\ CASE l.type \in {"invalid", "undefined", "null"} -> TRUE
       [] l.type \in Float    -> EqualDoubles(l.x, r.x)
       [] l.type = "atomstring" -> AtomString[l.x] = AtomString[r.x]
       [] l.type = "object"   -> EqualObjects(E, l, r)
       [] l.type \in Container \ {"object"} -> EqualMembers(E, l, r)
       [] OTHER               -> l.x = r.x

EqualAt[d \in 0 .. Depth] ==                 \* of values that nest d levels
  [v \in Any |-> [w \in Any |-> d = 0 \/ EqualStep(EqualAt[d - 1], v, w)]]
Equal(l, r) == EqualAt[Depth][l][r]

-----------------------------------------------------------------------------
(* pcvar_compare_ex.  C[a][b]: the sign of members.  `beyond` is what      *)
(* memcmp finds where none of the bytes is: past the end of the second     *)
(* byte sequence, or at the address and over the length that sz_ptr holds  *)
(* of a sequence that lives in the wrapper, its own bytes and whatever the *)
(* wrapper held behind them.  (Or it crashes, and there is no answer.)     *)
Common(l, r) == 1 .. (IF Len(l) < Len(r) THEN Len(l) ELSE Len(r))
FirstIn(S) == CHOOSE i \in S : \A j \in S : i <= j

LengthDiff(l, r) == Sgn(Len(l), Len(r))

(* The first pair of members that differ decides, then the length.         *)
Decide(diffs, l, r) ==
  LET differ == {i \in DOMAIN diffs : diffs[i] # 0}
  IN  IF differ # {} THEN diffs[FirstIn(differ)] ELSE LengthDiff(l, r)
ByteDiffs(l, r) == [i \in Common(l, r) |-> Sgn(l[i], r[i])]

Inline(b) == Len(b) <= InlineBytes
Short(v) == v.type = "bsequence" /\ Inline(v.x)

(* A longer first sequence is read to its own length in both buffers.      *)
CompareBytes(l, r, beyond) ==
  LET order == Decide(ByteDiffs(l, r), l, r)
      prefix == \A i \in Common(l, r) : l[i] = r[i]
  IN  IF Inline(l) \/ Inline(r) THEN beyond
      ELSE IF Len(l) > Len(r) /\ prefix /\ beyond # 0 THEN beyond ELSE order

(* Different numeric types are compared by value when unify_number is set. *)
PartlyUnified(l, r, unify) ==                \* mutant: integers are left out
  l.type \in OfNumber /\ r.type \in OfNumber
    /\ (unify \/ l.type = "number" \/ r.type = "number")
Unified(l, r, unify) == unify /\ l.type \in OfNumber /\ r.type \in OfNumber

MemberDiffs(C, l, r) == [i \in Common(l, r) |-> C[l[i]][r[i]]]
PairDiffs(C, l, r) ==
  [i \in Common(l, r) |-> IF l[i][1] # r[i][1] THEN Sgn(l[i][1], r[i][1]) ELSE C[l[i][2]][r[i][2]]]

SameTypeStep(C, l, r, caseless, beyond) ==
  CASE l.type \in {"undefined", "null"} -> 0
    [] l.type \in Float ->
         IF EqualDoubles(l.x, r.x) THEN 0 ELSE IF l.x < r.x THEN -1 ELSE 1
    [] l.type = "string" ->
         IF caseless THEN Sgn(Fold[l.x], Fold[r.x]) ELSE Sgn(l.x, r.x)
    [] l.type = "bsequence" -> CompareBytes(l.x, r.x, beyond)
    [] l.type \in Address -> IF l.x = r.x THEN 1 ELSE 0   \* memcmp(...) == 0
    [] l.type = "object" -> Decide(PairDiffs(C, l.x, r.x), l.x, r.x)
    [] l.type \in Container \ {"object"} -> Decide(MemberDiffs(C, l.x, r.x), l.x, r.x)
    [] OTHER -> Sgn(l.x, r.x)             \* booleans, integers, atoms

CompareStep(C, l, r, caseless, unify, beyond) ==
  IF l = Invalid \/ r = Invalid
    THEN IF l = r THEN 0 ELSE IF l = Invalid THEN -1 ELSE 1
  ELSE IF Unified(l, r, unify)
    THEN IF IsInfinite(l.x) \/ IsInfinite(r.x) THEN Aborts
         ELSE IF EqualDoubles(l.x, r.x) THEN 0 ELSE Sgn(l.x, r.x)
  ELSE IF l.type # r.type THEN Sgn(TypeNo(l.type), TypeNo(r.type))
  ELSE SameTypeStep(C, l, r, caseless, beyond)

CompareAt(caseless, unify, beyond) ==
  LET at[d \in 0 .. Depth] ==
        [v \in Any |-> [w \in Any |->
           IF d = 0 THEN 0 ELSE CompareStep(at[d - 1], v, w, caseless, unify, beyond)]]
  IN  at
Compare(l, r, caseless, unify, beyond) == CompareAt(caseless, unify, beyond)[Depth][l][r]

-----------------------------------------------------------------------------
(* pcvariant_diff: scalar_diff with METHOD_CASE.  A container and a scalar,*)
(* or two kinds of container, differ by type; two containers of one kind   *)
(* are walked by code that is not under src/.                              *)
BytesOnly(l, r, beyond) ==                   \* mutant: not the length
  IF Inline(l) \/ Inline(r) THEN beyond ELSE Decide(ByteDiffs(l, r), << >>, << >>)
BytesDiff(l, r, beyond) ==
  IF Inline(l) \/ Inline(r) THEN beyond ELSE Decide(ByteDiffs(l, r), l, r)

SameTypeDiff(l, r, beyond) ==
  CASE l.type \in {"undefined", "null"} -> 0
    [] l.type = "bsequence" -> BytesDiff(l.x, r.x, beyond)
    [] l.type \in Atom -> Sgn(AtomString[l.x], AtomString[r.x])
    [] OTHER -> Sgn(l.x, r.x)                 \* addresses by memcmp

Diff(l, r, beyond) ==
  IF l = Invalid \/ r = Invalid
    THEN IF l = r THEN 0 ELSE IF l = Invalid THEN -1 ELSE 1
  ELSE IF {l.type, r.type} \cap Container # {} THEN Sgn(TypeNo(l.type), TypeNo(r.type))
  ELSE IF l.type = r.type THEN SameTypeDiff(l, r, beyond)
  ELSE IF "bsequence" \in {l.type, r.type} THEN Aborts
  ELSE Sgn(Spell[l.type][l.x], Spell[r.type][r.x])

-----------------------------------------------------------------------------
(* A caller asks one of the three of two variants.                         *)
VARIABLES l, r, caseless, unify, beyond, op, result
vars == <<l, r, caseless, unify, beyond, op, result>>

Init ==
  /\ l \in Value /\ r \in Value
  /\ caseless \in BOOLEAN /\ unify \in BOOLEAN
  /\ beyond \in {-1, 0, 1}
  /\ op = "none" /\ result = 0

IsEqualTo ==
  /\ op = "none" /\ op' = "is_equal_to"
  /\ result' = IF Equal(l, r) THEN 1 ELSE 0
  /\ UNCHANGED <<l, r, caseless, unify, beyond>>

CompareEx ==
  /\ op = "none" /\ op' = "compare_ex"
  /\ result' = Compare(l, r, caseless, unify, beyond)
  /\ UNCHANGED <<l, r, caseless, unify, beyond>>

DiffOf ==
  /\ op = "none" /\ op' = "diff"
  /\ l.type = r.type => l.type \notin Container
  /\ result' = Diff(l, r, beyond)
  /\ UNCHANGED <<l, r, caseless, unify, beyond>>

Next == IsEqualTo \/ CompareEx \/ DiffOf

Spec == Init /\ [][Next]_vars

-----------------------------------------------------------------------------
(* A value and everything in it.                                           *)
PartsAt[d \in 0 .. Depth] ==
  [v \in Any |-> IF d = 0 THEN {} ELSE {v} \cup UNION {PartsAt[d - 1][m] : m \in Members(v)}]
Parts(v) == PartsAt[Depth][v]

Numbers(v) == {p.x : p \in {q \in Parts(v) : q.type \in OfNumber}}
(* Neither infinities nor what is compared the wrong way: addresses, and   *)
(* byte sequences in the wrapper, whose content is taken for an address.   *)
Exact(v) == /\ \A p \in Parts(v) : p.type \notin Address /\ ~Short(p)
            /\ \A n \in Numbers(v) : ~IsInfinite(n)
(* Different numbers are not so close that they count as equal.            *)
Apart(v, w) == \A m \in Numbers(v), n \in Numbers(w) : m # n => ~EqualDoubles(m, n)
(* One atom per string.                                                    *)
OneBucket(v, w) ==
  \A p \in Parts(v), q \in Parts(w) :
    p.type = "atomstring" /\ q.type = "atomstring" /\ p.x # q.x => AtomString[p.x] # AtomString[q.x]

CompareWith(v, w) == Compare(v, w, caseless, unify, beyond)

(* Swapping the two variants swaps the answer of pcvar_compare_ex, through *)
(* every level of nested containers, except for infinities, addresses, the *)
(* byte sequences in a wrapper and the one read past its end.              *)
Antisymmetric ==
  (op = "compare_ex" /\ Exact(l) /\ Exact(r) /\ beyond # -1)
    => CompareWith(r, l) = -result

(* pcvar_compare_ex, with neither option, finds no difference between just *)
(* the variants purc_variant_is_equal_to calls equal, although the two     *)
(* walk objects, sets and byte sequences in different ways.                *)
ZeroIsEqual ==
  (op = "compare_ex" /\ ~caseless /\ ~unify /\ Exact(l) /\ Exact(r) /\ OneBucket(l, r))
    => (result = 0) = Equal(l, r)

(* pcvar_compare_ex is a preorder: with unify_number, too, where numbers   *)
(* of four types mix with types ordered by their number.                   *)
Transitive ==
  (op = "compare_ex" /\ beyond # -1 /\ Exact(l) /\ Exact(r) /\ Apart(l, r) /\ result <= 0) =>
    \A m \in {v \in Value : Exact(v) /\ Apart(l, v) /\ Apart(r, v)} :
      CompareWith(r, m) <= 0 =>
        /\ CompareWith(l, m) <= 0
        /\ CompareWith(l, m) = 0 => result = 0 /\ CompareWith(r, m) = 0

(* The scalars an order holds among: all of one type, or those of the same *)
(* type, if different, ordered as they are spelled, no byte sequence among *)
(* them.  (The numbers 5 and 10 and the string "5" are no such three.)     *)
Spelled == Atom \cup {"string", "undefined", "null"}
Scalar(v) == v.type \in Scalars /\ ~Short(v)
Ordered(a, b, c) ==
  /\ Scalar(a) /\ Scalar(b) /\ Scalar(c)
  /\ \/ a.type = b.type /\ b.type = c.type
     \/ /\ "bsequence" \notin {a.type, b.type, c.type}
        /\ \A p, q \in {a, b, c} : p.type = q.type /\ p # q => p.type \in Spelled

(* Sets find their members by pcvariant_diff.  Of one type it finds no     *)
(* difference between just the equal scalars; swapping swaps the answer;   *)
(* and it orders the scalars, of different types too, where each two of a  *)
(* type are ordered as they are spelled.                                   *)
DiffWith(v, w) == Diff(v, w, beyond)
DiffOrders ==
  (op = "diff" /\ Scalar(l) /\ Scalar(r)) =>
    /\ (l.type = r.type /\ (\A n \in Numbers(l) : ~IsInfinite(n)) /\ Apart(l, r))
         => (result = 0) = Equal(l, r)
    /\ result # Aborts => DiffWith(r, l) = -result
    /\ \A m \in Value : (Ordered(l, r, m) /\ result <= 0 /\ DiffWith(r, m) <= 0) =>
         /\ DiffWith(l, m) <= 0
         /\ DiffWith(l, m) = 0 => result = 0 /\ DiffWith(r, m) = 0

=============================================================================
