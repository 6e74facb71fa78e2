---------------------------- MODULE VariantText ----------------------------
(***************************************************************************)
(* What a variant is as a number, a truth value, a text and bytes, and the *)
(* comparisons made by way of these: purc_variant_compare_ex with its four *)
(* methods, and the MD5 and the difference by unique keys that sets find   *)
(* their members by.  A text is a sequence of strings, "\n" and ":" among  *)
(* them; its MD5 is the text itself, as if no two texts had the same one.  *)
(***************************************************************************)
EXTENDS VariantCompare

CONSTANTS
  StringNumber,   \* StringNumber[s]: what strtod makes of string s
  ParsedNumber,   \* ParsedNumber[s]: what pcutils_parse_double makes, or 0
  Rounded,        \* Rounded[n]: the double next to n, for n that is none
  Empty, Newline, Colon, \* three of the strings
  ByteBase,       \* how many values a byte has
  LongBytes,      \* sizeof(long int)
  Getter,         \* what the getter of the dynamic or native variant with
                  \*   an address returns, a scalar, or Invalid
  UniqueKeys      \* UniqueKeys[s]: the unique keys of set s

(* What else a caller may ask for.                                         *)
Asked == {"none", "is_equal_to", "compare_ex", "diff", "case", "caseless", "number", "auto"}

ASSUME TextAssumption ==
  /\ DOMAIN UniqueKeys \cap Asked = {}
  /\ \A s \in DOMAIN UniqueKeys : UniqueKeys[s] \in Seq(String)
  /\ ByteBase \in Nat \ {0, 1} /\ LongBytes \in Nat \ {0} /\ ByteBase ^ LongBytes \in Nat
  /\ StringNumber \in [String -> Int] /\ Rounded \in [DOMAIN Rounded -> Int]
  /\ {Empty, Newline, Colon} \subseteq String
  /\ \A a \in DOMAIN Getter :
       Getter[a] = Invalid \/ (Getter[a].type \in Scalars \ Address /\ WellFormed(Getter[a]))
  /\ \A v \in Value : v.type \in Address => v.x \in DOMAIN Getter
  /\ \A v \in Value : v.type \in Atom => Spell[v.type][v.x] = AtomString[v.x]
  /\ \A v \in Value : v.type = "string" => Spell[v.type][v.x] = v.x

(* The string of an atom or a string.                                      *)
StringOf(v) == IF v.type = "string" THEN v.x ELSE AtomString[v.x]

(* numerify_bs: the last bytes, the first of them the lowest, of a signed  *)
(* integer.                                                                *)
NumerifyBytes(b) ==
  LET from == Larger(0, Len(b) - LongBytes)
      f[i \in 0 .. Len(b) - from] == IF i = 0 THEN 0 ELSE f[i - 1] * ByteBase + b[Len(b) + 1 - i]
      limit == ByteBase ^ LongBytes
      n == f[Len(b) - from]
  IN  IF 2 * n >= limit THEN n - limit ELSE n

ByAtom(v) == v.x                         \* mutant: like an exception
ByString(v) == StringNumber[AtomString[v.x]]

SumOf(s) == LET f[i \in 0 .. Len(s)] == IF i = 0 THEN 0 ELSE f[i - 1] + s[i] IN f[Len(s)]

ToDouble(n) == IF n \in DOMAIN Rounded THEN Rounded[n] ELSE n

NumerifyScalar(v) ==
  CASE v.type \in {"undefined", "null", "invalid"} -> 0
    [] v.type \in {"number", "boolean", "exception"} -> v.x
    [] v.type \in OfNumber \ {"number"} -> ToDouble(v.x)
    [] v.type = "atomstring" -> ByString(v)
    [] v.type = "string"     -> StringNumber[v.x]
    [] v.type = "bsequence"  -> ToDouble(NumerifyBytes(v.x))
NumerifyStep(N, v) ==
  CASE v.type = "object"     -> SumOf([i \in 1 .. Len(v.x) |-> N[v.x[i][2]]])
    [] v.type \in Container \ {"object"} -> SumOf([i \in 1 .. Len(v.x) |-> N[v.x[i]]])
    [] v.type \in Address    -> NumerifyScalar(Getter[v.x])
    [] OTHER                 -> NumerifyScalar(v)
NumerifyAt[d \in 0 .. Depth] ==
  [v \in Any |-> IF d = 0 THEN 0 ELSE NumerifyStep(NumerifyAt[d - 1], v)]
Numerify(v) == NumerifyAt[Depth][v]

BooleanizeScalar(v) ==
  CASE v.type \in {"undefined", "null", "invalid"} -> FALSE
    [] v.type \in OfNumber \cup {"boolean"} -> v.x # 0
    [] v.type \in Atom \cup {"string"} -> StringOf(v) # Empty
    [] OTHER -> v.x # << >>
Booleanize(v) ==
  IF v.type \in Address THEN BooleanizeScalar(Getter[v.x]) ELSE BooleanizeScalar(v)

(* variant_stringify: every member ends with a newline.                    *)
Line(text) == text \o <<Newline>>
KeyValue(key, text) == <<key, Colon>> \o Line(text)
Concat(parts) ==
  LET f[i \in 0 .. Len(parts)] == IF i = 0 THEN << >> ELSE f[i - 1] \o parts[i] IN f[Len(parts)]
StringifyStep(S, v) ==
  CASE v.type = "object" -> Concat([i \in 1 .. Len(v.x) |-> KeyValue(v.x[i][1], S[v.x[i][2]])])
    [] v.type \in Container \ {"object"} -> Concat([i \in 1 .. Len(v.x) |-> Line(S[v.x[i]])])
    [] OTHER -> <<Spell[v.type][v.x]>>
StringifyAt[d \in 0 .. Depth] ==
  [v \in Any |-> IF d = 0 THEN << >> ELSE StringifyStep(StringifyAt[d - 1], v)]
Stringify(v) == StringifyAt[Depth][v]

(* purc_variant_cast_to_number and _longdouble; None when they fail.       *)
CastFails == "failed"
CastToNumber(v, force) ==
  CASE v.type \in OfNumber -> v.x
    [] v.type = "null" /\ force -> 0
    [] v.type = "boolean" /\ force -> v.x
    [] v.type \in {"atomstring", "string"} /\ force -> ParsedNumber[StringOf(v)]
    [] v.type = "bsequence" /\ force -> 0       \* none of the bytes is a digit
    [] OTHER -> CastFails

(* purc_variant_cast_to_byte_sequence: a string with its terminating zero. *)
CastToBytes(v) ==
  CASE v.type \in {"atomstring", "string"} -> <<"string", StringOf(v)>>
    [] v.type = "bsequence" -> <<"bytes", v.x>>
    [] OTHER -> <<CastFails, 0>>

-----------------------------------------------------------------------------
(* purc_variant_compare_ex.                                                *)
CompareNumbers(a, b) ==
  IF EqualDoubles(Numerify(a), Numerify(b)) THEN 0
  ELSE IF Numerify(a) < Numerify(b) THEN -1 ELSE 1

(* strcmp or strcasecmp on the texts: the first strings that differ decide.*)
FoldText(t) == [i \in DOMAIN t |-> Fold[t[i]]]
CompareTexts(s, t) == Decide(ByteDiffs(s, t), s, t)

FoldedOnce(a, b, method) ==              \* mutant: only one side is folded
  IF method = "caseless" THEN CompareTexts(FoldText(Stringify(a)), Stringify(b))
  ELSE CompareTexts(Stringify(a), Stringify(b))
CompareStrings(a, b, method) ==
  IF method = "caseless" THEN CompareTexts(FoldText(Stringify(a)), FoldText(Stringify(b)))
  ELSE CompareTexts(Stringify(a), Stringify(b))

ByNumber(a, method) == method = "number" \/ (method = "auto" /\ a.type \in OfNumber)
CompareBy(a, b, method) ==
  IF ByNumber(a, method) THEN CompareNumbers(a, b) ELSE CompareStrings(a, b, method)

(* pcvariant_md5_by_set: the unique keys and their values, "undefined" for *)
(* a key that is missing; a member that is not an object is "undefined".   *)
KeyOf(v, key) ==
  IF v.type # "object" \/ Property(v, key) = Invalid THEN Undefined ELSE Property(v, key)

MD5BySet(v, keys) ==
  IF keys = << >> THEN Stringify(v)
  ELSE IF v.type # "object" THEN Stringify(Undefined)
  ELSE Concat([i \in DOMAIN keys |-> KeyValue(keys[i], Stringify(KeyOf(v, keys[i])))])

(* pcvariant_diff_by_set: the MD5s decide, then the values key by key.     *)
DiffBySet(v, w, keys, past) ==
  IF keys = << >> THEN Diff(v, w, past)
  ELSE LET digests == CompareTexts(MD5BySet(v, keys), MD5BySet(w, keys))
           diffs == [i \in DOMAIN keys |-> Diff(KeyOf(v, keys[i]), KeyOf(w, keys[i]), past)]
       IN  IF digests # 0 THEN digests ELSE Decide(diffs, << >>, << >>)

-----------------------------------------------------------------------------
(* A caller asks for one of these; they have none of the options.          *)
NoOption == ~caseless /\ ~unify /\ beyond = 0

CompareByMethod ==
  /\ op = "none" /\ NoOption
  /\ \E method \in {"case", "caseless", "number", "auto"} :
       /\ l # Invalid /\ r # Invalid
       /\ op' = method
       /\ result' = CompareBy(l, r, method)
  /\ UNCHANGED <<l, r, caseless, unify, beyond>>

(* Members of a set whose key values are scalars: containers of one kind   *)
(* are compared by code that is not under src/.                            *)
ScalarKeys(v, keys) ==
  IF keys = << >> THEN v.type \notin Container
  ELSE \A i \in DOMAIN keys : KeyOf(v, keys[i]).type \notin Container

CompareInSet ==
  /\ op = "none" /\ ~caseless /\ ~unify
  /\ \E set \in DOMAIN UniqueKeys :
       /\ l # Invalid /\ r # Invalid
       /\ ScalarKeys(l, UniqueKeys[set]) /\ ScalarKeys(r, UniqueKeys[set])
       /\ op' = set
       /\ result' = DiffBySet(l, r, UniqueKeys[set], beyond)
  /\ UNCHANGED <<l, r, caseless, unify, beyond>>

TextNext == Next \/ CompareByMethod \/ CompareInSet
TextSpec == Init /\ [][TextNext]_vars

(* Two variants that purc_variant_is_equal_to calls equal are the same     *)
(* number, truth value, text and bytes; and two members of a set with      *)
(* unique keys are the same member exactly when pcvariant_diff finds no    *)
(* difference between the values of any key, whatever their MD5s say, but  *)
(* for an object without any of the keys and a member that is no object,   *)
(* and values that are byte sequences in their wrapper.                    *)
EqualSubstitutes ==
  /\ (op = "is_equal_to" /\ result = 1 /\ l # Invalid /\ Apart(l, r)
        /\ \A n \in Numbers(l) \cup Numbers(r) : ~IsInfinite(n)) =>
       /\ Numerify(l) = Numerify(r) /\ Booleanize(l) = Booleanize(r)
       /\ Stringify(l) = Stringify(r) /\ CastToBytes(l) = CastToBytes(r)
       /\ \A force \in BOOLEAN : CastToNumber(l, force) = CastToNumber(r, force)
  /\ (op \in DOMAIN UniqueKeys /\ UniqueKeys[op] # << >>
        /\ (l.type = "object") = (r.type = "object")
        /\ \A i \in DOMAIN UniqueKeys[op], v \in {l, r} : ~Short(KeyOf(v, UniqueKeys[op][i]))) =>
       (result = 0) =
         \A i \in DOMAIN UniqueKeys[op] :
           DiffWith(KeyOf(l, UniqueKeys[op][i]), KeyOf(r, UniqueKeys[op][i])) = 0

(* Swapping the two variants swaps the answer of pcvar_compare_ex and of   *)
(* every method of purc_variant_compare_ex, but for the automatic one      *)
(* between a number and something else: it looks at the first type only.   *)
SameKind == (l.type \in OfNumber) = (r.type \in OfNumber)
Swaps ==
  /\ Antisymmetric
  /\ \/ op \in {"case", "caseless"}
     \/ op \in {"number", "auto"} /\ (op = "auto" => SameKind)
          /\ \A v \in {l, r} : ~IsInfinite(Numerify(v))
     => CompareBy(r, l, op) = -result
=============================================================================
