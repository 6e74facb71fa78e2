---------------------------- MODULE VariantCast ----------------------------
(***************************************************************************)
(* purc_variant_cast_to_int32, _uint32, _longint and _ulongint: what a     *)
(* variant becomes as an integer, with and without force.  The limits of   *)
(* the C types are parameters; a floating-point value is counted in        *)
(* halves, so that fractions exist.                                        *)
(***************************************************************************)
EXTENDS Integers

CONSTANTS
  INT32_MAX, INT64_MAX,
  Halves,        \* finite long doubles, in halves
  NumberHalves,  \* those of them that are doubles
  Disguised,     \* those whose long double mantissa, read as a double, is -inf
  Parsed,        \* integers that strings spell
  Bad            \* what other strings parse to

INT32_MIN == -INT32_MAX - 1
UINT32_MAX == 2 * INT32_MAX + 1
INT64_MIN == -INT64_MAX - 1
UINT64_MAX == 2 * INT64_MAX + 1

ASSUME CastAssumption ==
  /\ INT32_MAX \in Nat \ {0} /\ INT64_MAX \in Nat
  /\ UINT32_MAX < INT64_MAX
  /\ Halves \subseteq Int /\ NumberHalves \subseteq Halves /\ Disguised \subseteq Halves
  /\ Parsed \subseteq Int /\ Bad \notin Int

Float(S) == [kind : {"finite"}, halves : S] \cup [kind : {"inf", "-inf", "nan"}, halves : {0}]

Value ==
  [type : {"null", "container"}, x : {0}]
    \cup [type : {"boolean"}, x : {0, 1}]
    \cup [type : {"number"}, x : Float(NumberHalves)]
    \cup [type : {"longdouble"}, x : Float(Halves)]
    \cup [type : {"longint"}, x : INT64_MIN .. INT64_MAX]
    \cup [type : {"ulongint"}, x : 0 .. UINT64_MAX]
    \cup [type : {"string"}, x : Parsed \cup {Bad}]

(* A cast fails, or writes a value and returns true.                       *)
Failed == [ok |-> FALSE, out |-> 0]
Done(n) == [ok |-> TRUE, out |-> n]
ForceIgnored(force, n) == Done(n)            \* mutant: force is not looked at
ForceInverted(force, n) == IF force THEN Failed ELSE Done(n)  \* mutant
IfForced(force, n) == IF force THEN Done(n) ELSE Failed
Unsigned(n, max) == n % (max + 1)
Signed(n, max) == ((n + max + 1) % (2 * (max + 1))) - (max + 1)

-----------------------------------------------------------------------------
(* Floating-point sources.                                                 *)
AtMost(f, n) == f.kind = "-inf" \/ (f.kind = "finite" /\ f.halves <= 2 * n)
Under(f, n) == f.kind = "-inf" \/ (f.kind = "finite" /\ f.halves < 2 * n)
AtLeast(f, n) == f.kind = "inf" \/ (f.kind = "finite" /\ f.halves >= 2 * n)

(* The C conversion drops the fraction.                                    *)
Whole(h) == IF h >= 0 THEN h \div 2 ELSE -((-h) \div 2)

Within(f, tooLow, low, tooHigh, high) ==
  IF f.kind = "nan" THEN Failed
  ELSE IF tooLow THEN low
  ELSE IF tooHigh THEN high
  ELSE Done(Whole(f.halves))

(* For a long double the signed casts ask isinf(v->d), which reads the low *)
(* half of the long double's bytes as a double.                            *)
LooksInfinite(f) == f.kind = "finite" /\ f.halves \in Disguised

(* The limits are converted to double before they are compared: INT64_MAX  *)
(* and UINT64_MAX become the next power of two.                            *)
NumberToSigned(f, min, maxAsDouble, max, force) ==
  Within(f, AtMost(f, min), IfForced(force, min),
            AtLeast(f, maxAsDouble), IfForced(force, max))

LongDoubleToSigned(f, min, max, force) ==
  Within(f, LooksInfinite(f) \/ AtMost(f, min), IfForced(force, min),
            AtLeast(f, max), IfForced(force, max))

NoLowLimit(f, maxAsDouble, max, force) ==    \* mutant: negative numbers pass
  Within(f, FALSE, Failed, AtLeast(f, maxAsDouble), IfForced(force, max))
NumberToUnsigned(f, maxAsDouble, max, force) ==
  Within(f, AtMost(f, 0), IfForced(force, 0),
            AtLeast(f, maxAsDouble), IfForced(force, max))

(* Above the limit a long double is cut to it, forced or not.              *)
LongDoubleToUnsigned(f, max, force) ==
  Within(f, Under(f, 0), IfForced(force, 0), AtLeast(f, max), Done(max))

(* pcutils_parse_* (not under src/): the number, or 0 when there is none.  *)
StringTo(x, min, max, force) ==
  IfForced(force, IF x # Bad /\ x \in min .. max THEN x ELSE 0)

-----------------------------------------------------------------------------
ToInt32(v, force) ==
  CASE v.type \in {"null", "boolean"} -> IfForced(force, v.x)
    [] v.type = "number"     -> NumberToSigned(v.x, INT32_MIN, INT32_MAX, INT32_MAX, force)
    [] v.type = "longint"    -> IF v.x >= INT32_MIN /\ v.x <= INT32_MAX THEN Done(v.x)
                                ELSE IfForced(force, Signed(v.x, INT32_MAX))
    [] v.type = "ulongint"   -> IF v.x <= INT32_MAX THEN Done(v.x)
                                ELSE IfForced(force, Signed(v.x, INT32_MAX))
    [] v.type = "longdouble" -> LongDoubleToSigned(v.x, INT32_MIN, INT32_MAX, force)
    [] v.type = "string"     -> StringTo(v.x, INT32_MIN, INT32_MAX, force)
    [] OTHER -> Failed

ToUint32(v, force) ==
  CASE v.type \in {"null", "boolean"} -> IfForced(force, v.x)
    [] v.type = "number"     -> NumberToUnsigned(v.x, UINT32_MAX, UINT32_MAX, force)
    [] v.type = "longint"    -> IF v.x < 0 THEN IfForced(force, Unsigned(v.x, UINT32_MAX))
                                ELSE Done(Unsigned(v.x, UINT32_MAX))
    [] v.type = "ulongint"   -> IF v.x < UINT32_MAX THEN Done(v.x)
                                ELSE IfForced(force, Unsigned(v.x, UINT32_MAX))
    [] v.type = "longdouble" -> LongDoubleToUnsigned(v.x, UINT32_MAX, force)
    [] v.type = "string"     -> StringTo(v.x, 0, UINT32_MAX, force)
    [] OTHER -> Failed

ToLongint(v, force) ==
  CASE v.type \in {"null", "boolean"} -> IfForced(force, v.x)
    [] v.type = "number"     -> NumberToSigned(v.x, INT64_MIN, INT64_MAX + 1, INT64_MAX, force)
    [] v.type = "longint"    -> Done(v.x)
    [] v.type = "ulongint"   -> IF v.x <= INT64_MAX THEN Done(v.x)
                                ELSE IfForced(force, Signed(v.x, INT64_MAX))
    [] v.type = "longdouble" -> LongDoubleToSigned(v.x, INT64_MIN, INT64_MAX, force)
    [] v.type = "string"     -> StringTo(v.x, INT64_MIN, INT64_MAX, force)
    [] OTHER -> Failed

ToUlongint(v, force) ==
  CASE v.type \in {"null", "boolean"} -> IfForced(force, v.x)
    [] v.type = "number"     -> NumberToUnsigned(v.x, UINT64_MAX + 1, UINT64_MAX, force)
    [] v.type = "longint"    -> IF v.x < 0 THEN IfForced(force, Unsigned(v.x, UINT64_MAX))
                                ELSE Done(v.x)
    [] v.type = "ulongint"   -> Done(v.x)
    [] v.type = "longdouble" -> LongDoubleToUnsigned(v.x, UINT64_MAX, force)
    [] v.type = "string"     -> StringTo(v.x, 0, UINT64_MAX, force)
    [] OTHER -> Failed

Target == {"int32", "uint32", "longint", "ulongint"}

Cast(t, v, force) ==
  CASE t = "int32"   -> ToInt32(v, force)
    [] t = "uint32"  -> ToUint32(v, force)
    [] t = "longint" -> ToLongint(v, force)
    [] OTHER          -> ToUlongint(v, force)

Lowest(t) == CASE t = "int32" -> INT32_MIN [] t = "longint" -> INT64_MIN [] OTHER -> 0
Highest(t) ==
  CASE t = "int32"   -> INT32_MAX
    [] t = "uint32"  -> UINT32_MAX
    [] t = "longint" -> INT64_MAX
    [] OTHER          -> UINT64_MAX

(* A caller casts one value after another.                                 *)
VARIABLES value, forced, to, result
vars == <<value, forced, to, result>>

None == [ok |-> FALSE, out |-> 0]

Init ==
  /\ value \in Value
  /\ forced \in BOOLEAN
  /\ to = "none"
  /\ result = None

Next ==
  /\ to' \in Target
  /\ result' = Cast(to', value, forced)
  /\ UNCHANGED <<value, forced>>

Spec == Init /\ [][Next]_vars

-----------------------------------------------------------------------------
Numeric == {"number", "longint", "ulongint", "longdouble"}

(* The integer part of a finite source value.                              *)
IntegerPart(x) ==
  IF x.type \in {"longint", "ulongint"} THEN x.x ELSE Whole(x.x.halves)
Finite(x) == x.type \in Numeric /\ (x.type \in {"number", "longdouble"} => x.x.kind = "finite")

(* Types of a cast: what is written fits the target (the C conversions).   *)
TypeOK ==
  /\ value \in Value /\ forced \in BOOLEAN
  /\ to \in Target \cup {"none"}
  /\ result.ok \in BOOLEAN
  /\ to \in Target => result.out \in Lowest(to) .. Highest(to)

(* Forcing a cast never changes what the cast gives without force.         *)
ForceAgrees == to \in Target /\ ~forced /\ result.ok => Cast(to, value, TRUE) = result

(* A cast that succeeds without force gives the integer part of the value. *)
(* Two casts that the header says can fail do not: a long integer loses    *)
(* its upper bits as a 32-bit unsigned one, and a long double above the    *)
(* limit of an unsigned type, infinity included, becomes that limit.       *)
Truncates(x) == to = "uint32" /\ x.type = "longint"
Saturates(x) ==
  to \in {"uint32", "ulongint"} /\ x.type = "longdouble" /\ AtLeast(x.x, Highest(to))
ExactUnforced ==
  to \in Target /\ ~forced /\ result.ok =>
    IF Saturates(value) THEN result.out = Highest(to)
    ELSE IF Truncates(value) THEN result.out = Unsigned(value.x, UINT32_MAX)
    ELSE Finite(value) /\ result.out = IntegerPart(value)

(* A forced cast of a floating-point value gives the nearest integer the   *)
(* target has, infinities included; only a NaN cannot be cast.             *)
Clamp(n, low, high) == IF n < low THEN low ELSE IF n > high THEN high ELSE n
ForcedClamps ==
  to \in Target /\ forced /\ value.type \in {"number", "longdouble"}
      /\ ~(value.type = "longdouble" /\ LooksInfinite(value.x)) =>
    result = CASE value.x.kind = "nan"  -> Failed
               [] value.x.kind = "inf"  -> Done(Highest(to))
               [] value.x.kind = "-inf" -> Done(Lowest(to))
               [] OTHER -> Done(Clamp(IntegerPart(value), Lowest(to), Highest(to)))

=============================================================================
