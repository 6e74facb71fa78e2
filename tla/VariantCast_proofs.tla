------------------------- MODULE VariantCast_proofs -------------------------
(* The casts between integer types, for integers of any width.             *)
EXTENDS VariantCast, TLAPS

LEMMA RemainderRange ==
  ASSUME NEW n \in Int, NEW m \in Nat \ {0}
  PROVE  n % m \in 0 .. m - 1
BY SMT

LEMMA RemainderSmall ==
  ASSUME NEW n \in Int, NEW m \in Nat \ {0}, 0 <= n, n < m
  PROVE  n % m = n
BY SMT

LEMMA SignedRange ==
  ASSUME NEW n \in Int, NEW max \in Nat
  PROVE  Signed(n, max) \in -max - 1 .. max
<1> DEFINE m == 2 * (max + 1)
<1>1. m \in Nat \ {0}  OBVIOUS
<1>2. (n + max + 1) \in Int OBVIOUS
<1> HIDE DEF m
<1>3. (n + max + 1) % m \in 0 .. m - 1
  BY <1>1, <1>2, RemainderRange
<1>4. Signed(n, max) = ((n + max + 1) % m) - (max + 1)
  BY DEF Signed, m
<1>5. m = 2 * (max + 1) BY DEF m
<1> QED BY <1>3, <1>4, <1>5

LEMMA UnsignedRange ==
  ASSUME NEW n \in Int, NEW max \in Nat
  PROVE  Unsigned(n, max) \in 0 .. max
BY RemainderRange, max + 1 \in Nat \ {0} DEF Unsigned

LEMMA WholeBetween ==
  ASSUME NEW h \in Int, NEW low \in Int, NEW high \in Int, low <= 0, 0 <= high,
         2 * low - 1 <= h, h < 2 * (high + 1)
  PROVE  Whole(h) \in low .. high
BY DEF Whole

-----------------------------------------------------------------------------
(* What a cast may give: a Boolean, and an integer of the target.          *)
InRange(r, low, high) == r.ok \in BOOLEAN /\ r.out \in low .. high

LEMMA FailedInRange ==
  ASSUME NEW low \in Int, NEW high \in Int, low <= 0, 0 <= high
  PROVE  InRange(Failed, low, high)
BY DEF InRange, Failed

LEMMA ForcedInRange ==
  ASSUME NEW n, NEW low \in Int, NEW high \in Int, NEW force \in BOOLEAN,
         n \in low .. high, low <= 0, 0 <= high
  PROVE  InRange(IfForced(force, n), low, high) /\ InRange(Done(n), low, high)
BY DEF InRange, IfForced, Done, Failed

LEMMA FloatKinds ==
  ASSUME NEW S \in SUBSET Int, NEW f \in Float(S)
  PROVE  /\ f.kind \in {"finite", "inf", "-inf", "nan"}
         /\ f.halves \in Int
         /\ f.kind = "finite" => f.halves \in S
<1>1. CASE f \in [kind : {"finite"}, halves : S]
  <2>1. f.kind \in {"finite"} /\ f.halves \in S  BY <1>1
  <2> QED BY <2>1
<1>2. CASE f \in [kind : {"inf", "-inf", "nan"}, halves : {0}]
  <2>1. f.kind \in {"inf", "-inf", "nan"} /\ f.halves \in {0}  BY <1>2
  <2> QED BY <2>1
<1> QED BY <1>1, <1>2 DEF Float

LEMMA WithinRange ==
  ASSUME NEW f, f.halves \in Int, f.kind \in {"finite", "inf", "-inf", "nan"},
         NEW low \in Int, NEW high \in Int, low <= 0, 0 <= high,
         NEW tooLow \in BOOLEAN, NEW tooHigh \in BOOLEAN, NEW lowest, NEW highest,
         InRange(lowest, low, high), InRange(highest, low, high),
         f.kind # "nan" /\ ~tooLow /\ ~tooHigh =>
           2 * low - 1 <= f.halves /\ f.halves < 2 * (high + 1)
  PROVE  InRange(Within(f, tooLow, lowest, tooHigh, highest), low, high)
<1>1. InRange(Failed, low, high)  BY DEF InRange, Failed
<1>2. ASSUME f.kind # "nan", ~tooLow, ~tooHigh
      PROVE  InRange(Done(Whole(f.halves)), low, high)
  <2>1. Whole(f.halves) \in low .. high  BY <1>2, WholeBetween
  <2> QED BY <2>1 DEF InRange, Done
<1> QED BY <1>1, <1>2 DEF Within

LEMMA NumberToSignedRange ==
  ASSUME NEW f \in Float(Halves), NEW max \in Nat, NEW top \in {max, max + 1},
         NEW force \in BOOLEAN
  PROVE  InRange(NumberToSigned(f, -max - 1, top, max, force), -max - 1, max)
<1>1. Halves \in SUBSET Int  BY CastAssumption
<1>2. f.halves \in Int /\ f.kind \in {"finite", "inf", "-inf", "nan"}
  BY <1>1, FloatKinds
<1>3. InRange(IfForced(force, -max - 1), -max - 1, max)
      /\ InRange(IfForced(force, max), -max - 1, max)
  BY ForcedInRange
<1>4. AtMost(f, -max - 1) \in BOOLEAN /\ AtLeast(f, top) \in BOOLEAN
  BY DEF AtMost, AtLeast
<1>5. f.kind # "nan" /\ ~AtMost(f, -max - 1) /\ ~AtLeast(f, top) =>
        2 * (-max - 1) - 1 <= f.halves /\ f.halves < 2 * (max + 1)
  BY <1>2 DEF AtMost, AtLeast
<1> QED BY <1>2, <1>3, <1>4, <1>5, WithinRange DEF NumberToSigned

LEMMA LongDoubleToSignedRange ==
  ASSUME NEW f \in Float(Halves), NEW max \in Nat, NEW force \in BOOLEAN
  PROVE  InRange(LongDoubleToSigned(f, -max - 1, max, force), -max - 1, max)
<1>1. Halves \in SUBSET Int  BY CastAssumption
<1>2. f.halves \in Int /\ f.kind \in {"finite", "inf", "-inf", "nan"}
  BY <1>1, FloatKinds
<1>3. InRange(IfForced(force, -max - 1), -max - 1, max)
      /\ InRange(IfForced(force, max), -max - 1, max)
  BY ForcedInRange
<1> DEFINE tooLow == LooksInfinite(f) \/ AtMost(f, -max - 1)
<1>4. tooLow \in BOOLEAN /\ AtLeast(f, max) \in BOOLEAN
  BY DEF AtMost, AtLeast
<1>5. f.kind # "nan" /\ ~tooLow /\ ~AtLeast(f, max) =>
        2 * (-max - 1) - 1 <= f.halves /\ f.halves < 2 * (max + 1)
  BY <1>2 DEF AtMost, AtLeast
<1> HIDE DEF tooLow
<1>6. InRange(Within(f, tooLow, IfForced(force, -max - 1), AtLeast(f, max), IfForced(force, max)),
              -max - 1, max)
  BY <1>2, <1>3, <1>4, <1>5, WithinRange
<1> QED BY <1>6 DEF LongDoubleToSigned, tooLow

LEMMA NumberToUnsignedRange ==
  ASSUME NEW f \in Float(Halves), NEW max \in Nat, NEW top \in {max, max + 1},
         NEW force \in BOOLEAN
  PROVE  InRange(NumberToUnsigned(f, top, max, force), 0, max)
<1>1. Halves \in SUBSET Int  BY CastAssumption
<1>2. f.halves \in Int /\ f.kind \in {"finite", "inf", "-inf", "nan"}
  BY <1>1, FloatKinds
<1>3. InRange(IfForced(force, 0), 0, max) /\ InRange(IfForced(force, max), 0, max)
  BY ForcedInRange
<1>4. AtMost(f, 0) \in BOOLEAN /\ AtLeast(f, top) \in BOOLEAN
  BY DEF AtMost, AtLeast
<1>5. f.kind # "nan" /\ ~AtMost(f, 0) /\ ~AtLeast(f, top) =>
        2 * 0 - 1 <= f.halves /\ f.halves < 2 * (max + 1)
  BY <1>2 DEF AtMost, AtLeast
<1> QED BY <1>2, <1>3, <1>4, <1>5, WithinRange DEF NumberToUnsigned

LEMMA LongDoubleToUnsignedRange ==
  ASSUME NEW f \in Float(Halves), NEW max \in Nat, NEW force \in BOOLEAN
  PROVE  InRange(LongDoubleToUnsigned(f, max, force), 0, max)
<1>1. Halves \in SUBSET Int  BY CastAssumption
<1>2. f.halves \in Int /\ f.kind \in {"finite", "inf", "-inf", "nan"}
  BY <1>1, FloatKinds
<1>3. InRange(IfForced(force, 0), 0, max) /\ InRange(Done(max), 0, max)
  BY ForcedInRange
<1>4. Under(f, 0) \in BOOLEAN /\ AtLeast(f, max) \in BOOLEAN
  BY DEF Under, AtLeast
<1>5. f.kind # "nan" /\ ~Under(f, 0) /\ ~AtLeast(f, max) =>
        2 * 0 - 1 <= f.halves /\ f.halves < 2 * (max + 1)
  BY <1>2 DEF Under, AtLeast
<1> QED BY <1>2, <1>3, <1>4, <1>5, WithinRange DEF LongDoubleToUnsigned

LEMMA StringToRange ==
  ASSUME NEW x \in Parsed \cup {Bad}, NEW low \in Int, NEW high \in Int,
         low <= 0, 0 <= high, NEW force \in BOOLEAN
  PROVE  InRange(StringTo(x, low, high, force), low, high)
<1>1. (IF x # Bad /\ x \in low .. high THEN x ELSE 0) \in low .. high  OBVIOUS
<1> QED BY <1>1, ForcedInRange DEF StringTo
-----------------------------------------------------------------------------
(* The source values, type by type.                                        *)
LEMMA SourceTypes ==
  ASSUME NEW v \in Value
  PROVE  \/ v.type \in {"null", "container"} /\ v.x = 0
         \/ v.type = "boolean" /\ v.x \in {0, 1}
         \/ v.type \in {"number", "longdouble"} /\ v.x \in Float(Halves)
         \/ v.type = "longint" /\ v.x \in INT64_MIN .. INT64_MAX
         \/ v.type = "ulongint" /\ v.x \in 0 .. UINT64_MAX
         \/ v.type = "string" /\ v.x \in Parsed \cup {Bad}
<1>1. Float(NumberHalves) \subseteq Float(Halves)
  <2>1. [kind : {"finite"}, halves : NumberHalves] \subseteq [kind : {"finite"}, halves : Halves]
    BY CastAssumption
  <2> QED BY <2>1 DEF Float
<1>2. CASE v \in [type : {"null", "container"}, x : {0}]
  BY <1>2
<1>3. CASE v \in [type : {"boolean"}, x : {0, 1}]
  BY <1>3
<1>4. CASE v \in [type : {"number"}, x : Float(NumberHalves)]
  BY <1>1, <1>4
<1>5. CASE v \in [type : {"longdouble"}, x : Float(Halves)]
  BY <1>5
<1>6. CASE v \in [type : {"longint"}, x : INT64_MIN .. INT64_MAX]
  BY <1>6
<1>7. CASE v \in [type : {"ulongint"}, x : 0 .. UINT64_MAX]
  BY <1>7
<1>8. CASE v \in [type : {"string"}, x : Parsed \cup {Bad}]
  BY <1>8
<1> QED BY <1>2, <1>3, <1>4, <1>5, <1>6, <1>7, <1>8 DEF Value

LEMMA Limits ==
  /\ INT32_MAX \in Nat \ {0} /\ UINT32_MAX \in Nat \ {0}
  /\ INT64_MAX \in Nat \ {0} /\ UINT64_MAX \in Nat \ {0}
  /\ INT32_MIN = -INT32_MAX - 1 /\ INT64_MIN = -INT64_MAX - 1
  /\ UINT32_MAX < INT64_MAX /\ INT32_MAX < UINT32_MAX /\ INT64_MAX < UINT64_MAX
BY CastAssumption DEF INT32_MIN, INT64_MIN, UINT32_MAX, UINT64_MAX

LEMMA Int32Range ==
  ASSUME NEW v \in Value, NEW force \in BOOLEAN
  PROVE  InRange(ToInt32(v, force), INT32_MIN, INT32_MAX)
<1> DEFINE Fits(r) == InRange(r, INT32_MIN, INT32_MAX)
<1>1. CASE v.type \in {"null", "boolean"} /\ v.x \in {0, 1}
  <2>1. Fits(IfForced(force, v.x))  BY <1>1, Limits, ForcedInRange
  <2> QED BY <1>1, <2>1 DEF ToInt32
<1>2. CASE v.type = "container"
  <2>1. Fits(Failed)  BY Limits, FailedInRange
  <2> QED BY <1>2, <2>1 DEF ToInt32
<1>3. CASE v.type = "number" /\ v.x \in Float(Halves)
  <2>1. Fits(NumberToSigned(v.x, INT32_MIN, INT32_MAX, INT32_MAX, force))
    BY <1>3, Limits, NumberToSignedRange
  <2> QED BY <1>3, <2>1 DEF ToInt32
<1>4. CASE v.type = "longdouble" /\ v.x \in Float(Halves)
  <2>1. Fits(LongDoubleToSigned(v.x, INT32_MIN, INT32_MAX, force))
    BY <1>4, Limits, LongDoubleToSignedRange
  <2> QED BY <1>4, <2>1 DEF ToInt32
<1>5. CASE v.type \in {"longint", "ulongint"} /\ v.x \in Int /\ (v.type = "ulongint" => v.x >= 0)
  <2>1. Fits(IfForced(force, Signed(v.x, INT32_MAX)))
    BY <1>5, Limits, SignedRange, ForcedInRange
  <2>2. v.x >= INT32_MIN /\ v.x <= INT32_MAX => Fits(Done(v.x))
    BY <1>5, Limits, ForcedInRange
  <2>3. v.x >= 0 => v.x >= INT32_MIN  BY <1>5, Limits
  <2> HIDE DEF Fits
  <2>4. Fits(ToInt32(v, force))  BY <1>5, <2>1, <2>2, <2>3 DEF ToInt32
  <2> QED BY <2>4 DEF Fits
<1>6. CASE v.type = "string" /\ v.x \in Parsed \cup {Bad}
  <2>1. Fits(StringTo(v.x, INT32_MIN, INT32_MAX, force))
    BY <1>6, Limits, StringToRange
  <2> QED BY <1>6, <2>1 DEF ToInt32
<1> QED BY <1>1, <1>2, <1>3, <1>4, <1>5, <1>6, SourceTypes, Limits

LEMMA Uint32Range ==
  ASSUME NEW v \in Value, NEW force \in BOOLEAN
  PROVE  InRange(ToUint32(v, force), 0, UINT32_MAX)
<1> DEFINE Fits(r) == InRange(r, 0, UINT32_MAX)
<1>1. CASE v.type \in {"null", "boolean"} /\ v.x \in {0, 1}
  <2>1. Fits(IfForced(force, v.x))  BY <1>1, Limits, ForcedInRange
  <2> QED BY <1>1, <2>1 DEF ToUint32
<1>2. CASE v.type = "container"
  <2>1. Fits(Failed)  BY Limits, FailedInRange
  <2> QED BY <1>2, <2>1 DEF ToUint32
<1>3. CASE v.type = "number" /\ v.x \in Float(Halves)
  <2>1. Fits(NumberToUnsigned(v.x, UINT32_MAX, UINT32_MAX, force))
    BY <1>3, Limits, NumberToUnsignedRange
  <2> QED BY <1>3, <2>1 DEF ToUint32
<1>4. CASE v.type = "longdouble" /\ v.x \in Float(Halves)
  <2>1. Fits(LongDoubleToUnsigned(v.x, UINT32_MAX, force))
    BY <1>4, Limits, LongDoubleToUnsignedRange
  <2> QED BY <1>4, <2>1 DEF ToUint32
<1>5. CASE v.type \in {"longint", "ulongint"} /\ v.x \in Int /\ (v.type = "ulongint" => v.x >= 0)
  <2>1. Unsigned(v.x, UINT32_MAX) \in 0 .. UINT32_MAX
    BY <1>5, Limits, UnsignedRange
  <2>2. Fits(IfForced(force, Unsigned(v.x, UINT32_MAX))) /\ Fits(Done(Unsigned(v.x, UINT32_MAX)))
    BY <2>1, Limits, ForcedInRange
  <2>3. ASSUME v.x >= 0, v.x < UINT32_MAX  PROVE Fits(Done(v.x))
    <3>1. v.x \in 0 .. UINT32_MAX  BY <1>5, <2>3, Limits
    <3> QED BY <3>1, Limits, ForcedInRange
  <2> HIDE DEF Fits
  <2>4. Fits(ToUint32(v, force))  BY <1>5, <2>2, <2>3 DEF ToUint32
  <2> QED BY <2>4 DEF Fits
<1>6. CASE v.type = "string" /\ v.x \in Parsed \cup {Bad}
  <2>1. Fits(StringTo(v.x, 0, UINT32_MAX, force))
    BY <1>6, Limits, StringToRange
  <2> QED BY <1>6, <2>1 DEF ToUint32
<1> QED BY <1>1, <1>2, <1>3, <1>4, <1>5, <1>6, SourceTypes, Limits

LEMMA LongintRange ==
  ASSUME NEW v \in Value, NEW force \in BOOLEAN
  PROVE  InRange(ToLongint(v, force), INT64_MIN, INT64_MAX)
<1> DEFINE Fits(r) == InRange(r, INT64_MIN, INT64_MAX)
<1>1. CASE v.type \in {"null", "boolean"} /\ v.x \in {0, 1}
  <2>1. Fits(IfForced(force, v.x))  BY <1>1, Limits, ForcedInRange
  <2> QED BY <1>1, <2>1 DEF ToLongint
<1>2. CASE v.type = "container"
  <2>1. Fits(Failed)  BY Limits, FailedInRange
  <2> QED BY <1>2, <2>1 DEF ToLongint
<1>3. CASE v.type = "number" /\ v.x \in Float(Halves)
  <2>1. Fits(NumberToSigned(v.x, INT64_MIN, INT64_MAX + 1, INT64_MAX, force))
    BY <1>3, Limits, NumberToSignedRange
  <2> QED BY <1>3, <2>1 DEF ToLongint
<1>4. CASE v.type = "longdouble" /\ v.x \in Float(Halves)
  <2>1. Fits(LongDoubleToSigned(v.x, INT64_MIN, INT64_MAX, force))
    BY <1>4, Limits, LongDoubleToSignedRange
  <2> QED BY <1>4, <2>1 DEF ToLongint
<1>5. CASE v.type = "longint" /\ v.x \in INT64_MIN .. INT64_MAX
  <2>1. Fits(Done(v.x))  BY <1>5, Limits, ForcedInRange
  <2> QED BY <1>5, <2>1 DEF ToLongint
<1>6. CASE v.type = "ulongint" /\ v.x \in 0 .. UINT64_MAX
  <2>1. Fits(IfForced(force, Signed(v.x, INT64_MAX)))
    BY <1>6, Limits, SignedRange, ForcedInRange
  <2>2. v.x <= INT64_MAX => Fits(Done(v.x))
    BY <1>6, Limits, ForcedInRange
  <2> HIDE DEF Fits
  <2>3. Fits(ToLongint(v, force))  BY <1>6, <2>1, <2>2 DEF ToLongint
  <2> QED BY <2>3 DEF Fits
<1>7. CASE v.type = "string" /\ v.x \in Parsed \cup {Bad}
  <2>1. Fits(StringTo(v.x, INT64_MIN, INT64_MAX, force))
    BY <1>7, Limits, StringToRange
  <2> QED BY <1>7, <2>1 DEF ToLongint
<1> QED BY <1>1, <1>2, <1>3, <1>4, <1>5, <1>6, <1>7, SourceTypes, Limits

LEMMA UlongintRange ==
  ASSUME NEW v \in Value, NEW force \in BOOLEAN
  PROVE  InRange(ToUlongint(v, force), 0, UINT64_MAX)
<1> DEFINE Fits(r) == InRange(r, 0, UINT64_MAX)
<1>1. CASE v.type \in {"null", "boolean"} /\ v.x \in {0, 1}
  <2>1. Fits(IfForced(force, v.x))  BY <1>1, Limits, ForcedInRange
  <2> QED BY <1>1, <2>1 DEF ToUlongint
<1>2. CASE v.type = "container"
  <2>1. Fits(Failed)  BY Limits, FailedInRange
  <2> QED BY <1>2, <2>1 DEF ToUlongint
<1>3. CASE v.type = "number" /\ v.x \in Float(Halves)
  <2>1. Fits(NumberToUnsigned(v.x, UINT64_MAX + 1, UINT64_MAX, force))
    BY <1>3, Limits, NumberToUnsignedRange
  <2> QED BY <1>3, <2>1 DEF ToUlongint
<1>4. CASE v.type = "longdouble" /\ v.x \in Float(Halves)
  <2>1. Fits(LongDoubleToUnsigned(v.x, UINT64_MAX, force))
    BY <1>4, Limits, LongDoubleToUnsignedRange
  <2> QED BY <1>4, <2>1 DEF ToUlongint
<1>5. CASE v.type = "longint" /\ v.x \in INT64_MIN .. INT64_MAX
  <2>1. v.x \in Int  BY <1>5, Limits
  <2>2. Unsigned(v.x, UINT64_MAX) \in 0 .. UINT64_MAX
    BY <2>1, Limits, UnsignedRange
  <2>3. Fits(IfForced(force, Unsigned(v.x, UINT64_MAX)))
    BY <2>2, Limits, ForcedInRange
  <2>4. ~(v.x < 0) => Fits(Done(v.x))  BY <1>5, Limits, ForcedInRange
  <2> HIDE DEF Fits
  <2>5. Fits(ToUlongint(v, force))  BY <1>5, <2>3, <2>4 DEF ToUlongint
  <2> QED BY <2>5 DEF Fits
<1>6. CASE v.type = "ulongint" /\ v.x \in 0 .. UINT64_MAX
  <2>1. Fits(Done(v.x))  BY <1>6, Limits, ForcedInRange
  <2> QED BY <1>6, <2>1 DEF ToUlongint
<1>7. CASE v.type = "string" /\ v.x \in Parsed \cup {Bad}
  <2>1. Fits(StringTo(v.x, 0, UINT64_MAX, force))
    BY <1>7, Limits, StringToRange
  <2> QED BY <1>7, <2>1 DEF ToUlongint
<1> QED BY <1>1, <1>2, <1>3, <1>4, <1>5, <1>6, <1>7, SourceTypes, Limits

LEMMA CastRange ==
  ASSUME NEW v \in Value, NEW force \in BOOLEAN, NEW t \in Target
  PROVE  InRange(Cast(t, v, force), Lowest(t), Highest(t))
BY Int32Range, Uint32Range, LongintRange, UlongintRange DEF Cast, Lowest, Highest, Target

-----------------------------------------------------------------------------
(* A result is what the cast of the value gives.                           *)
Told == to \in Target => result = Cast(to, value, forced)
Chosen == value \in Value /\ forced \in BOOLEAN /\ to \in Target \cup {"none"}
            /\ (to = "none" => result = Failed)
IInv == Chosen /\ Told

LEMMA Inductive == Spec => []IInv
<1>1. Init => IInv
  BY DEF Init, IInv, Chosen, Told, Target, None, Failed
<1>2. IInv /\ [Next]_vars => IInv'
  <2>1. CASE UNCHANGED vars
    BY <2>1 DEF IInv, Chosen, Told, vars, Cast, ToInt32, ToUint32, ToLongint, ToUlongint
  <2>2. CASE Next
    BY <2>2 DEF IInv, Chosen, Told, Next, Target
  <2> QED BY <2>1, <2>2
<1> QED BY <1>1, <1>2, PTL DEF Spec

(* Type correctness: an answer is always an integer of the target, for     *)
(* every width: purc_variant_cast_to_int32 and its siblings.               *)
THEOREM CastTypes == Spec => []TypeOK
<1>1. IInv => TypeOK
  <2> SUFFICES ASSUME IInv PROVE TypeOK  OBVIOUS
  <2>1. ASSUME to \in Target
        PROVE  result.ok \in BOOLEAN /\ result.out \in Lowest(to) .. Highest(to)
    BY <2>1, CastRange DEF IInv, Chosen, Told, InRange
  <2>2. Failed.ok \in BOOLEAN  BY DEF Failed
  <2> QED BY <2>1, <2>2 DEF IInv, Chosen, TypeOK
<1> QED BY <1>1, Inductive, PTL

-----------------------------------------------------------------------------
(* Force only matters where the cast would fail.                           *)
LEMMA ForcedSame ==
  ASSUME NEW n, IfForced(FALSE, n).ok
  PROVE  FALSE
BY DEF IfForced, Failed

LEMMA WithinForced ==
  ASSUME NEW f, NEW a, NEW b, NEW low, NEW high,
         Within(f, a, IfForced(FALSE, low), b, IfForced(FALSE, high)).ok
  PROVE  Within(f, a, IfForced(TRUE, low), b, IfForced(TRUE, high))
           = Within(f, a, IfForced(FALSE, low), b, IfForced(FALSE, high))
BY DEF Within, IfForced, Failed

LEMMA WithinForcedLow ==
  ASSUME NEW f, NEW a, NEW b, NEW low, NEW high,
         Within(f, a, IfForced(FALSE, low), b, high).ok
  PROVE  Within(f, a, IfForced(TRUE, low), b, high)
           = Within(f, a, IfForced(FALSE, low), b, high)
BY DEF Within, IfForced, Failed

LEMMA FloatsForced ==
  ASSUME NEW f, NEW min, NEW top, NEW max
  PROVE  /\ NumberToSigned(f, min, top, max, FALSE).ok =>
              NumberToSigned(f, min, top, max, TRUE) = NumberToSigned(f, min, top, max, FALSE)
         /\ NumberToUnsigned(f, top, max, FALSE).ok =>
              NumberToUnsigned(f, top, max, TRUE) = NumberToUnsigned(f, top, max, FALSE)
         /\ LongDoubleToSigned(f, min, max, FALSE).ok =>
              LongDoubleToSigned(f, min, max, TRUE) = LongDoubleToSigned(f, min, max, FALSE)
         /\ LongDoubleToUnsigned(f, max, FALSE).ok =>
              LongDoubleToUnsigned(f, max, TRUE) = LongDoubleToUnsigned(f, max, FALSE)
<1>1. NumberToSigned(f, min, top, max, FALSE).ok =>
        NumberToSigned(f, min, top, max, TRUE) = NumberToSigned(f, min, top, max, FALSE)
  BY WithinForced DEF NumberToSigned
<1>2. NumberToUnsigned(f, top, max, FALSE).ok =>
        NumberToUnsigned(f, top, max, TRUE) = NumberToUnsigned(f, top, max, FALSE)
  BY WithinForced DEF NumberToUnsigned
<1>3. LongDoubleToSigned(f, min, max, FALSE).ok =>
        LongDoubleToSigned(f, min, max, TRUE) = LongDoubleToSigned(f, min, max, FALSE)
  <2> DEFINE tooLow == LooksInfinite(f) \/ AtMost(f, min)
  <2> HIDE DEF tooLow
  <2>1. \A force : LongDoubleToSigned(f, min, max, force)
          = Within(f, tooLow, IfForced(force, min), AtLeast(f, max), IfForced(force, max))
    BY DEF LongDoubleToSigned, tooLow
  <2> QED BY <2>1, WithinForced
<1>4. LongDoubleToUnsigned(f, max, FALSE).ok =>
        LongDoubleToUnsigned(f, max, TRUE) = LongDoubleToUnsigned(f, max, FALSE)
  BY WithinForcedLow DEF LongDoubleToUnsigned
<1> QED BY <1>1, <1>2, <1>3, <1>4

LEMMA StringForced ==
  ASSUME NEW x, NEW min, NEW max
  PROVE  ~StringTo(x, min, max, FALSE).ok
BY DEF StringTo, IfForced, Failed

LEMMA CastForced ==
  ASSUME NEW v \in Value, NEW t \in Target, Cast(t, v, FALSE).ok
  PROVE  Cast(t, v, TRUE) = Cast(t, v, FALSE)
<1>1. ToInt32(v, FALSE).ok => ToInt32(v, TRUE) = ToInt32(v, FALSE)
  BY FloatsForced, ForcedSame, StringForced DEF ToInt32
<1>2. ToUint32(v, FALSE).ok => ToUint32(v, TRUE) = ToUint32(v, FALSE)
  BY FloatsForced, ForcedSame, StringForced DEF ToUint32
<1>3. ToLongint(v, FALSE).ok => ToLongint(v, TRUE) = ToLongint(v, FALSE)
  BY FloatsForced, ForcedSame, StringForced DEF ToLongint
<1>4. ToUlongint(v, FALSE).ok => ToUlongint(v, TRUE) = ToUlongint(v, FALSE)
  BY FloatsForced, ForcedSame, StringForced DEF ToUlongint
<1> QED BY <1>1, <1>2, <1>3, <1>4 DEF Cast, Target

(* For every width: asking with force gives what asking without it gave,   *)
(* whenever that succeeded.                                                *)
THEOREM ForceNeverChanges == Spec => []ForceAgrees
<1>1. IInv => ForceAgrees
  BY CastForced DEF IInv, Chosen, Told, ForceAgrees
<1> QED BY <1>1, Inductive, PTL

-----------------------------------------------------------------------------
(* What an unforced cast that succeeds has written.                        *)
Kept(v, r) == Finite(v) /\ r.out = IntegerPart(v)

LEMMA WithinUnforced ==
  ASSUME NEW f, NEW a, NEW b, NEW r, r = Within(f, a, Failed, b, Failed), r.ok
  PROVE  f.kind # "nan" /\ ~a /\ ~b /\ r = Done(Whole(f.halves))
BY DEF Within, Failed

LEMMA KeptFloat ==
  ASSUME NEW v, v.type \in {"number", "longdouble"}, v.x \in Float(Halves),
         v.x.kind \notin {"nan", "inf", "-inf"}, NEW r, r = Done(Whole(v.x.halves))
  PROVE  Kept(v, r)
<1>1. v.x.kind = "finite"  BY FloatKinds, CastAssumption
<1>2. Finite(v)  BY <1>1 DEF Finite, Numeric
<1>3. IntegerPart(v) = Whole(v.x.halves)  BY DEF IntegerPart
<1> QED BY <1>2, <1>3 DEF Kept, Done

LEMMA KeptInteger ==
  ASSUME NEW v, v.type \in {"longint", "ulongint"}, NEW r, r = Done(v.x)
  PROVE  Kept(v, r)
BY DEF Kept, Finite, IntegerPart, Numeric, Done

LEMMA KeptFromFloat ==
  ASSUME NEW v, v.type \in {"number", "longdouble"}, v.x \in Float(Halves),
         NEW low, NEW high, NEW tooLow, AtMost(v.x, low) => tooLow, NEW r, r.ok,
         r = Within(v.x, tooLow, Failed, AtLeast(v.x, high), Failed)
  PROVE  Kept(v, r)
<1>1. v.x.kind # "nan" /\ ~tooLow /\ ~AtLeast(v.x, high) /\ r = Done(Whole(v.x.halves))
  BY WithinUnforced
<1>2. v.x.kind \notin {"nan", "inf", "-inf"}  BY <1>1 DEF AtMost, AtLeast
<1> QED BY <1>1, <1>2, KeptFloat

LEMMA LongDoubleUnforced ==
  ASSUME NEW v, v.type = "longdouble", v.x \in Float(Halves), NEW max, NEW r, r.ok
  PROVE  r = LongDoubleToUnsigned(v.x, max, FALSE) =>
           IF AtLeast(v.x, max) THEN r.out = max ELSE Kept(v, r)
<1>0. SUFFICES ASSUME r = LongDoubleToUnsigned(v.x, max, FALSE)
               PROVE  IF AtLeast(v.x, max) THEN r.out = max ELSE Kept(v, r)
  OBVIOUS
<1>1. v.x.kind # "nan" /\ ~Under(v.x, 0)
        /\ r = IF AtLeast(v.x, max) THEN Done(max) ELSE Done(Whole(v.x.halves))
  BY <1>0 DEF LongDoubleToUnsigned, Within, IfForced, Failed
<1>2. CASE AtLeast(v.x, max)
  <2>1. r = Done(max)  BY <1>1, <1>2
  <2> QED BY <1>2, <2>1 DEF Done
<1>3. CASE ~AtLeast(v.x, max)
  <2>1. v.x.kind \notin {"nan", "inf", "-inf"}  BY <1>1, <1>3 DEF Under, AtLeast
  <2>2. r = Done(Whole(v.x.halves))  BY <1>1, <1>3
  <2> QED BY <1>3, <2>1, <2>2, KeptFloat
<1> QED BY <1>2, <1>3

LEMMA Int32Kept ==
  ASSUME NEW v \in Value, NEW r, r.ok
  PROVE  r = ToInt32(v, FALSE) => Kept(v, r)
<1>0. SUFFICES ASSUME r = ToInt32(v, FALSE) PROVE Kept(v, r)  OBVIOUS
<1>1. CASE v.type = "number"
  <2>1. r = Within(v.x, AtMost(v.x, INT32_MIN), Failed, AtLeast(v.x, INT32_MAX), Failed)
    BY <1>0, <1>1 DEF ToInt32, NumberToSigned, IfForced
  <2>2. v.x \in Float(Halves)  BY <1>1, SourceTypes
  <2> QED BY <1>1, <2>1, <2>2, KeptFromFloat
<1>2. CASE v.type = "longdouble"
  <2>1. PICK tooLow : /\ tooLow = (LooksInfinite(v.x) \/ AtMost(v.x, INT32_MIN))
                      /\ r = Within(v.x, tooLow, Failed, AtLeast(v.x, INT32_MAX), Failed)
    BY <1>0, <1>2 DEF ToInt32, LongDoubleToSigned, IfForced
  <2>2. AtMost(v.x, INT32_MIN) => tooLow  BY <2>1
  <2>3. r = Within(v.x, tooLow, Failed, AtLeast(v.x, INT32_MAX), Failed)
    BY <2>1
  <2>4. v.x \in Float(Halves)  BY <1>2, SourceTypes
  <2> QED BY <1>2, <2>2, <2>3, <2>4, KeptFromFloat
<1>3. CASE v.type \in {"longint", "ulongint"}
  <2>1. r = Done(v.x)  BY <1>0, <1>3 DEF ToInt32, IfForced, Failed
  <2> QED BY <1>3, <2>1, KeptInteger
<1>4. CASE v.type \notin {"number", "longdouble", "longint", "ulongint"}
  BY <1>0, <1>4, ForcedSame, StringForced DEF ToInt32, Failed
<1> QED BY <1>1, <1>2, <1>3, <1>4

LEMMA LongintKept ==
  ASSUME NEW v \in Value, NEW r, r.ok
  PROVE  r = ToLongint(v, FALSE) => Kept(v, r)
<1>0. SUFFICES ASSUME r = ToLongint(v, FALSE) PROVE Kept(v, r)  OBVIOUS
<1>1. CASE v.type = "number"
  <2>1. r = Within(v.x, AtMost(v.x, INT64_MIN), Failed, AtLeast(v.x, INT64_MAX + 1), Failed)
    BY <1>0, <1>1 DEF ToLongint, NumberToSigned, IfForced
  <2>2. v.x \in Float(Halves)  BY <1>1, SourceTypes
  <2> QED BY <1>1, <2>1, <2>2, KeptFromFloat
<1>2. CASE v.type = "longdouble"
  <2>1. PICK tooLow : /\ tooLow = (LooksInfinite(v.x) \/ AtMost(v.x, INT64_MIN))
                      /\ r = Within(v.x, tooLow, Failed, AtLeast(v.x, INT64_MAX), Failed)
    BY <1>0, <1>2 DEF ToLongint, LongDoubleToSigned, IfForced
  <2>2. AtMost(v.x, INT64_MIN) => tooLow  BY <2>1
  <2>3. r = Within(v.x, tooLow, Failed, AtLeast(v.x, INT64_MAX), Failed)
    BY <2>1
  <2>4. v.x \in Float(Halves)  BY <1>2, SourceTypes
  <2> QED BY <1>2, <2>2, <2>3, <2>4, KeptFromFloat
<1>3. CASE v.type \in {"longint", "ulongint"}
  <2>1. r = Done(v.x)  BY <1>0, <1>3 DEF ToLongint, IfForced, Failed
  <2> QED BY <1>3, <2>1, KeptInteger
<1>4. CASE v.type \notin {"number", "longdouble", "longint", "ulongint"}
  BY <1>0, <1>4, ForcedSame, StringForced DEF ToLongint, Failed
<1> QED BY <1>1, <1>2, <1>3, <1>4

LEMMA Uint32Kept ==
  ASSUME NEW v \in Value, NEW r, r.ok
  PROVE  r = ToUint32(v, FALSE) =>
           IF v.type = "longdouble" /\ AtLeast(v.x, UINT32_MAX) THEN r.out = UINT32_MAX
           ELSE IF v.type = "longint" THEN r.out = Unsigned(v.x, UINT32_MAX)
           ELSE Kept(v, r)
<1>0. SUFFICES ASSUME r = ToUint32(v, FALSE)
               PROVE  IF v.type = "longdouble" /\ AtLeast(v.x, UINT32_MAX) THEN r.out = UINT32_MAX
                      ELSE IF v.type = "longint" THEN r.out = Unsigned(v.x, UINT32_MAX)
                      ELSE Kept(v, r)
  OBVIOUS
<1>1. CASE v.type = "number"
  <2>1. r = Within(v.x, AtMost(v.x, 0), Failed, AtLeast(v.x, UINT32_MAX), Failed)
    BY <1>0, <1>1 DEF ToUint32, NumberToUnsigned, IfForced
  <2>2. v.x \in Float(Halves)  BY <1>1, SourceTypes
  <2>3. Kept(v, r)  BY <1>1, <2>1, <2>2, KeptFromFloat
  <2> QED BY <1>1, <2>3
<1>2. CASE v.type = "longdouble"
  <2>1. r = LongDoubleToUnsigned(v.x, UINT32_MAX, FALSE)  BY <1>0, <1>2 DEF ToUint32
  <2> QED BY <1>2, <2>1, SourceTypes, LongDoubleUnforced
<1>3. CASE v.type = "longint"
  <2>1. r = Done(Unsigned(v.x, UINT32_MAX))  BY <1>0, <1>3 DEF ToUint32, IfForced, Failed
  <2> QED BY <1>3, <2>1 DEF Done
<1>4. CASE v.type = "ulongint"
  <2>1. r = Done(v.x)  BY <1>0, <1>4 DEF ToUint32, IfForced, Failed
  <2>2. Kept(v, r)  BY <1>4, <2>1, KeptInteger
  <2> QED BY <1>4, <2>2
<1>5. CASE v.type \notin {"number", "longdouble", "longint", "ulongint"}
  BY <1>0, <1>5, ForcedSame, StringForced DEF ToUint32, Failed
<1> QED BY <1>1, <1>2, <1>3, <1>4, <1>5

LEMMA UlongintKept ==
  ASSUME NEW v \in Value, NEW r, r.ok
  PROVE  r = ToUlongint(v, FALSE) =>
           IF v.type = "longdouble" /\ AtLeast(v.x, UINT64_MAX) THEN r.out = UINT64_MAX
           ELSE Kept(v, r)
<1>0. SUFFICES ASSUME r = ToUlongint(v, FALSE)
               PROVE  IF v.type = "longdouble" /\ AtLeast(v.x, UINT64_MAX) THEN r.out = UINT64_MAX
                      ELSE Kept(v, r)
  OBVIOUS
<1>1. CASE v.type = "number"
  <2>1. r = Within(v.x, AtMost(v.x, 0), Failed, AtLeast(v.x, UINT64_MAX + 1), Failed)
    BY <1>0, <1>1 DEF ToUlongint, NumberToUnsigned, IfForced
  <2>2. v.x \in Float(Halves)  BY <1>1, SourceTypes
  <2>3. Kept(v, r)  BY <1>1, <2>1, <2>2, KeptFromFloat
  <2> QED BY <1>1, <2>3
<1>2. CASE v.type = "longdouble"
  <2>1. r = LongDoubleToUnsigned(v.x, UINT64_MAX, FALSE)  BY <1>0, <1>2 DEF ToUlongint
  <2> QED BY <1>2, <2>1, SourceTypes, LongDoubleUnforced
<1>3. CASE v.type = "longint"
  <2>1. r = Done(v.x)  BY <1>0, <1>3 DEF ToUlongint, IfForced, Failed
  <2>2. Kept(v, r)  BY <1>3, <2>1, KeptInteger
  <2> QED BY <1>3, <2>2
<1>4. CASE v.type = "ulongint"
  <2>1. r = Done(v.x)  BY <1>0, <1>4 DEF ToUlongint, IfForced, Failed
  <2>2. Kept(v, r)  BY <1>4, <2>1, KeptInteger
  <2> QED BY <1>4, <2>2
<1>5. CASE v.type \notin {"number", "longdouble", "longint", "ulongint"}
  BY <1>0, <1>5, ForcedSame, StringForced DEF ToUlongint, Failed
<1> QED BY <1>1, <1>2, <1>3, <1>4, <1>5

(* For every width: an unforced cast that succeeds gives the integer part  *)
(* of a finite value, except where the code truncates a long integer or    *)
(* saturates a long double.                                                *)
THEOREM UnforcedIsExact == Spec => []ExactUnforced
<1>1. IInv => ExactUnforced
  <2> SUFFICES ASSUME IInv, to \in Target, ~forced, result.ok
               PROVE  IF Saturates(value) THEN result.out = Highest(to)
                      ELSE IF Truncates(value) THEN result.out = Unsigned(value.x, UINT32_MAX)
                      ELSE Kept(value, result)
    BY DEF ExactUnforced, Kept
  <2>1. value \in Value /\ result = Cast(to, value, FALSE)
    BY DEF IInv, Chosen, Told
  <2>2. CASE to = "int32"
    <3>1. result = ToInt32(value, FALSE)  BY <2>1, <2>2 DEF Cast
    <3>2. Kept(value, result)  BY <2>1, <3>1, Int32Kept
    <3> QED BY <2>2, <3>2 DEF Saturates, Truncates
  <2>3. CASE to = "longint"
    <3>1. result = ToLongint(value, FALSE)  BY <2>1, <2>3 DEF Cast
    <3>2. Kept(value, result)  BY <2>1, <3>1, LongintKept
    <3> QED BY <2>3, <3>2 DEF Saturates, Truncates
  <2>4. CASE to = "uint32"
    <3>1. result = ToUint32(value, FALSE)  BY <2>1, <2>4 DEF Cast
    <3> QED BY <2>1, <2>4, <3>1, Uint32Kept DEF Saturates, Truncates, Highest
  <2>5. CASE to = "ulongint"
    <3>1. result = ToUlongint(value, FALSE)  BY <2>1, <2>5 DEF Cast
    <3> QED BY <2>1, <2>5, <3>1, UlongintKept DEF Saturates, Truncates, Highest
  <2> QED BY <2>2, <2>3, <2>4, <2>5 DEF Target
<1> QED BY <1>1, Inductive, PTL
-----------------------------------------------------------------------------
(* Forced casts of floating-point values: the nearest integer.             *)
Nearest(f, low, high) ==
  IF f.kind = "nan" THEN Failed
  ELSE IF f.kind = "inf" THEN Done(high)
  ELSE IF f.kind = "-inf" THEN Done(low)
  ELSE Done(Clamp(Whole(f.halves), low, high))

LEMMA WholeOrder ==
  ASSUME NEW h \in Int, NEW n \in Int
  PROVE  /\ Whole(h) \in Int
         /\ n <= 0 /\ h <= 2 * n => Whole(h) <= n
         /\ 0 <= n /\ 2 * n <= h => n <= Whole(h)
BY DEF Whole

(* The two limits of a conversion decide as the nearest integer does.      *)
LEMMA WithinNearest ==
  ASSUME NEW f \in Float(Halves), NEW low \in Int, NEW high \in Int, low <= 0, 0 <= high,
         NEW tooLow \in BOOLEAN, NEW tooHigh \in BOOLEAN,
         f.kind = "inf" => ~tooLow /\ tooHigh,
         f.kind = "-inf" => tooLow,
         f.kind = "finite" /\ tooLow => Whole(f.halves) <= low,
         f.kind = "finite" /\ ~tooLow /\ tooHigh => high <= Whole(f.halves),
         f.kind = "finite" /\ ~tooLow /\ ~tooHigh => Whole(f.halves) \in low .. high
  PROVE  Within(f, tooLow, Done(low), tooHigh, Done(high)) = Nearest(f, low, high)
<1>1. f.kind \in {"finite", "inf", "-inf", "nan"} /\ f.halves \in Int
  BY CastAssumption, FloatKinds
<1>2. Whole(f.halves) \in Int
  BY <1>1, WholeOrder
<1>3. CASE f.kind # "finite"
  BY <1>1, <1>3 DEF Within, Nearest
<1>4. CASE f.kind = "finite"
  <2>1. CASE tooLow
    <3>1. Clamp(Whole(f.halves), low, high) = low  BY <1>2, <1>4, <2>1 DEF Clamp
    <3> QED BY <1>4, <2>1, <3>1 DEF Within, Nearest
  <2>2. CASE ~tooLow /\ tooHigh
    <3>1. Clamp(Whole(f.halves), low, high) = high  BY <1>2, <1>4, <2>2 DEF Clamp
    <3> QED BY <1>4, <2>2, <3>1 DEF Within, Nearest
  <2>3. CASE ~tooLow /\ ~tooHigh
    <3>1. Clamp(Whole(f.halves), low, high) = Whole(f.halves)  BY <1>2, <1>4, <2>3 DEF Clamp
    <3> QED BY <1>4, <2>3, <3>1 DEF Within, Nearest
  <2> QED BY <2>1, <2>2, <2>3
<1> QED BY <1>3, <1>4

LEMMA SignedNearest ==
  ASSUME NEW f \in Float(Halves), NEW max \in Nat, NEW top \in {max, max + 1}
  PROVE  /\ NumberToSigned(f, -max - 1, top, max, TRUE) = Nearest(f, -max - 1, max)
         /\ ~LooksInfinite(f) =>
              LongDoubleToSigned(f, -max - 1, max, TRUE) = Nearest(f, -max - 1, max)
<1>1. f.kind \in {"finite", "inf", "-inf", "nan"} /\ f.halves \in Int
  BY CastAssumption, FloatKinds
<1>2. ASSUME NEW t \in {max, max + 1}
      PROVE  Within(f, AtMost(f, -max - 1), Done(-max - 1), AtLeast(f, t), Done(max))
               = Nearest(f, -max - 1, max)
  <2>1. AtMost(f, -max - 1) \in BOOLEAN /\ AtLeast(f, t) \in BOOLEAN
    BY DEF AtMost, AtLeast
  <2>2. f.kind = "inf" => ~AtMost(f, -max - 1) /\ AtLeast(f, t)
    BY DEF AtMost, AtLeast
  <2>3. f.kind = "-inf" => AtMost(f, -max - 1)
    BY DEF AtMost
  <2>4. ASSUME f.kind = "finite", AtMost(f, -max - 1)
        PROVE  Whole(f.halves) <= -max - 1
    <3>1. f.halves <= 2 * (-max - 1)  BY <2>4 DEF AtMost
    <3> QED BY <1>1, <3>1, WholeOrder
  <2>5. ASSUME f.kind = "finite", AtLeast(f, t)
        PROVE  max <= Whole(f.halves)
    <3>1. 2 * max <= f.halves  BY <1>1, <2>5 DEF AtLeast
    <3> QED BY <1>1, <3>1, WholeOrder
  <2>6. ASSUME f.kind = "finite", ~AtMost(f, -max - 1), ~AtLeast(f, t)
        PROVE  Whole(f.halves) \in -max - 1 .. max
    <3>1. 2 * (-max - 1) - 1 <= f.halves /\ f.halves < 2 * (max + 1)
      BY <1>1, <2>6 DEF AtMost, AtLeast
    <3>2. PICK low \in Int : low = -max - 1 /\ low <= 0  OBVIOUS
    <3>3. 2 * low - 1 <= f.halves /\ f.halves < 2 * (max + 1)  BY <3>1, <3>2
    <3>4. Whole(f.halves) \in low .. max
      <4>1. f.halves \in Int /\ max \in Int /\ 0 <= max  BY <1>1
      <4> QED BY ONLY <3>2, <3>3, <4>1, WholeBetween
    <3> QED BY <3>2, <3>4
  <2> QED BY <2>1, <2>2, <2>3, <2>4, <2>5, <2>6, WithinNearest
<1>3. NumberToSigned(f, -max - 1, top, max, TRUE) = Nearest(f, -max - 1, max)
  BY <1>2 DEF NumberToSigned, IfForced
<1>4. ASSUME ~LooksInfinite(f)
      PROVE  LongDoubleToSigned(f, -max - 1, max, TRUE) = Nearest(f, -max - 1, max)
  <2>1. (LooksInfinite(f) \/ AtMost(f, -max - 1)) = AtMost(f, -max - 1)
    BY <1>4 DEF AtMost
  <2>2. LongDoubleToSigned(f, -max - 1, max, TRUE)
          = Within(f, AtMost(f, -max - 1), Done(-max - 1), AtLeast(f, max), Done(max))
    BY <2>1 DEF LongDoubleToSigned, IfForced
  <2> QED BY <1>2, <2>2
<1> QED BY <1>3, <1>4

LEMMA UnsignedNearest ==
  ASSUME NEW f \in Float(Halves), NEW max \in Nat, NEW top \in {max, max + 1}
  PROVE  /\ NumberToUnsigned(f, top, max, TRUE) = Nearest(f, 0, max)
         /\ LongDoubleToUnsigned(f, max, TRUE) = Nearest(f, 0, max)
<1>1. f.kind \in {"finite", "inf", "-inf", "nan"} /\ f.halves \in Int
  BY CastAssumption, FloatKinds
<1>2. ASSUME NEW t \in {max, max + 1}, NEW tooLow \in BOOLEAN,
             f.kind = "inf" => ~tooLow, f.kind = "-inf" => tooLow,
             f.kind = "finite" => IF tooLow THEN f.halves <= 0 ELSE f.halves >= 0
      PROVE  Within(f, tooLow, Done(0), AtLeast(f, t), Done(max)) = Nearest(f, 0, max)
  <2>1. AtLeast(f, t) \in BOOLEAN
    BY DEF AtLeast
  <2>2. f.kind = "inf" => AtLeast(f, t)
    BY DEF AtLeast
  <2>3. ASSUME f.kind = "finite", tooLow
        PROVE  Whole(f.halves) <= 0
    BY <1>1, <1>2, <2>3, WholeOrder
  <2>4. ASSUME f.kind = "finite", AtLeast(f, t)
        PROVE  max <= Whole(f.halves)
    <3>1. 2 * max <= f.halves  BY <1>1, <2>4 DEF AtLeast
    <3> QED BY <1>1, <3>1, WholeOrder
  <2>5. ASSUME f.kind = "finite", ~tooLow, ~AtLeast(f, t)
        PROVE  Whole(f.halves) \in 0 .. max
    <3>1. 2 * 0 - 1 <= f.halves /\ f.halves < 2 * (max + 1)
      BY <1>1, <1>2, <2>5 DEF AtLeast
    <3> QED BY <1>1, <3>1, WholeBetween
  <2> QED BY <1>2, <2>1, <2>2, <2>3, <2>4, <2>5, WithinNearest
<1>3. NumberToUnsigned(f, top, max, TRUE)
        = Within(f, AtMost(f, 0), Done(0), AtLeast(f, top), Done(max))
  BY DEF NumberToUnsigned, IfForced
<1>4. LongDoubleToUnsigned(f, max, TRUE)
        = Within(f, Under(f, 0), Done(0), AtLeast(f, max), Done(max))
  BY DEF LongDoubleToUnsigned, IfForced
<1>5. /\ AtMost(f, 0) \in BOOLEAN /\ Under(f, 0) \in BOOLEAN
      /\ f.kind = "inf" => ~AtMost(f, 0) /\ ~Under(f, 0)
      /\ f.kind = "-inf" => AtMost(f, 0) /\ Under(f, 0)
  BY DEF AtMost, Under
<1>6. ASSUME f.kind = "finite"
      PROVE  /\ IF AtMost(f, 0) THEN f.halves <= 0 ELSE f.halves >= 0
             /\ IF Under(f, 0) THEN f.halves <= 0 ELSE f.halves >= 0
  BY <1>1, <1>6 DEF AtMost, Under
<1> QED BY <1>2, <1>3, <1>4, <1>5, <1>6

LEMMA CastNearest ==
  ASSUME NEW t \in Target, NEW v \in Value, v.type \in {"number", "longdouble"},
         v.type = "longdouble" => ~LooksInfinite(v.x)
  PROVE  Cast(t, v, TRUE) = Nearest(v.x, Lowest(t), Highest(t))
<1>1. v.x \in Float(Halves)  BY SourceTypes
<1>2. CASE t = "int32"
  <2>1. Cast(t, v, TRUE) = IF v.type = "number"
           THEN NumberToSigned(v.x, -INT32_MAX - 1, INT32_MAX, INT32_MAX, TRUE)
           ELSE LongDoubleToSigned(v.x, -INT32_MAX - 1, INT32_MAX, TRUE)
    BY <1>2, Limits DEF Cast, ToInt32
  <2>2. Lowest(t) = -INT32_MAX - 1 /\ Highest(t) = INT32_MAX /\ INT32_MAX \in Nat
    BY <1>2, Limits DEF Lowest, Highest
  <2> QED BY <1>1, <2>1, <2>2, SignedNearest
<1>3. CASE t = "longint"
  <2>1. Cast(t, v, TRUE) = IF v.type = "number"
           THEN NumberToSigned(v.x, -INT64_MAX - 1, INT64_MAX + 1, INT64_MAX, TRUE)
           ELSE LongDoubleToSigned(v.x, -INT64_MAX - 1, INT64_MAX, TRUE)
    BY <1>3, Limits DEF Cast, ToLongint
  <2>2. Lowest(t) = -INT64_MAX - 1 /\ Highest(t) = INT64_MAX /\ INT64_MAX \in Nat
    BY <1>3, Limits DEF Lowest, Highest
  <2> QED BY <1>1, <2>1, <2>2, SignedNearest
<1>4. CASE t = "uint32"
  <2>1. Cast(t, v, TRUE) = IF v.type = "number"
           THEN NumberToUnsigned(v.x, UINT32_MAX, UINT32_MAX, TRUE)
           ELSE LongDoubleToUnsigned(v.x, UINT32_MAX, TRUE)
    BY <1>4 DEF Cast, ToUint32
  <2>2. Lowest(t) = 0 /\ Highest(t) = UINT32_MAX /\ UINT32_MAX \in Nat
    BY <1>4, Limits DEF Lowest, Highest
  <2> QED BY <1>1, <2>1, <2>2, UnsignedNearest
<1>5. CASE t = "ulongint"
  <2>1. Cast(t, v, TRUE) = IF v.type = "number"
           THEN NumberToUnsigned(v.x, UINT64_MAX + 1, UINT64_MAX, TRUE)
           ELSE LongDoubleToUnsigned(v.x, UINT64_MAX, TRUE)
    BY <1>5 DEF Cast, ToUlongint
  <2>2. Lowest(t) = 0 /\ Highest(t) = UINT64_MAX /\ UINT64_MAX \in Nat
    BY <1>5, Limits DEF Lowest, Highest
  <2> QED BY <1>1, <2>1, <2>2, UnsignedNearest
<1> QED BY <1>2, <1>3, <1>4, <1>5 DEF Target

(* For every width: a forced cast of a floating-point value gives the      *)
(* nearest integer of the target (purc_variant_cast_to_int32 and others).  *)
THEOREM ForcedIsNearest == Spec => []ForcedClamps
<1>1. IInv => ForcedClamps
  <2> SUFFICES ASSUME IInv, to \in Target, forced, value.type \in {"number", "longdouble"},
                      ~(value.type = "longdouble" /\ LooksInfinite(value.x))
               PROVE  result = CASE value.x.kind = "nan"  -> Failed
                                 [] value.x.kind = "inf"  -> Done(Highest(to))
                                 [] value.x.kind = "-inf" -> Done(Lowest(to))
                                 [] OTHER -> Done(Clamp(IntegerPart(value), Lowest(to), Highest(to)))
    BY DEF ForcedClamps
  <2>1. value \in Value /\ result = Cast(to, value, TRUE)
    BY DEF IInv, Chosen, Told
  <2>2. result = Nearest(value.x, Lowest(to), Highest(to))
    BY <2>1, CastNearest
  <2>3. IntegerPart(value) = Whole(value.x.halves)
    BY DEF IntegerPart
  <2> QED BY <2>2, <2>3 DEF Nearest
<1> QED BY <1>1, Inductive, PTL
=============================================================================
