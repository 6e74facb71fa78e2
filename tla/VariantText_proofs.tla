-------------------------- MODULE VariantText_proofs --------------------------
(* The comparisons of values that nest to any depth.                       *)
EXTENDS VariantText, SequenceTheorems, WellFoundedInduction, TLAPS

(* Induction up to a bound, by the set of the numbers that are right.      *)
LEMMA Steps ==
  ASSUME NEW n \in Nat, NEW P, 0 \in P, \A i \in 1 .. n : i - 1 \in P => i \in P
  PROVE  0 .. n \subseteq P
<1> PICK R : R = OpToRel(<, Nat)
  OBVIOUS
<1>1. IsWellFoundedOn(R, Nat)
  BY NatLessThanWellFounded
<1>2. \A x, y \in Nat : x < y => <<x, y>> \in R
  BY DEF OpToRel
<1>3. SUFFICES ASSUME (0 .. n) \ P # {} PROVE FALSE
  OBVIOUS
<1>0. \A i \in 0 .. n : i \in Nat /\ (i # 0 => i \in 1 .. n)
  BY ONLY n \in Nat
<1> PICK Q : Q = (0 .. n) \ P
  OBVIOUS
<1>9. Q \subseteq Nat /\ Q # {} /\ (\A j : j \in Q <=> (j \in 0 .. n /\ j \notin P))
  BY <1>0, <1>3, Zenon
<1>4. PICK i \in Q : \A j \in Q : <<j, i>> \notin R
  BY ONLY <1>1, <1>9, WFMin
<1>5. i \in 1 .. n /\ i \notin P
  BY <1>0, <1>4, <1>9, 0 \in P, Zenon
<1>6. i - 1 \in Nat /\ i - 1 < i /\ i - 1 \in 0 .. n /\ i \in Nat
  BY ONLY <1>5, n \in Nat
<1>7. i - 1 \in P
  BY <1>2, <1>4, <1>6, <1>9
<1> QED
  BY <1>5, <1>7

(* The least of some natural numbers.                                      *)
LEMMA Least ==
  ASSUME NEW S, S \subseteq Nat, S # {}
  PROVE  FirstIn(S) \in S /\ \A j \in S : FirstIn(S) <= j
<1> PICK R : R = OpToRel(<, Nat)
  OBVIOUS
<1>1. IsWellFoundedOn(R, Nat)
  BY NatLessThanWellFounded
<1>2. \A x, y \in Nat : x < y => <<x, y>> \in R
  BY DEF OpToRel
<1>3. PICK i \in S : \A j \in S : <<j, i>> \notin R
  BY ONLY <1>1, S \subseteq Nat, S # {}, WFMin
<1>4. \A j \in S : i <= j
  <2> TAKE j \in S
  <2>1. i \in Nat /\ j \in Nat
    OBVIOUS
  <2>2. ~(j < i)
    BY <1>2, <1>3, <2>1
  <2> QED
    BY ONLY <2>1, <2>2
<1> QED
  BY <1>4 DEF FirstIn

(* A function can be defined step by step from its value at 0.             *)
Recursive(n, T, first, F) ==
  n \in Nat /\ first \in T /\ \A i \in 1 .. n, t \in T : F[i][t] \in T
Solves(f, n, T, first, F) ==
  f \in [0 .. n -> T] /\ f[0] = first /\ \A i \in 1 .. n : f[i] = F[i][f[i - 1]]

LEMMA Recursion ==
  ASSUME NEW n, NEW T, NEW first, NEW F, Recursive(n, T, first, F)
  PROVE  \E f : Solves(f, n, T, first, F)
<1> DEFINE Up(f, m) == [i \in 0 .. m |-> IF i = 0 THEN first ELSE F[i][f[i - 1]]]
           P == {m \in 0 .. n : \E f \in [0 .. m -> T] : f = Up(f, m)}
<1>0. n \in Nat /\ first \in T /\ \A i \in 1 .. n, t \in T : F[i][t] \in T
  BY DEF Recursive
<1>1. 0 \in P
  <2> USE <1>0
  <2> PICK f : f = [i \in 0 .. 0 |-> first]
    OBVIOUS
  <2>1. f \in [0 .. 0 -> T] /\ f = Up(f, 0)
    OBVIOUS
  <2> QED
    BY <2>1
<1>2. ASSUME NEW m \in 1 .. n, m - 1 \in P PROVE m \in P
  <2> USE <1>0
  <2>1. PICK f \in [0 .. m - 1 -> T] : f = Up(f, m - 1)
    BY <1>2
  <2> PICK g : g = [i \in 0 .. m |-> IF i = m THEN F[m][f[m - 1]] ELSE f[i]]
    OBVIOUS
  <2>2. f[m - 1] \in T
    BY <2>1
  <2>3. g \in [0 .. m -> T]
    <3>1. \A i \in 0 .. m : i # m => i \in 0 .. m - 1
      OBVIOUS
    <3>2. \A i \in 0 .. m : i # m => f[i] \in T
      BY <2>1, <3>1
    <3> QED
      BY <2>2, <3>2
  <2>4. ASSUME NEW i \in 0 .. m PROVE g[i] = Up(g, m)[i]
    <3>1. CASE i = 0
      <4>1. 0 \in 0 .. m - 1 /\ 0 # m /\ 0 \in 0 .. m
        OBVIOUS
      <4>2. f[0] = first
        BY <2>1, <4>1
      <4> QED
        BY <3>1, <4>1, <4>2
    <3>2. CASE i # 0
      <4>1. i - 1 \in 0 .. m - 1 /\ i - 1 # m /\ i - 1 \in 0 .. m
        BY <3>2
      <4>2. g[i - 1] = f[i - 1]
        BY <4>1
      <4>3. Up(g, m)[i] = F[i][f[i - 1]]
        BY <3>2, <4>2
      <4>4. CASE i = m
        BY <4>3, <4>4
      <4>5. CASE i # m
        <5>1. i \in 0 .. m - 1
          BY <4>5
        <5>2. f[i] = F[i][f[i - 1]]
          BY <2>1, <3>2, <5>1
        <5>3. g[i] = f[i]
          BY <4>5
        <5> QED
          BY <4>3, <5>2, <5>3
      <4> QED
        BY <4>4, <4>5
    <3> QED
      BY <3>1, <3>2
  <2>5. g = Up(g, m)
    BY <2>3, <2>4
  <2> QED
    BY <2>3, <2>5
<1>3. 0 .. n \subseteq P
  <2> HIDE DEF P
  <2> QED
    BY <1>0, <1>1, <1>2, Steps
<1>4. n \in 0 .. n
  BY <1>0
<1>5. n \in P
  <2> HIDE DEF P
  <2> QED
    BY <1>3, <1>4
<1>6. PICK f \in [0 .. n -> T] : f = Up(f, n)
  BY <1>5
<1>7. f[0] = first
  BY <1>0, <1>6
<1>8. ASSUME NEW i \in 1 .. n PROVE f[i] = F[i][f[i - 1]]
  <2>1. i \in 0 .. n /\ i # 0
    BY <1>0
  <2> QED
    BY <1>6, <2>1
<1> QED
  BY <1>6, <1>7, <1>8 DEF Solves

-----------------------------------------------------------------------------
(* The types and their numbers.                                            *)
LEMMA TypeList ==
  /\ TypeNames[1] = "undefined"
  /\ TypeNames[2] = "null"
  /\ TypeNames[3] = "boolean"
  /\ TypeNames[4] = "exception"
  /\ TypeNames[5] = "number"
  /\ TypeNames[6] = "longint"
  /\ TypeNames[7] = "ulongint"
  /\ TypeNames[8] = "longdouble"
  /\ TypeNames[9] = "atomstring"
  /\ TypeNames[10] = "string"
  /\ TypeNames[11] = "bsequence"
  /\ TypeNames[12] = "dynamic"
  /\ TypeNames[13] = "native"
  /\ TypeNames[14] = "object"
  /\ TypeNames[15] = "array"
  /\ TypeNames[16] = "set"
  /\ TypeNames[17] = "tuple"
BY DEF TypeNames

LEMMA TypeNumbers ==
  /\ TypeNo("undefined") = 1
  /\ TypeNo("null") = 2
  /\ TypeNo("boolean") = 3
  /\ TypeNo("exception") = 4
  /\ TypeNo("number") = 5
  /\ TypeNo("longint") = 6
  /\ TypeNo("ulongint") = 7
  /\ TypeNo("longdouble") = 8
  /\ TypeNo("atomstring") = 9
  /\ TypeNo("string") = 10
  /\ TypeNo("bsequence") = 11
  /\ TypeNo("dynamic") = 12
  /\ TypeNo("native") = 13
  /\ TypeNo("object") = 14
  /\ TypeNo("array") = 15
  /\ TypeNo("set") = 16
  /\ TypeNo("tuple") = 17
<1>1. \A i \in 1 .. 17 : \/ i = 1 \/ i = 2 \/ i = 3 \/ i = 4 \/ i = 5 \/ i = 6 \/ i = 7 \/ i = 8 \/ i = 9
                          \/ i = 10 \/ i = 11 \/ i = 12 \/ i = 13 \/ i = 14 \/ i = 15 \/ i = 16 \/ i = 17
  OBVIOUS
<1>2. \A i, j \in 1 .. 17 : TypeNames[i] = TypeNames[j] => i = j
  BY <1>1, TypeList
<1>3. \A i \in 1 .. 17 : TypeNo(TypeNames[i]) = i
  BY <1>2 DEF TypeNo
<1> QED
  BY <1>3, TypeList

LEMMA TypesAre ==
  /\ Types = {"undefined", "null", "boolean", "exception", "number", "longint", "ulongint",
              "longdouble", "atomstring", "string", "bsequence", "dynamic", "native",
              "object", "array", "set", "tuple"}
  /\ Scalars = {"undefined", "null", "boolean", "exception", "number", "longint", "ulongint",
                "longdouble", "atomstring", "string", "bsequence", "dynamic", "native"}
<1>1. \A i \in 1 .. 17 : \/ i = 1 \/ i = 2 \/ i = 3 \/ i = 4 \/ i = 5 \/ i = 6 \/ i = 7 \/ i = 8 \/ i = 9
                          \/ i = 10 \/ i = 11 \/ i = 12 \/ i = 13 \/ i = 14 \/ i = 15 \/ i = 16 \/ i = 17
  OBVIOUS
<1>2. Types = {"undefined", "null", "boolean", "exception", "number", "longint", "ulongint",
              "longdouble", "atomstring", "string", "bsequence", "dynamic", "native",
              "object", "array", "set", "tuple"}
  <2>1. \A t \in Types : t \in {"undefined", "null", "boolean", "exception", "number", "longint", "ulongint",
              "longdouble", "atomstring", "string", "bsequence", "dynamic", "native",
              "object", "array", "set", "tuple"}
    BY <1>1, TypeList DEF Types
  <2>2. \A i \in 1 .. 17 : TypeNames[i] \in Types
    BY DEF Types
  <2>3. \A t \in {"undefined", "null", "boolean", "exception", "number", "longint", "ulongint",
              "longdouble", "atomstring", "string", "bsequence", "dynamic", "native",
              "object", "array", "set", "tuple"} : t \in Types
    BY <2>2, TypeList
  <2> QED
    BY <2>1, <2>3
<1> QED
  BY <1>2 DEF Scalars, Container

(* What a value is: nothing, a scalar, a list of values, or an object.     *)
Listed == Container \ {"object"}
Inner == Value \ {Invalid}

LEMMA Shapes ==
  ASSUME NEW v \in Any
  PROVE  \/ v = Invalid
         \/ /\ v.type \in Scalars /\ v.x \in ScalarOf(v.type)
            /\ v = [type |-> v.type, x |-> v.x]
         \/ /\ v.type \in Listed /\ v.x \in Seq(Inner)
            /\ v = [type |-> v.type, x |-> v.x] /\ v \in Inner
         \/ /\ v.type = "object" /\ v.x \in Seq(String \X Inner) /\ KeysSorted(v.x)
            /\ v = [type |-> v.type, x |-> v.x] /\ v \in Inner
<1>1. CASE v = Undefined
  <2>1. v.type = "undefined" /\ v.x = 0
    BY <1>1 DEF Undefined
  <2>2. v.type \in Scalars /\ v.x \in ScalarOf(v.type)
    BY <2>1, TypesAre DEF ScalarOf, OfNumber, Atom
  <2> QED
    BY <1>1, <2>1, <2>2 DEF Undefined
<1>2. CASE v \in Value \ {Invalid}
  BY <1>2, CompareAssumption DEF WellFormed, Listed, Inner
<1> QED
  BY <1>1, <1>2 DEF Any

LEMMA KindsApart ==
  /\ "invalid" \notin Types /\ Scalars \cap Container = {} /\ Scalars \cup Container = Types
  /\ Container = Listed \cup {"object"} /\ "object" \notin Listed
  /\ OfNumber \subseteq Scalars /\ Atom \subseteq Scalars /\ Address \subseteq Scalars
  /\ Invalid.type = "invalid" /\ Invalid \in Any /\ Undefined \in Any /\ Inner \subseteq Any
BY TypesAre DEF Container, Listed, OfNumber, Atom, Address, Invalid, Undefined, Any, Inner

-----------------------------------------------------------------------------
(* Signs.                                                                  *)
Signs == {-1, 0, 1}

LEMMA ZeroHasNoSign == 0 = -0
<1>1. PICK n \in Int : n <= 0 /\ 0 <= n
  BY 0 \in Int
<1>2. n = 0 /\ -n = n
  BY <1>1
<1> QED
  BY <1>2, Zenon

LEMMA SgnFacts ==
  ASSUME NEW a \in Int, NEW b \in Int
  PROVE  /\ Sgn(a, b) \in Signs /\ Sgn(b, a) = -Sgn(a, b)
         /\ (Sgn(a, b) = 0) <=> (a = b)
         /\ (Sgn(a, b) <= 0) <=> (a <= b)
         /\ (Sgn(a, b) = 1) <=> (b < a)
         /\ (Sgn(a, b) = -1) <=> (a < b)
BY DEF Sgn, Signs

LEMMA DoublesFacts ==
  ASSUME NEW a \in Int, NEW b \in Int
  PROVE  /\ EqualDoubles(a, b) <=> EqualDoubles(b, a)
         /\ ~IsInfinite(a) => EqualDoubles(a, a)
<1>1. Epsilon \in Nat \ {0} /\ Infinity \in Nat
  BY CompareAssumption
<1>2. Abs(a - b) = Abs(b - a) /\ Larger(Abs(a), Abs(b)) = Larger(Abs(b), Abs(a))
  BY DEF Abs, Larger
<1>3. Abs(a - a) * Epsilon <= Larger(Abs(a), Abs(a))
  <2>1. Abs(a - a) = 0 /\ 0 <= Larger(Abs(a), Abs(a))
    BY DEF Abs, Larger
  <2>2. 0 * Epsilon = 0
    BY <1>1
  <2> QED
    BY <2>1, <2>2
<1>4. EqualDoubles(a, b) <=> EqualDoubles(b, a)
  BY <1>2 DEF EqualDoubles
<1> QED
  BY <1>3, <1>4 DEF EqualDoubles

(* Either the first difference decides, or there is none.                  *)
LEMMA Decided ==
  ASSUME NEW diffs, DOMAIN diffs \subseteq Nat, NEW l1, NEW r1
  PROVE  \/ \E i \in DOMAIN diffs : /\ diffs[i] # 0 /\ Decide(diffs, l1, r1) = diffs[i]
                                    /\ \A j \in DOMAIN diffs : j < i => diffs[j] = 0
         \/ /\ \A i \in DOMAIN diffs : diffs[i] = 0
            /\ Decide(diffs, l1, r1) = LengthDiff(l1, r1)
<1> PICK D : D = {i \in DOMAIN diffs : diffs[i] # 0}
  OBVIOUS
<1>1. CASE D = {}
  BY <1>1 DEF Decide
<1>2. CASE D # {}
  <2>1. D \subseteq Nat
    OBVIOUS
  <2>2. FirstIn(D) \in D /\ \A j \in D : FirstIn(D) <= j
    BY ONLY <1>2, <2>1, Least
  <2> PICK i : i = FirstIn(D)
    OBVIOUS
  <2>3. Decide(diffs, l1, r1) = diffs[i]
    BY <1>2 DEF Decide
  <2>4. i \in DOMAIN diffs /\ diffs[i] # 0
    BY <2>2
  <2>5. \A j \in DOMAIN diffs : j < i => diffs[j] = 0
    <3> SUFFICES ASSUME NEW j \in DOMAIN diffs, j < i, diffs[j] # 0 PROVE FALSE
      OBVIOUS
    <3>1. j \in D /\ j \in Nat /\ i \in Nat
      BY <2>4
    <3>2. i <= j
      BY <2>2, <3>1
    <3> QED
      BY ONLY <3>1, <3>2, j < i
  <2> QED
    BY <2>3, <2>4, <2>5
<1> QED
  BY <1>1, <1>2

(* What two sequences have in common.                                      *)
LEMMA CommonIs ==
  ASSUME NEW S, NEW T, NEW s \in Seq(S), NEW t \in Seq(T)
  PROVE  /\ Len(s) \in Nat /\ Len(t) \in Nat
         /\ \A i : i \in Common(s, t) <=> i \in Nat /\ 1 <= i /\ i <= Len(s) /\ i <= Len(t)
         /\ \A i \in Common(s, t) : s[i] \in S /\ t[i] \in T
         /\ Common(s, t) \subseteq Nat /\ Common(t, s) = Common(s, t)
         /\ LengthDiff(s, t) = Sgn(Len(s), Len(t))
<1>1. Len(s) \in Nat /\ Len(t) \in Nat
  OBVIOUS
<1> PICK m \in Nat, n \in Nat : m = Len(s) /\ n = Len(t)
  BY <1>1
<1>2. \A i : i \in Common(s, t) <=> i \in Nat /\ 1 <= i /\ i <= m /\ i <= n
  BY DEF Common
<1>3. \A i : i \in Common(t, s) <=> i \in Nat /\ 1 <= i /\ i <= m /\ i <= n
  BY DEF Common
<1>4. Common(t, s) = Common(s, t)
  BY ONLY <1>2, <1>3
<1>5. \A i \in Common(s, t) : s[i] \in S /\ t[i] \in T
  BY <1>2
<1> QED
  BY <1>1, <1>2, <1>4, <1>5 DEF LengthDiff

LEMMA DecideTyped ==
  ASSUME NEW S, NEW T, NEW s \in Seq(S), NEW t \in Seq(T), NEW d, DOMAIN d = Common(s, t),
         NEW R, Signs \subseteq R, \A i \in DOMAIN d : d[i] \in R
  PROVE  Decide(d, s, t) \in R
<1>1. DOMAIN d \subseteq Nat /\ Len(s) \in Nat /\ Len(t) \in Nat /\ LengthDiff(s, t) = Sgn(Len(s), Len(t))
  BY CommonIs
<1>2. LengthDiff(s, t) \in R
  BY <1>1, SgnFacts
<1> QED
  BY <1>1, <1>2, Decided

LEMMA DecideSwaps ==
  ASSUME NEW S, NEW T, NEW s \in Seq(S), NEW t \in Seq(T),
         NEW d, DOMAIN d = Common(s, t), NEW e, DOMAIN e = Common(s, t),
         \A i \in DOMAIN d : d[i] \in Int /\ e[i] = -d[i]
  PROVE  Decide(e, t, s) = -Decide(d, s, t)
<1> PICK D : D = DOMAIN d
  OBVIOUS
<1>1. D \subseteq Nat /\ DOMAIN d = D /\ DOMAIN e = D
  BY CommonIs
<1>2. LengthDiff(t, s) = -LengthDiff(s, t)
  BY CommonIs, SgnFacts
<1>3. \A i \in D : (e[i] = 0) <=> (d[i] = 0)
  BY <1>1
<1> PICK x, y : x = Decide(d, s, t) /\ y = Decide(e, t, s)
  OBVIOUS
<1>4. \/ \E i \in D : d[i] # 0 /\ x = d[i] /\ \A j \in D : j < i => d[j] = 0
      \/ (\A i \in D : d[i] = 0) /\ x = LengthDiff(s, t)
  BY <1>1, Decided
<1>5. \/ \E i \in D : e[i] # 0 /\ y = e[i] /\ \A j \in D : j < i => e[j] = 0
      \/ (\A i \in D : e[i] = 0) /\ y = LengthDiff(t, s)
  BY <1>1, Decided
<1>6. CASE \A i \in D : d[i] = 0
  BY <1>2, <1>3, <1>4, <1>5, <1>6
<1>7. CASE \E i \in D : d[i] # 0
  <2> PICK i \in D : d[i] # 0 /\ x = d[i] /\ \A j \in D : j < i => d[j] = 0
    BY <1>4, <1>7
  <2> PICK k \in D : e[k] # 0 /\ y = e[k] /\ \A j \in D : j < k => e[j] = 0
    BY <1>3, <1>5, <1>7
  <2>1. ~(k < i) /\ ~(i < k)
    BY <1>3
  <2>2. i \in Nat /\ k \in Nat
    BY <1>1
  <2>3. i = k
    BY ONLY <2>1, <2>2
  <2>4. e[i] = -d[i]
    BY <1>1
  <2> QED
    BY <2>3, <2>4
<1> QED
  BY <1>6, <1>7

LEMMA DecideZero ==
  ASSUME NEW S, NEW T, NEW s \in Seq(S), NEW t \in Seq(T), NEW d, DOMAIN d = Common(s, t)
  PROVE  Decide(d, s, t) = 0 <=> Len(s) = Len(t) /\ \A i \in 1 .. Len(s) : d[i] = 0
<1>1. DOMAIN d \subseteq Nat
  BY CommonIs
<1>2. LengthDiff(s, t) = 0 <=> Len(s) = Len(t)
  BY CommonIs, SgnFacts
<1>3. Len(s) = Len(t) => DOMAIN d = 1 .. Len(s)
  BY DEF Common
<1> QED
  BY <1>1, <1>2, <1>3, Decided

(* Three answers fit together: at most, and no difference only from none.  *)
Fits(a, b, c) == a <= 0 /\ b <= 0 => c <= 0 /\ (c = 0 <=> a = 0 /\ b = 0)

LEMMA DecideFits ==
  ASSUME NEW S, NEW s \in Seq(S), NEW t \in Seq(S), NEW u \in Seq(S),
         NEW d, DOMAIN d = Common(s, t), NEW e, DOMAIN e = Common(t, u), NEW f, DOMAIN f = Common(s, u),
         \A i \in DOMAIN d : d[i] \in Int, \A i \in DOMAIN e : e[i] \in Int, \A i \in DOMAIN f : f[i] \in Int,
         \A i \in Nat : i \in DOMAIN d /\ i \in DOMAIN e /\ i \in DOMAIN f => Fits(d[i], e[i], f[i])
  PROVE  Fits(Decide(d, s, t), Decide(e, t, u), Decide(f, s, u))
<1> PICK a, b, c : a = Decide(d, s, t) /\ b = Decide(e, t, u) /\ c = Decide(f, s, u)
  OBVIOUS
<1> PICK m \in Nat, n \in Nat, o \in Nat : m = Len(s) /\ n = Len(t) /\ o = Len(u)
  BY CommonIs
<1>1. /\ \A i : i \in DOMAIN d <=> i \in Nat /\ 1 <= i /\ i <= m /\ i <= n
      /\ \A i : i \in DOMAIN e <=> i \in Nat /\ 1 <= i /\ i <= n /\ i <= o
      /\ \A i : i \in DOMAIN f <=> i \in Nat /\ 1 <= i /\ i <= m /\ i <= o
  BY CommonIs
<1>2. DOMAIN d \subseteq Nat /\ DOMAIN e \subseteq Nat /\ DOMAIN f \subseteq Nat
  BY <1>1
<1>3. \/ \E i \in DOMAIN d : d[i] # 0 /\ a = d[i] /\ \A j \in DOMAIN d : j < i => d[j] = 0
      \/ (\A i \in DOMAIN d : d[i] = 0) /\ a = Sgn(m, n)
  BY <1>2, Decided, CommonIs
<1>4. \/ \E i \in DOMAIN e : e[i] # 0 /\ b = e[i] /\ \A j \in DOMAIN e : j < i => e[j] = 0
      \/ (\A i \in DOMAIN e : e[i] = 0) /\ b = Sgn(n, o)
  BY <1>2, Decided, CommonIs
<1>5. \/ \E i \in DOMAIN f : f[i] # 0 /\ c = f[i] /\ \A j \in DOMAIN f : j < i => f[j] = 0
      \/ (\A i \in DOMAIN f : f[i] = 0) /\ c = Sgn(m, o)
  BY <1>2, Decided, CommonIs
<1>6. SUFFICES ASSUME a <= 0, b <= 0 PROVE c <= 0 /\ (c = 0 <=> a = 0 /\ b = 0)
  BY DEF Fits
<1>7. ASSUME NEW k \in Nat, k \in DOMAIN d, k \in DOMAIN e, k \in DOMAIN f,
             d[k] <= 0, e[k] <= 0, d[k] # 0 \/ e[k] # 0,
             \A j \in Nat : j < k => (j \in DOMAIN d => d[j] = 0) /\ (j \in DOMAIN e => e[j] = 0)
      PROVE  c \in Int /\ c < 0
  <2>1. Fits(d[k], e[k], f[k]) /\ d[k] \in Int /\ e[k] \in Int /\ f[k] \in Int
    BY <1>7
  <2>2. f[k] < 0
    BY ONLY <2>1, <1>7 DEF Fits
  <2>3. \A j \in Nat : j < k /\ j \in DOMAIN f => j \in DOMAIN d /\ j \in DOMAIN e
    BY <1>1, <1>7
  <2>4. ASSUME NEW j \in Nat, j < k, j \in DOMAIN f PROVE f[j] = 0
    <3>1. d[j] = 0 /\ e[j] = 0 /\ Fits(d[j], e[j], f[j]) /\ f[j] \in Int
      BY <1>7, <2>3, <2>4
    <3> QED
      BY <3>1 DEF Fits
  <2>5. PICK i \in DOMAIN f : f[i] # 0 /\ c = f[i] /\ \A j \in DOMAIN f : j < i => f[j] = 0
    <3>1. f[k] # 0
      BY <2>1, <2>2
    <3> QED
      BY <1>5, <1>7, <3>1
  <2>6. i \in Nat /\ ~(i < k) /\ ~(k < i)
    BY <1>2, <1>7, <2>1, <2>2, <2>4, <2>5
  <2>7. i = k
    BY ONLY <2>6, k \in Nat
  <2> QED
    BY <2>2, <2>5, <2>7
<1>8. CASE \E i \in DOMAIN d : d[i] # 0
  <2>1. PICK i \in DOMAIN d : d[i] # 0 /\ a = d[i] /\ \A j \in DOMAIN d : j < i => d[j] = 0
    BY <1>3, <1>8
  <2>2. i \in Nat /\ d[i] \in Int /\ d[i] < 0
    BY <1>2, <1>6, <2>1
  <2>3. CASE \E k \in DOMAIN e : e[k] # 0
    <3>1. PICK k \in DOMAIN e : e[k] # 0 /\ b = e[k] /\ \A j \in DOMAIN e : j < k => e[j] = 0
      BY <1>4, <2>3
    <3>2. k \in Nat /\ e[k] \in Int /\ e[k] < 0
      BY <1>2, <1>6, <3>1
    <3>3. CASE i <= k
      <4>1. i \in DOMAIN e /\ i \in DOMAIN f
        BY <1>1, <2>1, <2>2, <3>1, <3>2, <3>3
      <4>2. e[i] <= 0
        BY <2>2, <3>1, <3>2, <3>3, <4>1
      <4>3. \A j \in Nat : j < i => j < k
        BY <2>2, <3>2, <3>3
      <4>4. c \in Int /\ c < 0
        BY <1>7, <2>1, <2>2, <3>1, <4>1, <4>2, <4>3
      <4> QED
        BY <1>5, <2>1, <2>2, <4>4
    <3>4. CASE k < i
      <4>1. k \in DOMAIN d /\ k \in DOMAIN f
        BY <1>1, <2>1, <2>2, <3>1, <3>2, <3>4
      <4>2. d[k] = 0
        BY <2>1, <3>4, <4>1
      <4>3. \A j \in Nat : j < k => j < i
        BY <2>2, <3>2, <3>4
      <4>4. c \in Int /\ c < 0
        BY <1>7, <2>1, <3>1, <3>2, <4>1, <4>2, <4>3
      <4> QED
        BY <1>5, <2>1, <2>2, <4>4
    <3> QED
      BY <2>2, <3>2, <3>3, <3>4
  <2>4. CASE \A k \in DOMAIN e : e[k] = 0
    <3>1. b = Sgn(n, o) /\ n <= o
      BY <1>4, <1>6, <2>4, SgnFacts
    <3>2. i \in DOMAIN e /\ i \in DOMAIN f
      BY <1>1, <2>1, <2>2, <3>1
    <3>3. c \in Int /\ c < 0
      BY <1>7, <2>1, <2>2, <2>4, <3>2
    <3> QED
      BY <2>1, <2>2, <3>3
  <2> QED
    BY <2>3, <2>4
<1>9. CASE \A i \in DOMAIN d : d[i] = 0
  <2>1. a = Sgn(m, n) /\ m <= n
    BY <1>3, <1>6, <1>9, SgnFacts
  <2>2. CASE \E k \in DOMAIN e : e[k] # 0
    <3>1. PICK k \in DOMAIN e : e[k] # 0 /\ b = e[k] /\ \A j \in DOMAIN e : j < k => e[j] = 0
      BY <1>4, <2>2
    <3>2. k \in Nat /\ e[k] \in Int /\ e[k] < 0 /\ 1 <= k /\ k <= o
      BY <1>1, <1>2, <1>6, <3>1
    <3>3. CASE k <= m
      <4>1. k \in DOMAIN d /\ k \in DOMAIN f
        BY <1>1, <3>1, <3>2, <3>3
      <4>2. d[k] = 0
        BY <1>9, <4>1
      <4>3. c \in Int /\ c < 0
        BY SMTT(30), <1>7, <1>9, <3>1, <3>2, <4>1, <4>2
      <4> QED
        BY <3>1, <3>2, <4>3
    <3>4. CASE m < k
      <4>1. ASSUME NEW j \in DOMAIN f PROVE f[j] = 0
        <5>1. j \in Nat /\ j \in DOMAIN d /\ j \in DOMAIN e /\ j < k
          BY <1>1, <2>1, <3>1, <3>2, <3>4
        <5>2. d[j] = 0 /\ e[j] = 0 /\ Fits(d[j], e[j], f[j]) /\ f[j] \in Int
          BY <1>9, <3>1, <5>1
        <5> QED
          BY <5>2 DEF Fits
      <4>2. c = Sgn(m, o) /\ m < o
        BY <1>5, <3>2, <3>4, <4>1
      <4>3. c = -1
        BY <4>2, SgnFacts
      <4> QED
        BY <3>1, <3>2, <4>3
    <3> QED
      BY <3>2, <3>3, <3>4
  <2>3. CASE \A k \in DOMAIN e : e[k] = 0
    <3>1. b = Sgn(n, o) /\ n <= o
      BY <1>4, <1>6, <2>3, SgnFacts
    <3>2. ASSUME NEW j \in DOMAIN f PROVE f[j] = 0
      <4>1. j \in Nat /\ j \in DOMAIN d /\ j \in DOMAIN e
        BY <1>1, <2>1, <3>1
      <4>2. d[j] = 0 /\ e[j] = 0 /\ Fits(d[j], e[j], f[j]) /\ f[j] \in Int
        BY <1>9, <2>3, <4>1
      <4> QED
        BY <4>2 DEF Fits
    <3>3. c = Sgn(m, o)
      BY <1>5, <3>2
    <3> QED
      BY <2>1, <3>1, <3>3 DEF Sgn
  <2> QED
    BY <2>2, <2>3
<1> QED
  BY <1>8, <1>9

-----------------------------------------------------------------------------
(* Values of different classes are ordered by class, whatever is in them.  *)
Answers == Signs \cup {Aborts}
Tables == [Any -> [Any -> Answers]]
Plain == {"boolean", "exception", "longint", "ulongint", "atomstring"}
Class(v, un) ==
  IF v = Invalid THEN 0 ELSE IF un /\ v.type \in OfNumber THEN 5 ELSE TypeNo(v.type)

LEMMA ClassIs ==
  ASSUME NEW v \in Any, NEW un \in BOOLEAN
  PROVE  /\ Class(v, un) \in 0 .. 17
         /\ Class(v, un) = 0 <=> v = Invalid
         /\ v # Invalid => v.type \in Types
         /\ v # Invalid /\ v.type \in OfNumber => TypeNo(v.type) \in 5 .. 8 /\ (un => Class(v, un) = 5)
         /\ v # Invalid /\ v.type \notin OfNumber => TypeNo(v.type) \in (0 .. 17) \ (0 .. 0 \cup 5 .. 8)
         /\ v # Invalid /\ (~un \/ v.type \notin OfNumber) => Class(v, un) = TypeNo(v.type)
<1>1. \A t \in Types : /\ TypeNo(t) \in 1 .. 17
                       /\ t \in OfNumber => TypeNo(t) \in 5 .. 8
                       /\ t \notin OfNumber => TypeNo(t) \notin 5 .. 8
  BY TypesAre, TypeNumbers DEF OfNumber
<1>2. v # Invalid => v.type \in Types
  BY Shapes, KindsApart
<1> PICK t, k : t = v.type /\ k = TypeNo(t)
  OBVIOUS
<1>3. v # Invalid => /\ t \in Types /\ k \in 1 .. 17 /\ (t \in OfNumber => k \in 5 .. 8)
                     /\ (t \notin OfNumber => k \notin 5 .. 8)
  BY <1>1, <1>2
<1> QED
  BY <1>3 DEF Class

LEMMA NumberClass ==
  ASSUME NEW v \in Any, NEW w \in Any, v # Invalid, w # Invalid,
         v.type \in OfNumber, w.type \notin OfNumber
  PROVE  Class(v, TRUE) # Class(w, TRUE)
<1>1. Class(v, TRUE) = 5
  BY ClassIs
<1> PICK k : k = Class(w, TRUE)
  OBVIOUS
<1>2. k = TypeNo(w.type) /\ TypeNo(w.type) \in (0 .. 17) \ (0 .. 0 \cup 5 .. 8)
  BY ClassIs
<1>3. k # 5
  BY ONLY <1>2
<1> QED
  BY <1>1, <1>3

LEMMA TypeNoInjective ==
  ASSUME NEW t \in Types, NEW u \in Types, TypeNo(t) = TypeNo(u)
  PROVE  t = u
BY TypesAre, TypeNumbers

LEMMA OtherClass ==
  ASSUME NEW v \in Any, NEW w \in Any, NEW cl, NEW un \in BOOLEAN, NEW be, NEW C,
         Class(v, un) # Class(w, un)
  PROVE  CompareStep(C, v, w, cl, un, be) = Sgn(Class(v, un), Class(w, un))
<1> PICK a \in 0 .. 17, b \in 0 .. 17 : a = Class(v, un) /\ b = Class(w, un)
  BY ClassIs
<1> PICK s : s = CompareStep(C, v, w, cl, un, be)
  OBVIOUS
<1>1. a # b
  OBVIOUS
<1>2. CASE v = Invalid \/ w = Invalid
  <2>1. (a = 0 <=> v = Invalid) /\ (b = 0 <=> w = Invalid)
    BY ClassIs
  <2>2. s = IF v = Invalid THEN -1 ELSE 1
    BY <1>1, <1>2, <2>1 DEF CompareStep
  <2> QED
    BY <1>1, <1>2, <2>1, <2>2 DEF Sgn
<1>3. CASE v # Invalid /\ w # Invalid
  <2> PICK x, y : x = TypeNo(v.type) /\ y = TypeNo(w.type)
    OBVIOUS
  <2>1. ~Unified(v, w, un)
    BY <1>1, <1>3, ClassIs DEF Unified
  <2>2. v.type # w.type
    BY <1>1, <1>3 DEF Class
  <2>3. s = Sgn(x, y)
    BY <1>3, <2>1, <2>2 DEF CompareStep
  <2>4. Sgn(x, y) = Sgn(a, b)
    <3>1. /\ (un /\ v.type \in OfNumber) => a = 5 /\ x \in 5 .. 8
          /\ ~(un /\ v.type \in OfNumber) => a = x
          /\ (un /\ w.type \in OfNumber) => b = 5 /\ y \in 5 .. 8
          /\ ~(un /\ w.type \in OfNumber) => b = y
      BY <1>3, ClassIs
    <3>2. un /\ v.type \notin OfNumber => x \notin 5 .. 8
      BY <1>3, ClassIs
    <3>3. un /\ w.type \notin OfNumber => y \notin 5 .. 8
      BY <1>3, ClassIs
    <3>4. ~(un /\ v.type \in OfNumber /\ w.type \in OfNumber)
      BY <1>3, <2>1 DEF Unified
    <3> QED
      BY <1>1, <3>1, <3>2, <3>3, <3>4 DEF Sgn
  <2> QED
    BY <2>3, <2>4
<1> QED
  BY <1>2, <1>3

LEMMA ScalarSets ==
  ASSUME NEW t \in Scalars
  PROVE  /\ t \in {"undefined", "null"} => ScalarOf(t) = {0}
         /\ t \in OfNumber => ScalarOf(t) = Int
         /\ t \in Atom => ScalarOf(t) = DOMAIN AtomString
         /\ t = "string" => ScalarOf(t) = String
         /\ t = "bsequence" => ScalarOf(t) = Seq(Nat)
         /\ t = "boolean" => ScalarOf(t) = {0, 1}
         /\ t \in Address => ScalarOf(t) = Nat
BY DEF ScalarOf, OfNumber, Atom, Address

LEMMA ScalarShape ==
  ASSUME NEW v \in Any, v.type \in Scalars
  PROVE  /\ v # Invalid /\ v.x \in ScalarOf(v.type)
         /\ v.type \in OfNumber => v.x \in Int
         /\ v = [type |-> v.type, x |-> v.x]
<1>1. v # Invalid
  BY KindsApart
<1>2. v.x \in ScalarOf(v.type) /\ v = [type |-> v.type, x |-> v.x]
  BY <1>1, Shapes, KindsApart
<1>3. v.type \in OfNumber => ScalarOf(v.type) = Int
  BY ScalarSets
<1> QED
  BY <1>1, <1>2, <1>3

LEMMA ListShape ==
  ASSUME NEW v \in Any
  PROVE  /\ v.type \in Listed => v.x \in Seq(Inner) /\ v \in Inner
         /\ v.type = "object" => v.x \in Seq(String \X Inner) /\ KeysSorted(v.x) /\ v \in Inner
<1> PICK t : t = v.type
  OBVIOUS
<1>1. t \in Listed \/ t = "object" => v # Invalid /\ t \notin Scalars
  BY KindsApart
<1> QED
  BY <1>1, Shapes, KindsApart

LEMMA SameScalar ==
  ASSUME NEW v, NEW w, NEW cl, NEW un \in BOOLEAN, NEW be, NEW C, NEW s,
         v.type \in Scalars, v.x \in ScalarOf(v.type), w.x \in ScalarOf(v.type),
         un => v.type \notin OfNumber, s = SameTypeStep(C, v, w, cl, be)
  PROVE        \/ v.type \in {"undefined", "null"} /\ s = 0 /\ v.x = 0 /\ w.x = 0
               \/ /\ ~un /\ v.type \in Float /\ v.x \in Int /\ w.x \in Int
                  /\ s = IF EqualDoubles(v.x, w.x) THEN 0 ELSE IF v.x < w.x THEN -1 ELSE 1
               \/ /\ v.type = "string" /\ v.x \in String /\ w.x \in String
                  /\ s = IF cl THEN Sgn(Fold[v.x], Fold[w.x]) ELSE Sgn(v.x, w.x)
               \/ /\ v.type = "bsequence" /\ v.x \in Seq(Nat) /\ w.x \in Seq(Nat)
                  /\ s = CompareBytes(v.x, w.x, be)
               \/ v.type \in Address /\ s = IF v.x = w.x THEN 1 ELSE 0
               \/ v.type \in Plain /\ v.x \in Int /\ w.x \in Int /\ s = Sgn(v.x, w.x)
<1> PICK t, x, y : t = v.type /\ x = v.x /\ y = w.x
  OBVIOUS
<1>1. t \in Scalars /\ x \in ScalarOf(t) /\ y \in ScalarOf(t)
  OBVIOUS
<1>2. CASE t \in {"undefined", "null"}
  <2>1. ScalarOf(t) = {0}
    BY <1>1, <1>2, ScalarSets
  <2> QED
    BY <1>1, <1>2, <2>1 DEF SameTypeStep, Float, Address, Container
<1>3. CASE t \in Float
  <2>1. t \in OfNumber
    BY <1>3 DEF Float, OfNumber
  <2>2. ScalarOf(t) = Int
    BY <1>1, <2>1, ScalarSets
  <2>3. s = IF EqualDoubles(x, y) THEN 0 ELSE IF x < y THEN -1 ELSE 1
    BY <1>3 DEF SameTypeStep, Float, Address, Container
  <2> QED
    BY <1>1, <1>3, <2>1, <2>2, <2>3
<1>4. CASE t = "string"
  <2>1. ScalarOf(t) = String
    BY <1>1, <1>4, ScalarSets
  <2>2. s = IF cl THEN Sgn(Fold[x], Fold[y]) ELSE Sgn(x, y)
    BY <1>4 DEF SameTypeStep, Float, Address, Container
  <2> QED
    BY <1>1, <1>4, <2>1, <2>2
<1>5. CASE t = "bsequence"
  <2>1. ScalarOf(t) = Seq(Nat)
    BY <1>1, <1>5, ScalarSets
  <2>2. s = CompareBytes(x, y, be)
    BY <1>5 DEF SameTypeStep, Float, Address, Container
  <2> QED
    BY <1>1, <1>5, <2>1, <2>2
<1>6. CASE t \in Address
  <2>1. s = IF x = y THEN 1 ELSE 0
    BY <1>6 DEF SameTypeStep, Float, Address, Container
  <2> QED
    BY <1>6, <2>1
<1>7. CASE t \in Plain
  <2>1. s = Sgn(x, y)
    BY <1>7 DEF SameTypeStep, Float, Address, Container, Plain
  <2>2. ScalarOf(t) \subseteq Int
    <3>1. DOMAIN AtomString \subseteq Int
      BY CompareAssumption
    <3> QED
      BY <1>1, <1>7, <3>1, ScalarSets DEF Plain, OfNumber, Atom
  <2> QED
    BY <1>1, <1>7, <2>1, <2>2
<1>8. t \in {"undefined", "null", "string", "bsequence"} \cup Float \cup Address \cup Plain
  BY <1>1, TypesAre DEF Float, Address, Plain
<1> QED
  BY <1>2, <1>3, <1>4, <1>5, <1>6, <1>7, <1>8

(* Values of one class are compared by what is in them.                    *)
Within(C, v, w, cl, un, be, s) ==
         \/ v = Invalid /\ w = Invalid /\ s = 0
         \/ /\ v # Invalid /\ w # Invalid /\ un
            /\ v.type \in OfNumber /\ w.type \in OfNumber /\ v.x \in Int /\ w.x \in Int
            /\ s = IF IsInfinite(v.x) \/ IsInfinite(w.x) THEN Aborts
                   ELSE IF EqualDoubles(v.x, w.x) THEN 0 ELSE Sgn(v.x, w.x)
         \/ /\ v # Invalid /\ w # Invalid /\ v.type = w.type
            /\ \/ v.type \in {"undefined", "null"} /\ s = 0 /\ v.x = 0 /\ w.x = 0
               \/ /\ ~un /\ v.type \in Float /\ v.x \in Int /\ w.x \in Int
                  /\ s = IF EqualDoubles(v.x, w.x) THEN 0 ELSE IF v.x < w.x THEN -1 ELSE 1
               \/ /\ v.type = "string" /\ v.x \in String /\ w.x \in String
                  /\ s = IF cl THEN Sgn(Fold[v.x], Fold[w.x]) ELSE Sgn(v.x, w.x)
               \/ /\ v.type = "bsequence" /\ v.x \in Seq(Nat) /\ w.x \in Seq(Nat)
                  /\ s = CompareBytes(v.x, w.x, be)
               \/ v.type \in Address /\ s = IF v.x = w.x THEN 1 ELSE 0
               \/ /\ v.type = "object" /\ v.x \in Seq(String \X Inner) /\ w.x \in Seq(String \X Inner)
                  /\ KeysSorted(v.x) /\ KeysSorted(w.x)
                  /\ s = Decide(PairDiffs(C, v.x, w.x), v.x, w.x)
               \/ /\ v.type \in Listed /\ v.x \in Seq(Inner) /\ w.x \in Seq(Inner)
                  /\ s = Decide(MemberDiffs(C, v.x, w.x), v.x, w.x)
               \/ /\ v.type \in Plain /\ (un => v.type \notin OfNumber)
                  /\ v.x \in Int /\ w.x \in Int /\ s = Sgn(v.x, w.x)

LEMMA SameClass ==
  ASSUME NEW v \in Any, NEW w \in Any, NEW cl, NEW un \in BOOLEAN, NEW be, NEW C, NEW s,
         Class(v, un) = Class(w, un), s = CompareStep(C, v, w, cl, un, be)
  PROVE  Within(C, v, w, cl, un, be, s)
<1>1. CASE v = Invalid \/ w = Invalid
  <2>1. v = Invalid /\ w = Invalid
    BY <1>1, ClassIs
  <2> QED
    BY <2>1 DEF CompareStep, Within
<1>2. CASE v # Invalid /\ w # Invalid /\ Unified(v, w, un)
  <2>1. un /\ v.type \in OfNumber /\ w.type \in OfNumber
    BY <1>2 DEF Unified
  <2>2. v.x \in Int /\ w.x \in Int
    BY <1>2, <2>1, ScalarShape, KindsApart
  <2> QED
    BY <1>2, <2>1, <2>2 DEF CompareStep, Within
<1>3. CASE v # Invalid /\ w # Invalid /\ ~Unified(v, w, un)
  <2>1. v.type = w.type /\ (un => v.type \notin OfNumber)
    <3>1. v.type \in Types /\ w.type \in Types
      BY <1>3, ClassIs
    <3>2. CASE ~un
      BY <1>3, <3>1, <3>2, ClassIs, TypeNoInjective
    <3>3. CASE un /\ v.type \in OfNumber
      <4>1. w.type \notin OfNumber
        BY <1>3, <3>3 DEF Unified
      <4> QED
        BY <1>3, <3>3, <4>1, NumberClass
    <3>4. CASE un /\ w.type \in OfNumber
      <4>1. v.type \notin OfNumber
        BY <1>3, <3>4 DEF Unified
      <4> QED
        BY <1>3, <3>4, <4>1, NumberClass
    <3>5. CASE un /\ v.type \notin OfNumber /\ w.type \notin OfNumber
      BY <1>3, <3>1, <3>5, ClassIs, TypeNoInjective
    <3> QED
      BY <3>2, <3>3, <3>4, <3>5
  <2> PICK t : t = v.type
    OBVIOUS
  <2>2. s = SameTypeStep(C, v, w, cl, be)
    BY <1>3, <2>1 DEF CompareStep
  <2>3. t \in Types /\ w.type = t
    BY <1>3, <2>1, ClassIs
  <2>4. CASE t \in Scalars
    <3>1. v.x \in ScalarOf(t) /\ w.x \in ScalarOf(t)
      BY <1>3, <2>1, <2>4, ScalarShape
    <3> QED
      BY <1>3, <2>1, <2>2, <2>4, <3>1, SameScalar DEF Within
  <2>5. CASE t \in Listed
    <3>1. v.x \in Seq(Inner) /\ w.x \in Seq(Inner)
      BY <1>3, <2>1, <2>5, ListShape
    <3>2. s = Decide(MemberDiffs(C, v.x, w.x), v.x, w.x)
      BY <2>2, <2>5, TypesAre DEF SameTypeStep, Listed, Container, Float, Address
    <3> QED
      BY <1>3, <2>1, <2>5, <3>1, <3>2 DEF Within
  <2>6. CASE t = "object"
    <3>1. /\ v.x \in Seq(String \X Inner) /\ w.x \in Seq(String \X Inner)
          /\ KeysSorted(v.x) /\ KeysSorted(w.x)
      BY <1>3, <2>1, <2>6, ListShape
    <3>2. s = Decide(PairDiffs(C, v.x, w.x), v.x, w.x)
      BY <2>2, <2>6 DEF SameTypeStep, Container, Float, Address
    <3> QED
      BY <1>3, <2>1, <2>6, <3>1, <3>2 DEF Within
  <2> QED
    BY <2>3, <2>4, <2>5, <2>6, KindsApart
<1> QED
  BY <1>1, <1>2, <1>3

-----------------------------------------------------------------------------
(* The answers at every depth, as the recursion defines them.              *)
LEMMA BytesTyped ==
  ASSUME NEW x \in Seq(Nat), NEW y \in Seq(Nat)
  PROVE  /\ DOMAIN ByteDiffs(x, y) = Common(x, y)
         /\ \A i \in Common(x, y) : ByteDiffs(x, y)[i] = Sgn(x[i], y[i]) /\ x[i] \in Int /\ y[i] \in Int
         /\ Decide(ByteDiffs(x, y), x, y) \in Signs
<1>1. DOMAIN ByteDiffs(x, y) = Common(x, y)
  BY DEF ByteDiffs
<1>2. \A i \in Common(x, y) : ByteDiffs(x, y)[i] = Sgn(x[i], y[i])
  BY DEF ByteDiffs
<1>3. \A i \in Common(x, y) : x[i] \in Int /\ y[i] \in Int
  BY CommonIs
<1>4. \A i \in Common(x, y) : ByteDiffs(x, y)[i] \in Signs
  BY <1>2, <1>3, SgnFacts
<1> PICK d : d = ByteDiffs(x, y)
  OBVIOUS
<1>5. Decide(d, x, y) \in Signs
  BY <1>1, <1>4, DecideTyped
<1> QED
  BY <1>1, <1>2, <1>3, <1>5

LEMMA MembersTyped ==
  ASSUME NEW C, NEW R, Signs \subseteq R, C \in [Any -> [Any -> R]]
  PROVE  /\ \A x, y \in Seq(Inner) :
              /\ DOMAIN MemberDiffs(C, x, y) = Common(x, y)
              /\ \A i \in Common(x, y) : MemberDiffs(C, x, y)[i] = C[x[i]][y[i]] /\ C[x[i]][y[i]] \in R
              /\ Decide(MemberDiffs(C, x, y), x, y) \in R
         /\ \A x, y \in Seq(String \X Inner) :
              /\ DOMAIN PairDiffs(C, x, y) = Common(x, y)
              /\ \A i \in Common(x, y) :
                   PairDiffs(C, x, y)[i] = IF x[i][1] # y[i][1] THEN Sgn(x[i][1], y[i][1]) ELSE C[x[i][2]][y[i][2]]
              /\ \A i \in Common(x, y) : PairDiffs(C, x, y)[i] \in R
              /\ Decide(PairDiffs(C, x, y), x, y) \in R
<1>0. Inner \subseteq Any /\ String \subseteq Int
  BY KindsApart, CompareAssumption
<1>1. ASSUME NEW x \in Seq(Inner), NEW y \in Seq(Inner)
      PROVE  /\ DOMAIN MemberDiffs(C, x, y) = Common(x, y)
             /\ \A i \in Common(x, y) : MemberDiffs(C, x, y)[i] = C[x[i]][y[i]] /\ C[x[i]][y[i]] \in R
             /\ Decide(MemberDiffs(C, x, y), x, y) \in R
  <2> PICK d : d = MemberDiffs(C, x, y)
    OBVIOUS
  <2>1. DOMAIN d = Common(x, y) /\ \A i \in Common(x, y) : d[i] = C[x[i]][y[i]]
    BY DEF MemberDiffs
  <2>2. \A i \in Common(x, y) : C[x[i]][y[i]] \in R
    <3> TAKE i \in Common(x, y)
    <3>1. x[i] \in Any /\ y[i] \in Any
      BY <1>0, CommonIs
    <3> QED
      BY <3>1
  <2>3. Decide(d, x, y) \in R
    BY <2>1, <2>2, DecideTyped
  <2> QED
    BY <2>1, <2>2, <2>3
<1>2. ASSUME NEW x \in Seq(String \X Inner), NEW y \in Seq(String \X Inner)
      PROVE  /\ DOMAIN PairDiffs(C, x, y) = Common(x, y)
             /\ \A i \in Common(x, y) :
                   PairDiffs(C, x, y)[i] = IF x[i][1] # y[i][1] THEN Sgn(x[i][1], y[i][1]) ELSE C[x[i][2]][y[i][2]]
             /\ \A i \in Common(x, y) : PairDiffs(C, x, y)[i] \in R
             /\ Decide(PairDiffs(C, x, y), x, y) \in R
  <2> PICK d : d = PairDiffs(C, x, y)
    OBVIOUS
  <2>1. /\ DOMAIN d = Common(x, y)
        /\ \A i \in Common(x, y) : d[i] = IF x[i][1] # y[i][1] THEN Sgn(x[i][1], y[i][1]) ELSE C[x[i][2]][y[i][2]]
    BY DEF PairDiffs
  <2>2. \A i \in Common(x, y) : d[i] \in R
    <3> TAKE i \in Common(x, y)
    <3>1. x[i] \in String \X Inner /\ y[i] \in String \X Inner
      BY CommonIs
    <3>2. x[i][1] \in Int /\ y[i][1] \in Int /\ x[i][2] \in Any /\ y[i][2] \in Any
      BY <1>0, <3>1
    <3>3. Sgn(x[i][1], y[i][1]) \in R /\ C[x[i][2]][y[i][2]] \in R
      BY <3>2, SgnFacts
    <3> QED
      BY <2>1, <3>3
  <2>3. Decide(d, x, y) \in R
    BY <2>1, <2>2, DecideTyped
  <2> QED
    BY <2>1, <2>2, <2>3
<1> QED
  BY <1>1, <1>2

LEMMA StepTyped ==
  ASSUME NEW C \in Tables, NEW v \in Any, NEW w \in Any,
         NEW cl \in BOOLEAN, NEW un \in BOOLEAN, NEW be \in Signs
  PROVE  CompareStep(C, v, w, cl, un, be) \in Answers
<1> PICK s : s = CompareStep(C, v, w, cl, un, be)
  OBVIOUS
<1>1. Signs \subseteq Answers /\ Aborts \in Answers /\ 0 \in Answers /\ 1 \in Answers /\ -1 \in Answers
  BY DEF Answers, Signs
<1>2. CASE Class(v, un) # Class(w, un)
  <2>1. Class(v, un) \in Int /\ Class(w, un) \in Int
    BY ClassIs
  <2> QED
    BY <1>1, <1>2, <2>1, OtherClass, SgnFacts
<1>3. CASE Class(v, un) = Class(w, un)
  <2>1. \A a, b \in Int : Sgn(a, b) \in Answers
    BY <1>1, SgnFacts
  <2>2. \A a \in String : a \in Int /\ Fold[a] \in Int
    BY CompareAssumption
  <2>3. \A x, y \in Seq(Nat) : CompareBytes(x, y, be) \in Answers
    BY <1>1, BytesTyped DEF CompareBytes
  <2>4. /\ \A x, y \in Seq(Inner) : Decide(MemberDiffs(C, x, y), x, y) \in Answers
        /\ \A x, y \in Seq(String \X Inner) : Decide(PairDiffs(C, x, y), x, y) \in Answers
    BY <1>1, MembersTyped DEF Tables
  <2>5. Within(C, v, w, cl, un, be, s)
    BY <1>3, SameClass
  <2> QED
    BY <1>1, <2>1, <2>2, <2>3, <2>4, <2>5 DEF Within
<1> QED
  BY <1>2, <1>3

LEMMA CompareIs ==
  ASSUME NEW cl \in BOOLEAN, NEW un \in BOOLEAN, NEW be \in Signs,
         NEW A, A = CompareAt(cl, un, be)
  PROVE  /\ \A d \in 0 .. Depth : A[d] \in Tables
         /\ \A v, w \in Any : A[0][v][w] = 0
         /\ \A d \in 1 .. Depth : \A v, w \in Any : A[d][v][w] = CompareStep(A[d - 1], v, w, cl, un, be)
<1>0. Depth \in Nat
  BY CompareAssumption
<1> DEFINE First == [v \in Any |-> [w \in Any |-> 0]]
           Row(t) == [v \in Any |-> [w \in Any |-> CompareStep(t, v, w, cl, un, be)]]
           F == [d \in 1 .. Depth |-> [t \in Tables |-> Row(t)]]
           Body(f) == [d \in 0 .. Depth |-> [v \in Any |-> [w \in Any |->
                         IF d = 0 THEN 0 ELSE CompareStep(f[d - 1], v, w, cl, un, be)]]]
<1>1. First \in Tables
  BY DEF Tables, Answers, Signs
<1>2. \A t \in Tables : Row(t) \in Tables
  BY StepTyped DEF Tables
<1>3. \A d \in 1 .. Depth, t \in Tables : F[d][t] = Row(t) /\ F[d][t] \in Tables
  BY <1>2
<1>4. \E f : Solves(f, Depth, Tables, First, F)
  <2>1. Recursive(Depth, Tables, First, F)
    BY <1>0, <1>1, <1>3 DEF Recursive
  <2> HIDE DEF F, First
  <2> QED
    BY ONLY <2>1, Recursion
<1>5. \E f : f = Body(f)
  <2> PICK f : Solves(f, Depth, Tables, First, F)
    BY <1>4
  <2>0. f \in [0 .. Depth -> Tables] /\ f[0] = First /\ \A d \in 1 .. Depth : f[d] = F[d][f[d - 1]]
    BY DEF Solves
  <2>1. ASSUME NEW d \in 0 .. Depth
        PROVE  f[d] = [v \in Any |-> [w \in Any |-> IF d = 0 THEN 0 ELSE CompareStep(f[d - 1], v, w, cl, un, be)]]
    <3>1. CASE d = 0
      BY <2>0, <3>1
    <3>2. CASE d # 0
      <4>1. d \in 1 .. Depth /\ d - 1 \in 0 .. Depth
        BY <1>0, <3>2
      <4>2. f[d - 1] \in Tables
        BY <2>0, <4>1
      <4>3. f[d] = Row(f[d - 1])
        <5> HIDE DEF F, First, Row
        <5> QED
          BY <1>3, <2>0, <4>1, <4>2
      <4> QED
        BY <3>2, <4>3
    <3> QED
      BY <3>1, <3>2
  <2>2. DOMAIN f = 0 .. Depth
    BY <2>0
  <2>3. f = Body(f)
    BY <2>0, <2>1, <2>2
  <2> HIDE DEF Body
  <2> QED
    BY <2>3
<1>6. A = Body(A)
  BY <1>5 DEF CompareAt
<1>7. \A v, w \in Any : A[0][v][w] = 0
  BY <1>0, <1>6
<1>8. \A d \in 1 .. Depth : \A v, w \in Any : A[d][v][w] = CompareStep(A[d - 1], v, w, cl, un, be)
  <2> TAKE d \in 1 .. Depth
  <2> TAKE v, w \in Any
  <2>1. d \in 0 .. Depth /\ d # 0
    BY <1>0
  <2>2. A[d] = [v1 \in Any |-> [w1 \in Any |-> IF d = 0 THEN 0 ELSE CompareStep(A[d - 1], v1, w1, cl, un, be)]]
    BY <1>6, <2>1
  <2>3. A[d][v][w] = IF d = 0 THEN 0 ELSE CompareStep(A[d - 1], v, w, cl, un, be)
    BY <2>2
  <2> QED
    BY <2>1, <2>3
<1>9. \A d \in 0 .. Depth : A[d] \in Tables
  <2> DEFINE P == {d \in 0 .. Depth : A[d] \in Tables}
  <2>1. 0 \in P
    <3>1. A[0] = First
      BY <1>0, <1>6
    <3> QED
      BY <1>0, <1>1, <3>1
  <2>2. ASSUME NEW d \in 1 .. Depth, d - 1 \in P PROVE d \in P
    <3>0. d \in 0 .. Depth /\ d # 0
      BY <1>0
    <3>1. A[d] = Row(A[d - 1])
      BY ZenonT(40), <1>6, <3>0
    <3>2. A[d - 1] \in Tables
      BY <2>2
    <3>3. A[d] \in Tables
      <4> HIDE DEF Row
      <4> QED
        BY <1>2, <3>1, <3>2
    <3> QED
      BY <3>0, <3>3
  <2>3. 0 .. Depth \subseteq P
    <3> HIDE DEF P
    <3> QED
      BY <1>0, <2>1, <2>2, Steps
  <2> QED
    BY <2>3
<1> QED
  BY <1>7, <1>8, <1>9

(* The members of a value are values.                                      *)
LEMMA MembersAre ==
  ASSUME NEW v \in Any
  PROVE  /\ Members(v) \subseteq Inner
         /\ v.type \in Listed => \A i \in 1 .. Len(v.x) : v.x[i] \in Members(v)
         /\ v.type = "object" => \A i \in 1 .. Len(v.x) : v.x[i][2] \in Members(v) /\ v.x[i][1] \in String
<1>1. v.type \notin Container => Members(v) = {}
  BY KindsApart DEF Members
<1>2. CASE v.type = "object"
  <2>1. v.x \in Seq(String \X Inner)
    BY <1>2, ListShape
  <2>2. \A i \in 1 .. Len(v.x) : v.x[i] \in String \X Inner
    BY <2>1
  <2>3. Members(v) = {v.x[i][2] : i \in 1 .. Len(v.x)}
    BY <1>2 DEF Members
  <2> QED
    BY <1>2, <2>2, <2>3, KindsApart
<1>3. CASE v.type \in Listed
  <2>1. v.x \in Seq(Inner)
    BY <1>3, ListShape
  <2>2. \A i \in 1 .. Len(v.x) : v.x[i] \in Inner
    BY <2>1
  <2>3. Members(v) = {v.x[i] : i \in 1 .. Len(v.x)}
    BY <1>3, KindsApart DEF Members
  <2> QED
    BY <1>3, <2>2, <2>3, KindsApart
<1> QED
  BY <1>1, <1>2, <1>3, KindsApart

LEMMA PartsAre ==
  /\ \A d \in 0 .. Depth : PartsAt[d] \in [Any -> SUBSET Any]
  /\ \A d \in 1 .. Depth : \A v \in Any :
       /\ v \in PartsAt[d][v]
       /\ \A m \in Members(v) : PartsAt[d - 1][m] \subseteq PartsAt[d][v]
<1>0. Depth \in Nat
  BY CompareAssumption
<1> DEFINE T == [Any -> SUBSET Any]
           First == [v \in Any |-> {}]
           Row(t) == [v \in Any |-> {v} \cup UNION {t[m] : m \in Members(v)}]
           F == [d \in 1 .. Depth |-> [t \in T |-> Row(t)]]
           Body(f) == [d \in 0 .. Depth |->
                         [v \in Any |-> IF d = 0 THEN {} ELSE {v} \cup UNION {f[d - 1][m] : m \in Members(v)}]]
<1>1. First \in T
  OBVIOUS
<1>2. \A t \in T : Row(t) \in T
  <2> TAKE t \in T
  <2>1. ASSUME NEW v \in Any PROVE {v} \cup UNION {t[m] : m \in Members(v)} \in SUBSET Any
    <3>1. \A m \in Members(v) : t[m] \subseteq Any
      BY MembersAre, KindsApart
    <3> QED
      BY <3>1
  <2> QED
    BY <2>1
<1>3. \A d \in 1 .. Depth, t \in T : F[d][t] = Row(t) /\ F[d][t] \in T
  <2> HIDE DEF T
  <2> QED
    BY <1>2
<1>4. \E f : Solves(f, Depth, T, First, F)
  <2>1. Recursive(Depth, T, First, F)
    <3> HIDE DEF T, First, F
    <3> QED
      BY <1>0, <1>1, <1>3 DEF Recursive
  <2> HIDE DEF F, First, T
  <2> QED
    BY ONLY <2>1, Recursion
<1>5. \E f : f = Body(f)
  <2> PICK f : Solves(f, Depth, T, First, F)
    BY <1>4
  <2>0. f \in [0 .. Depth -> T] /\ f[0] = First /\ \A d \in 1 .. Depth : f[d] = F[d][f[d - 1]]
    <3> HIDE DEF T, First, F
    <3> QED
      BY DEF Solves
  <2>1. ASSUME NEW d \in 0 .. Depth
        PROVE  f[d] = [v \in Any |-> IF d = 0 THEN {} ELSE {v} \cup UNION {f[d - 1][m] : m \in Members(v)}]
    <3>1. CASE d = 0
      BY <2>0, <3>1
    <3>2. CASE d # 0
      <4>1. d \in 1 .. Depth /\ d - 1 \in 0 .. Depth
        BY <1>0, <3>2
      <4>2. f[d - 1] \in T
        <5> HIDE DEF T
        <5> QED
          BY <2>0, <4>1
      <4>3. f[d] = Row(f[d - 1])
        <5> HIDE DEF F, First, Row, T
        <5> QED
          BY <1>3, <2>0, <4>1, <4>2
      <4> QED
        BY <3>2, <4>3
    <3> QED
      BY <3>1, <3>2
  <2>2. DOMAIN f = 0 .. Depth
    BY <2>0
  <2>3. f = Body(f)
    BY <2>0, <2>1, <2>2
  <2> HIDE DEF Body
  <2> QED
    BY <2>3
<1>6. PartsAt = Body(PartsAt)
  BY <1>5 DEF PartsAt
<1>8. ASSUME NEW d \in 1 .. Depth
      PROVE  d \in 0 .. Depth /\ PartsAt[d] = Row(PartsAt[d - 1])
  <2>1. d \in 0 .. Depth /\ d # 0
    BY <1>0
  <2>2. PartsAt[d] = [v \in Any |-> IF d = 0 THEN {} ELSE {v} \cup UNION {PartsAt[d - 1][m] : m \in Members(v)}]
    BY <1>6, <2>1
  <2> QED
    BY <2>1, <2>2
<1>9. \A d \in 0 .. Depth : PartsAt[d] \in T
  <2> DEFINE P == {d \in 0 .. Depth : PartsAt[d] \in T}
  <2>1. 0 \in P
    <3>1. PartsAt[0] = First
      BY <1>0, <1>6
    <3> QED
      BY <1>0, <1>1, <3>1
  <2>2. ASSUME NEW d \in 1 .. Depth, d - 1 \in P PROVE d \in P
    <3>1. d \in 0 .. Depth /\ PartsAt[d] = Row(PartsAt[d - 1])
      BY <1>8
    <3>2. PartsAt[d - 1] \in T
      BY <2>2
    <3> HIDE DEF T, Row
    <3> QED
      BY <1>2, <3>1, <3>2
  <2>3. 0 .. Depth \subseteq P
    <3> HIDE DEF P
    <3> QED
      BY <1>0, <2>1, <2>2, Steps
  <2> QED
    BY <2>3
<1>10. \A d \in 1 .. Depth : \A v \in Any :
       /\ v \in PartsAt[d][v]
       /\ \A m \in Members(v) : PartsAt[d - 1][m] \subseteq PartsAt[d][v]
  <2> TAKE d \in 1 .. Depth
  <2> TAKE v \in Any
  <2>1. PartsAt[d][v] = {v} \cup UNION {PartsAt[d - 1][m] : m \in Members(v)}
    BY <1>8
  <2> QED
    BY <2>1
<1> QED
  BY <1>9, <1>10

-----------------------------------------------------------------------------
(* What the properties leave out, at every depth.                          *)
Sound(d, v) ==
  \A p \in PartsAt[d][v] :
    p.type \notin Address /\ ~Short(p) /\ (p.type \in OfNumber => ~IsInfinite(p.x))
Distinct(d, v, w) ==
  \A p \in PartsAt[d][v], q \in PartsAt[d][w] :
    p.type \in OfNumber /\ q.type \in OfNumber /\ p.x # q.x => ~EqualDoubles(p.x, q.x)

LEMMA ExactIs ==
  ASSUME NEW v, NEW w
  PROVE  /\ Exact(v) => Sound(Depth, v)
         /\ Apart(v, w) => Distinct(Depth, v, w)
         /\ (\A n \in Numbers(v) : ~IsInfinite(n)) =>
               \A p \in PartsAt[Depth][v] : p.type \in OfNumber => ~IsInfinite(p.x)
BY DEF Exact, Apart, Numbers, Parts, Sound, Distinct

LEMMA SoundMembers ==
  ASSUME NEW d \in 1 .. Depth, NEW v \in Any
  PROVE  /\ Sound(d, v) => /\ v.type \notin Address /\ (v.type \in OfNumber => ~IsInfinite(v.x))
                           /\ ~Short(v)
                           /\ \A m \in Members(v) : Sound(d - 1, m)
         /\ \A w \in Any : Distinct(d, v, w) =>
              /\ v.type \in OfNumber /\ w.type \in OfNumber /\ v.x # w.x => ~EqualDoubles(v.x, w.x)
              /\ \A m \in Members(v), n \in Members(w) : Distinct(d - 1, m, n)
BY PartsAre DEF Sound, Distinct

(* The kinds of value do not overlap.                                      *)
LEMMA KindsDiffer ==
  ASSUME NEW t
  PROVE  /\ t \in {"undefined", "null"} => t \notin OfNumber \cup Float \cup Address \cup Listed \cup Plain
         /\ t \in {"undefined", "null"} => t \notin {"string", "bsequence", "object"}
         /\ t \in Float => t \notin Address \cup Listed \cup Plain \cup {"string", "bsequence", "object"}
         /\ t = "string" => t \notin OfNumber \cup Address \cup Listed \cup Plain \cup {"bsequence", "object"}
         /\ t = "bsequence" => t \notin OfNumber \cup Address \cup Listed \cup Plain \cup {"object"}
         /\ t \in Address => t \notin OfNumber \cup Listed \cup Plain \cup {"object"}
         /\ t = "object" => t \notin OfNumber \cup Listed \cup Plain
         /\ t \in Listed => t \notin OfNumber \cup Plain
         /\ Float \subseteq OfNumber
BY DEF OfNumber, Float, Address, Listed, Container, Plain

(* Every answer about sound values of one class is one of these, by their  *)
(* kind.                                                                   *)
NumberSign(a, b) == IF EqualDoubles(a, b) THEN 0 ELSE Sgn(a, b)
Key(v, cl) == IF cl /\ v.type = "string" THEN Fold[v.x] ELSE v.x
Kind(v, un) ==
  IF v = Invalid THEN "none"
  ELSE IF v.type \in Float \/ (un /\ v.type \in OfNumber) THEN "number"
  ELSE IF v.type = "bsequence" THEN "bytes"
  ELSE IF v.type = "object" THEN "object"
  ELSE IF v.type \in Listed THEN "list"
  ELSE "key"

Normal(C, v, w, cl, un, be, s) ==
  /\ Kind(w, un) = Kind(v, un)
  /\ Kind(v, un) = "none" => v = Invalid /\ w = Invalid /\ s = 0
  /\ Kind(v, un) # "none" /\ (Kind(v, un) # "number" \/ ~un) => v.type = w.type
  /\ Kind(v, un) = "number" =>
       /\ v.type \in OfNumber /\ w.type \in OfNumber /\ v.x \in Int /\ w.x \in Int
       /\ s = NumberSign(v.x, w.x)
  /\ Kind(v, un) = "key" => Key(v, cl) \in Int /\ Key(w, cl) \in Int /\ s = Sgn(Key(v, cl), Key(w, cl))
  /\ Kind(v, un) = "bytes" =>
       /\ v.x \in Seq(Nat) /\ w.x \in Seq(Nat)
       /\ s = 0 <=> Decide(ByteDiffs(v.x, w.x), v.x, w.x) = 0
       /\ be # -1 => s = Decide(ByteDiffs(v.x, w.x), v.x, w.x)
  /\ Kind(v, un) = "object" =>
       /\ v.type = "object" /\ v.x \in Seq(String \X Inner) /\ w.x \in Seq(String \X Inner)
       /\ KeysSorted(v.x) /\ KeysSorted(w.x)
       /\ s = Decide(PairDiffs(C, v.x, w.x), v.x, w.x)
  /\ Kind(v, un) = "list" =>
       /\ v.type \in Listed /\ v.x \in Seq(Inner) /\ w.x \in Seq(Inner)
       /\ s = Decide(MemberDiffs(C, v.x, w.x), v.x, w.x)

LEMMA BytesBeyond ==
  ASSUME NEW x \in Seq(Nat), NEW y \in Seq(Nat), NEW be \in Signs, ~Inline(x), ~Inline(y)
  PROVE  /\ CompareBytes(x, y, be) = 0 <=> Decide(ByteDiffs(x, y), x, y) = 0
         /\ be # -1 => CompareBytes(x, y, be) = Decide(ByteDiffs(x, y), x, y)
<1> PICK m \in Nat, n \in Nat : m = Len(x) /\ n = Len(y)
  BY CommonIs
<1> PICK o : o = Decide(ByteDiffs(x, y), x, y)
  OBVIOUS
<1>1. CASE Len(x) > Len(y) /\ \A i \in Common(x, y) : x[i] = y[i]
  <2> PICK d : d = ByteDiffs(x, y)
    OBVIOUS
  <2>0. DOMAIN d = Common(x, y) /\ \A i \in DOMAIN d : d[i] = Sgn(x[i], y[i]) /\ x[i] \in Int /\ y[i] \in Int
    BY BytesTyped
  <2>1. \A i \in DOMAIN d : d[i] = 0
    <3> TAKE i \in DOMAIN d
    <3>1. x[i] = y[i] /\ x[i] \in Int
      BY <1>1, <2>0
    <3> QED
      BY <2>0, <3>1, SgnFacts
  <2>2. DOMAIN d \subseteq Nat
    BY <2>0, CommonIs
  <2>3. o = LengthDiff(x, y)
    BY <2>1, <2>2, Decided
  <2>5. LengthDiff(x, y) = Sgn(m, n) /\ n < m
    BY <1>1, CommonIs
  <2>4. o = 1
    BY <2>3, <2>5, SgnFacts
  <2> QED
    BY <1>1, <2>4 DEF CompareBytes, Signs
<1>2. CASE ~(Len(x) > Len(y) /\ \A i \in Common(x, y) : x[i] = y[i])
  BY <1>2 DEF CompareBytes
<1> QED
  BY <1>1, <1>2

LEMMA NormalForm ==
  ASSUME NEW v \in Any, NEW w \in Any, NEW cl \in BOOLEAN, NEW un \in BOOLEAN, NEW be \in Signs, NEW C, NEW s,
         Class(v, un) = Class(w, un), s = CompareStep(C, v, w, cl, un, be),
         v.type \notin Address, v.type \in OfNumber => ~IsInfinite(v.x),
         w.type \in OfNumber => ~IsInfinite(w.x), ~Short(v), ~Short(w)
  PROVE  Normal(C, v, w, cl, un, be, s)
<1>0. Within(C, v, w, cl, un, be, s)
  BY SameClass
<1> PICK t, u : t = v.type /\ u = w.type
  OBVIOUS
<1>1. CASE v = Invalid /\ w = Invalid /\ s = 0
  BY <1>1 DEF Normal, Kind
<1>2. CASE /\ v # Invalid /\ w # Invalid /\ un
           /\ v.type \in OfNumber /\ w.type \in OfNumber /\ v.x \in Int /\ w.x \in Int
           /\ s = IF IsInfinite(v.x) \/ IsInfinite(w.x) THEN Aborts
                   ELSE IF EqualDoubles(v.x, w.x) THEN 0 ELSE Sgn(v.x, w.x)
  <2>1. Kind(v, un) = "number" /\ Kind(w, un) = "number"
    BY <1>2 DEF Kind
  <2>2. s = NumberSign(v.x, w.x)
    BY <1>2 DEF NumberSign
  <2> QED
    BY <1>2, <2>1, <2>2 DEF Normal
<1>3. CASE v # Invalid /\ w # Invalid /\ t = u
  <2>1. CASE t \in {"undefined", "null"} /\ s = 0 /\ v.x = 0 /\ w.x = 0
    <3>1. Kind(v, un) = "key" /\ Kind(w, un) = "key"
      BY <1>3, <2>1, KindsDiffer DEF Kind
    <3>2. Key(v, cl) = 0 /\ Key(w, cl) = 0 /\ Sgn(0, 0) = 0
      BY <1>3, <2>1, KindsDiffer, SgnFacts DEF Key
    <3> QED
      BY <1>3, <2>1, <3>1, <3>2 DEF Normal
  <2>2. CASE /\ ~un /\ t \in Float /\ v.x \in Int /\ w.x \in Int
             /\ s = IF EqualDoubles(v.x, w.x) THEN 0 ELSE IF v.x < w.x THEN -1 ELSE 1
    <3>1. Kind(v, un) = "number" /\ Kind(w, un) = "number" /\ t \in OfNumber
      BY <1>3, <2>2, KindsDiffer DEF Kind
    <3>2. EqualDoubles(v.x, v.x)
      BY <2>2, <3>1, DoublesFacts
    <3>3. s = NumberSign(v.x, w.x)
      BY <2>2, <3>2 DEF NumberSign, Sgn
    <3> QED
      BY <1>3, <2>2, <3>1, <3>3 DEF Normal
  <2>3. CASE /\ t = "string" /\ v.x \in String /\ w.x \in String
             /\ s = IF cl THEN Sgn(Fold[v.x], Fold[w.x]) ELSE Sgn(v.x, w.x)
    <3>1. Kind(v, un) = "key" /\ Kind(w, un) = "key"
      BY <1>3, <2>3, KindsDiffer DEF Kind
    <3>2. Key(v, cl) \in Int /\ Key(w, cl) \in Int /\ s = Sgn(Key(v, cl), Key(w, cl))
      BY <1>3, <2>3, CompareAssumption DEF Key
    <3> QED
      BY <1>3, <3>1, <3>2 DEF Normal
  <2>4. CASE /\ t = "bsequence" /\ v.x \in Seq(Nat) /\ w.x \in Seq(Nat)
             /\ s = CompareBytes(v.x, w.x, be)
    <3>1. Kind(v, un) = "bytes" /\ Kind(w, un) = "bytes"
      BY <1>3, <2>4, KindsDiffer DEF Kind
    <3>3. ~Inline(v.x) /\ ~Inline(w.x)
      BY <1>3, <2>4 DEF Short
    <3>2. /\ s = 0 <=> Decide(ByteDiffs(v.x, w.x), v.x, w.x) = 0
          /\ be # -1 => s = Decide(ByteDiffs(v.x, w.x), v.x, w.x)
      BY <2>4, <3>3, BytesBeyond
    <3> QED
      BY <1>3, <2>4, <3>1, <3>2 DEF Normal
  <2>6. CASE /\ t = "object" /\ v.x \in Seq(String \X Inner) /\ w.x \in Seq(String \X Inner)
             /\ KeysSorted(v.x) /\ KeysSorted(w.x)
             /\ s = Decide(PairDiffs(C, v.x, w.x), v.x, w.x)
    <3>1. Kind(v, un) = "object" /\ Kind(w, un) = "object"
      BY <1>3, <2>6, KindsDiffer DEF Kind
    <3> QED
      BY <1>3, <2>6, <3>1 DEF Normal
  <2>7. CASE /\ t \in Listed /\ v.x \in Seq(Inner) /\ w.x \in Seq(Inner)
             /\ s = Decide(MemberDiffs(C, v.x, w.x), v.x, w.x)
    <3>1. Kind(v, un) = "list" /\ Kind(w, un) = "list"
      BY <1>3, <2>7, KindsDiffer DEF Kind
    <3> QED
      BY <1>3, <2>7, <3>1 DEF Normal
  <2>8. CASE /\ t \in Plain /\ (un => t \notin OfNumber)
             /\ v.x \in Int /\ w.x \in Int /\ s = Sgn(v.x, w.x)
    <3>1. Kind(v, un) = "key" /\ Kind(w, un) = "key" /\ t # "string"
      BY <1>3, <2>8, KindsDiffer DEF Kind
    <3>2. Key(v, cl) = v.x /\ Key(w, cl) = w.x
      BY <1>3, <3>1 DEF Key
    <3> QED
      BY <1>3, <2>8, <3>1, <3>2 DEF Normal
  <2> QED
    BY <1>0, <1>2, <1>3, <2>1, <2>2, <2>3, <2>4, <2>6, <2>7, <2>8 DEF Within
<1> QED
  BY <1>0, <1>1, <1>2, <1>3 DEF Within

-----------------------------------------------------------------------------
(* Swapping the values swaps the answer.                                   *)
Mirrors(d, C) ==
  \A a, b \in Any : Sound(d, a) /\ Sound(d, b) => C[a][b] \in Int /\ C[b][a] = -C[a][b]

LEMMA MirrorStep ==
  ASSUME NEW d \in 1 .. Depth, NEW C \in Tables, Mirrors(d - 1, C),
         NEW v \in Any, NEW w \in Any, Sound(d, v), Sound(d, w),
         NEW cl \in BOOLEAN, NEW un \in BOOLEAN, NEW be \in Signs, be # -1,
         NEW s, s = CompareStep(C, v, w, cl, un, be), NEW z, z = CompareStep(C, w, v, cl, un, be)
  PROVE  z = -s
<1>1. CASE Class(v, un) # Class(w, un)
  <2>1. s = Sgn(Class(v, un), Class(w, un)) /\ z = Sgn(Class(w, un), Class(v, un))
    BY <1>1, OtherClass
  <2>2. Class(v, un) \in Int /\ Class(w, un) \in Int
    BY ClassIs
  <2> QED
    BY <2>1, <2>2, SgnFacts
<1>2. CASE Class(v, un) = Class(w, un)
  <2>1. /\ v.type \notin Address /\ (v.type \in OfNumber => ~IsInfinite(v.x))
        /\ w.type \notin Address /\ (w.type \in OfNumber => ~IsInfinite(w.x))
        /\ ~Short(v) /\ ~Short(w)
        /\ \A m \in Members(v) \cup Members(w) : Sound(d - 1, m)
    BY SoundMembers
  <2>2. Normal(C, v, w, cl, un, be, s) /\ Normal(C, w, v, cl, un, be, z)
    BY <1>2, <2>1, NormalForm
  <2>3. Kind(v, un) = Kind(w, un)
    BY <2>2 DEF Normal
  <2>4. CASE Kind(v, un) = "none"
    <3>1. s = 0 /\ z = 0
      BY <2>2, <2>3, <2>4 DEF Normal
    <3> QED
      BY <3>1, ZeroHasNoSign, Zenon
  <2>5. CASE Kind(v, un) = "number"
    <3>1. v.x \in Int /\ w.x \in Int /\ s = NumberSign(v.x, w.x) /\ z = NumberSign(w.x, v.x)
      BY <2>2, <2>3, <2>5 DEF Normal
    <3> QED
      BY <3>1, DoublesFacts, SgnFacts DEF NumberSign
  <2>6. CASE Kind(v, un) = "key"
    <3>1. Key(v, cl) \in Int /\ Key(w, cl) \in Int /\ s = Sgn(Key(v, cl), Key(w, cl)) /\ z = Sgn(Key(w, cl), Key(v, cl))
      BY <2>2, <2>3, <2>6 DEF Normal
    <3> QED
      BY <3>1, SgnFacts
  <2>7. CASE Kind(v, un) = "bytes"
    <3> PICK x, y, e, f : x = v.x /\ y = w.x /\ e = ByteDiffs(x, y) /\ f = ByteDiffs(y, x)
      OBVIOUS
    <3>1. x \in Seq(Nat) /\ y \in Seq(Nat) /\ s = Decide(e, x, y) /\ z = Decide(f, y, x)
      BY <2>2, <2>3, <2>7 DEF Normal
    <3>2. DOMAIN e = Common(x, y) /\ DOMAIN f = Common(x, y)
      BY <3>1, BytesTyped, CommonIs
    <3>3. \A i \in DOMAIN e : e[i] \in Int /\ f[i] = -e[i]
      <4> TAKE i \in DOMAIN e
      <4>1. e[i] = Sgn(x[i], y[i]) /\ f[i] = Sgn(y[i], x[i]) /\ x[i] \in Int /\ y[i] \in Int
        BY <3>1, <3>2, BytesTyped
      <4>2. e[i] \in Signs
        BY <4>1, SgnFacts
      <4> QED
        BY <4>1, <4>2, SgnFacts DEF Signs
    <3> QED
      BY <3>1, <3>2, <3>3, DecideSwaps
  <2>8. CASE Kind(v, un) = "list"
    <3> PICK x, y, e, f : x = v.x /\ y = w.x /\ e = MemberDiffs(C, x, y) /\ f = MemberDiffs(C, y, x)
      OBVIOUS
    <3>1. /\ x \in Seq(Inner) /\ y \in Seq(Inner) /\ s = Decide(e, x, y) /\ z = Decide(f, y, x)
          /\ v.type \in Listed /\ w.type \in Listed
      BY <2>2, <2>3, <2>8 DEF Normal
    <3>2. DOMAIN e = Common(x, y) /\ DOMAIN f = Common(x, y)
      BY <3>1, CommonIs DEF MemberDiffs
    <3>3. \A i \in DOMAIN e : e[i] \in Int /\ f[i] = -e[i]
      <4> TAKE i \in DOMAIN e
      <4>1. e[i] = C[x[i]][y[i]] /\ f[i] = C[y[i]][x[i]]
        BY <3>1, <3>2, CommonIs DEF MemberDiffs
      <4>2. i \in 1 .. Len(x) /\ i \in 1 .. Len(y)
        BY <3>1, <3>2, CommonIs
      <4>3. x[i] \in Members(v) /\ y[i] \in Members(w)
        BY <3>1, <4>2, MembersAre
      <4>4. Sound(d - 1, x[i]) /\ Sound(d - 1, y[i]) /\ x[i] \in Any /\ y[i] \in Any
        BY <2>1, <4>3, MembersAre, KindsApart
      <4> QED
        BY <4>1, <4>4 DEF Mirrors
    <3> QED
      BY <3>1, <3>2, <3>3, DecideSwaps
  <2>9. CASE Kind(v, un) = "object"
    <3> PICK x, y, e, f : x = v.x /\ y = w.x /\ e = PairDiffs(C, x, y) /\ f = PairDiffs(C, y, x)
      OBVIOUS
    <3>1. /\ x \in Seq(String \X Inner) /\ y \in Seq(String \X Inner) /\ s = Decide(e, x, y) /\ z = Decide(f, y, x)
          /\ v.type = "object" /\ w.type = "object"
      BY <2>2, <2>3, <2>9 DEF Normal
    <3>2. DOMAIN e = Common(x, y) /\ DOMAIN f = Common(x, y)
      BY <3>1, CommonIs DEF PairDiffs
    <3>3. \A i \in DOMAIN e : e[i] \in Int /\ f[i] = -e[i]
      <4> TAKE i \in DOMAIN e
      <4>1. /\ e[i] = IF x[i][1] # y[i][1] THEN Sgn(x[i][1], y[i][1]) ELSE C[x[i][2]][y[i][2]]
            /\ f[i] = IF y[i][1] # x[i][1] THEN Sgn(y[i][1], x[i][1]) ELSE C[y[i][2]][x[i][2]]
        BY <3>1, <3>2, CommonIs DEF PairDiffs
      <4>2. i \in 1 .. Len(x) /\ i \in 1 .. Len(y)
        BY <3>1, <3>2, CommonIs
      <4>3. x[i][2] \in Members(v) /\ y[i][2] \in Members(w) /\ x[i][1] \in String /\ y[i][1] \in String
        BY <3>1, <4>2, MembersAre
      <4>4. Sound(d - 1, x[i][2]) /\ Sound(d - 1, y[i][2]) /\ x[i][2] \in Any /\ y[i][2] \in Any
        BY <2>1, <4>3, MembersAre, KindsApart
      <4>5. C[x[i][2]][y[i][2]] \in Int /\ C[y[i][2]][x[i][2]] = -C[x[i][2]][y[i][2]]
        BY <4>4 DEF Mirrors
      <4>6. x[i][1] \in Int /\ y[i][1] \in Int
        BY <4>3, CompareAssumption
      <4>7. Sgn(x[i][1], y[i][1]) \in Signs /\ Sgn(y[i][1], x[i][1]) = -Sgn(x[i][1], y[i][1])
        BY <4>6, SgnFacts
      <4> QED
        BY <4>1, <4>5, <4>7 DEF Signs
    <3> QED
      BY <3>1, <3>2, <3>3, DecideSwaps
  <2> QED
    BY <2>4, <2>5, <2>6, <2>7, <2>8, <2>9 DEF Kind
<1> QED
  BY <1>1, <1>2

LEMMA AnswersMirror ==
  ASSUME NEW cl \in BOOLEAN, NEW un \in BOOLEAN, NEW be \in Signs, be # -1
  PROVE  Mirrors(Depth, CompareAt(cl, un, be)[Depth])
<1> PICK A : A = CompareAt(cl, un, be)
  OBVIOUS
<1>0. Depth \in Nat
  BY CompareAssumption
<1>1. /\ \A d \in 0 .. Depth : A[d] \in Tables
      /\ \A a, b \in Any : A[0][a][b] = 0
      /\ \A d \in 1 .. Depth : \A a, b \in Any : A[d][a][b] = CompareStep(A[d - 1], a, b, cl, un, be)
  BY CompareIs
<1> DEFINE P == {d \in 0 .. Depth : Mirrors(d, A[d])}
<1>2. 0 \in P
  BY <1>0, <1>1 DEF Mirrors
<1>3. ASSUME NEW d \in 1 .. Depth, d - 1 \in P PROVE d \in P
  <2>1. Mirrors(d - 1, A[d - 1]) /\ d - 1 \in 0 .. Depth /\ d \in 0 .. Depth
    BY <1>0, <1>3
  <2>2. ASSUME NEW a \in Any, NEW b \in Any, Sound(d, a), Sound(d, b)
        PROVE  A[d][a][b] \in Int /\ A[d][b][a] = -A[d][a][b]
    <3>1. A[d][a][b] = CompareStep(A[d - 1], a, b, cl, un, be) /\ A[d][b][a] = CompareStep(A[d - 1], b, a, cl, un, be)
      BY <1>1
    <3>2. A[d - 1] \in Tables
      BY <1>1, <2>1
    <3>3. A[d][b][a] = -A[d][a][b]
      BY <2>1, <2>2, <3>1, <3>2, MirrorStep
    <3>4. A[d][a][b] \in Answers
      BY <3>1, <3>2, StepTyped
    <3> QED
      BY <3>3, <3>4 DEF Answers, Signs, Aborts
  <2>3. Mirrors(d, A[d])
    BY <2>2 DEF Mirrors
  <2> QED
    BY <2>1, <2>3
<1>4. 0 .. Depth \subseteq P
  <2> HIDE DEF P
  <2> QED
    BY <1>0, <1>2, <1>3, Steps
<1> QED
  BY <1>0, <1>4

-----------------------------------------------------------------------------
(* Two increasing lists of the same length, one with only the numbers of   *)
(* the other, are the same.                                                *)
Increasing(n, x, y) ==
  /\ \A i \in 1 .. n : x[i] \in Int /\ y[i] \in Int
  /\ \A i, j \in 1 .. n : i < j => x[i] < x[j] /\ y[i] < y[j]
  /\ \A i \in 1 .. n : \E j \in 1 .. n : x[i] = y[j]

LEMMA SameIncreasing ==
  ASSUME NEW n \in Nat, NEW x, NEW y, Increasing(n, x, y)
  PROVE  \A i \in 1 .. n : x[i] = y[i]
<1> USE DEF Increasing
<1> PICK I : I = 1 .. n
  OBVIOUS
<1>0. I \subseteq Int
  BY ONLY I = 1 .. n
<1> PICK J : J = [i \in I |-> CHOOSE j \in I : x[i] = y[j]]
  OBVIOUS
<1>1. \A i \in I : J[i] \in I /\ x[i] = y[J[i]]
  <2> TAKE i \in I
  <2>1. \E j \in I : x[i] = y[j]
    OBVIOUS
  <2>2. J[i] = CHOOSE j \in I : x[i] = y[j]
    BY Zenon
  <2> QED
    BY ONLY <2>1, <2>2
<1>2. \A i, k \in I : i < k => J[i] < J[k]
  <2> SUFFICES ASSUME NEW i \in I, NEW k \in I, i < k, ~(J[i] < J[k]) PROVE FALSE
    BY Zenon
  <2> PICK a \in I, b \in I : a = J[i] /\ b = J[k]
    BY <1>1, Zenon
  <2> PICK p \in Int, q \in Int : p = x[i] /\ q = x[k]
    BY Zenon
  <2>1. p < q /\ p = y[a] /\ q = y[b]
    BY <1>1, Zenon
  <2>2. b = a \/ b < a
    BY ONLY <1>0, a = J[i], b = J[k], ~(J[i] < J[k]), a \in I, b \in I
  <2>3. b < a => y[b] < y[a]
    BY Zenon
  <2>4. b = a => p = q
    BY <2>1, Zenon
  <2>5. b < a => q < p
    BY <2>1, <2>3, Zenon
  <2> QED
    BY ONLY <2>1, <2>2, <2>4, <2>5, p \in Int, q \in Int
<1>3. \A i \in I : i <= J[i]
  <2> DEFINE P == {i \in 0 .. n : i = 0 \/ i <= J[i]}
  <2>1. 0 \in P
    BY ONLY n \in Nat
  <2>2. ASSUME NEW i \in 1 .. n, i - 1 \in P PROVE i \in P
    <3>0. i \in I
      BY Zenon
    <3> PICK j \in I : j = J[i]
      BY <1>1, <3>0, Zenon
    <3>2. CASE i = 1
      <4>1. 1 <= j
        BY ONLY j \in I, I = 1 .. n
      <4> QED
        BY ONLY <3>2, <4>1, j = J[i], n \in Nat, i \in 1 .. n
    <3>3. CASE i # 1
      <4> PICK h \in I : h = i - 1 /\ h < i /\ h # 0
        BY ONLY <3>3, I = 1 .. n, i \in 1 .. n, n \in Nat
      <4> PICK k \in I : k = J[h]
        BY <1>1, Zenon
      <4>1. k < j
        <5>1. J[h] < J[i]
          BY ONLY <1>2, <3>0, h \in I, h < i
        <5> QED
          BY ONLY <5>1, k = J[h], j = J[i]
      <4>2. h <= k
        BY <2>2, Zenon
      <4>3. i <= j
        BY ONLY <4>1, <4>2, <1>0, h = i - 1, k \in I, j \in I, i \in 1 .. n
      <4> QED
        BY ONLY <4>3, j = J[i], i \in 1 .. n
    <3> QED
      BY <3>2, <3>3
  <2>3. 0 .. n \subseteq P
    <3> HIDE DEF P
    <3> QED
      BY ONLY <2>1, <2>2, n \in Nat, Steps
  <2> TAKE i \in I
  <2>4. i \in 0 .. n /\ i # 0
    BY ONLY i \in I, I = 1 .. n
  <2> QED
    BY <2>3, <2>4, Zenon
<1>4. \A i \in I : J[i] <= i
  <2> DEFINE P == {k \in 0 .. n : k = n \/ J[n - k] <= n - k}
  <2>1. 0 \in P
    <3>1. CASE n = 0
      BY ONLY <3>1
    <3>2. CASE n # 0
      <4>1. n \in I
        BY ONLY <3>2, I = 1 .. n, n \in Nat
      <4> PICK j \in I : j = J[n]
        BY <1>1, <4>1, Zenon
      <4>2. j <= n
        BY ONLY j \in I, I = 1 .. n
      <4>3. n - 0 = n /\ 0 \in 0 .. n
        BY ONLY n \in Nat
      <4> QED
        BY ONLY <4>2, <4>3, j = J[n]
    <3> QED
      BY <3>1, <3>2
  <2>2. ASSUME NEW k \in 1 .. n, k - 1 \in P PROVE k \in P
    <3>0. k \in 0 .. n
      BY ONLY k \in 1 .. n
    <3>1. CASE k = n
      BY <3>0, <3>1
    <3>2. CASE k # n
      <4> PICK i \in I, h \in I : i = n - k /\ h = i + 1 /\ n - (k - 1) = h /\ i < h /\ k - 1 # n
        BY ONLY <3>2, I = 1 .. n, n \in Nat, k \in 1 .. n
      <4> PICK a \in I, b \in I : a = J[i] /\ b = J[h]
        BY <1>1, Zenon
      <4>1. b <= h
        BY <2>2
      <4>2. a < b
        <5>1. J[i] < J[h]
          BY ONLY <1>2, i \in I, h \in I, i < h
        <5> QED
          BY ONLY <5>1, a = J[i], b = J[h]
      <4>3. a <= i
        BY ONLY <4>1, <4>2, <1>0, h = i + 1, a \in I, b \in I, i \in I
      <4> QED
        BY ONLY <3>0, <4>3, a = J[i], i = n - k
    <3> QED
      BY <3>1, <3>2
  <2>3. 0 .. n \subseteq P
    <3> HIDE DEF P
    <3> QED
      BY ONLY <2>1, <2>2, n \in Nat, Steps
  <2> TAKE i \in I
  <2>4. n - i \in 0 .. n /\ n - i # n /\ n - (n - i) = i
    BY ONLY i \in I, I = 1 .. n, n \in Nat
  <2> QED
    BY <2>3, <2>4
<1>5. \A i \in I : J[i] = i
  <2> TAKE i \in I
  <2>1. J[i] \in Int /\ i \in Int /\ i <= J[i] /\ J[i] <= i
    BY <1>0, <1>1, <1>3, <1>4, Zenon
  <2> QED
    BY ONLY <2>1
<1> QED
  BY <1>1, <1>5

LEMMA NestsAre ==
  /\ Nests[0] = {}
  /\ \A d \in 1 .. Depth : \A v \in Nests[d] : v \in Value /\ Members(v) \subseteq Nests[d - 1]
  /\ Value \subseteq Nests[Depth]
<1>0. Depth \in Nat /\ Value \subseteq Nests[Depth]
  BY CompareAssumption
<1> DEFINE Row(t) == {v \in Value : Members(v) \subseteq t}
           F == [d \in 1 .. Depth |-> [t \in SUBSET Value |-> Row(t)]]
           Body(f) == [d \in 0 .. Depth |-> IF d = 0 THEN {} ELSE {v \in Value : Members(v) \subseteq f[d - 1]}]
<1>3. \A d \in 1 .. Depth, t \in SUBSET Value : F[d][t] = Row(t) /\ F[d][t] \in SUBSET Value
  OBVIOUS
<1>4. \E f : Solves(f, Depth, SUBSET Value, {}, F)
  <2>1. Recursive(Depth, SUBSET Value, {}, F)
    <3> HIDE DEF F
    <3> QED
      BY <1>0, <1>3 DEF Recursive
  <2> HIDE DEF F
  <2> QED
    BY ONLY <2>1, Recursion
<1>5. \E f : f = Body(f)
  <2> PICK f : Solves(f, Depth, SUBSET Value, {}, F)
    BY <1>4
  <2>0. f \in [0 .. Depth -> SUBSET Value] /\ f[0] = {} /\ \A d \in 1 .. Depth : f[d] = F[d][f[d - 1]]
    <3> HIDE DEF F
    <3> QED
      BY DEF Solves
  <2>1. ASSUME NEW d \in 0 .. Depth
        PROVE  f[d] = IF d = 0 THEN {} ELSE {v \in Value : Members(v) \subseteq f[d - 1]}
    <3>1. CASE d = 0
      BY <2>0, <3>1
    <3>2. CASE d # 0
      <4>1. d \in 1 .. Depth /\ d - 1 \in 0 .. Depth
        BY <1>0, <3>2
      <4>2. f[d - 1] \in SUBSET Value
        BY <2>0, <4>1
      <4>3. f[d] = Row(f[d - 1])
        <5> HIDE DEF F, Row
        <5> QED
          BY <1>3, <2>0, <4>1, <4>2
      <4> QED
        BY <3>2, <4>3
    <3> QED
      BY <3>1, <3>2
  <2>2. DOMAIN f = 0 .. Depth
    BY <2>0
  <2>3. f = Body(f)
    BY <2>0, <2>1, <2>2
  <2> HIDE DEF Body
  <2> QED
    BY <2>3
<1>6. Nests = Body(Nests)
  BY <1>5 DEF Nests
<1>7. Nests[0] = {}
  BY <1>0, <1>6
<1>8. ASSUME NEW d \in 1 .. Depth PROVE Nests[d] = Row(Nests[d - 1])
  <2>1. d \in 0 .. Depth /\ d # 0
    BY <1>0
  <2> QED
    BY <1>6, <2>1
<1> QED
  BY <1>0, <1>7, <1>8

-----------------------------------------------------------------------------
(* Equality at every depth, as the recursion defines it.                   *)
LEMMA EqualIs ==
  /\ \A d \in 1 .. Depth : \A v, w \in Any : EqualAt[d][v][w] <=> EqualStep(EqualAt[d - 1], v, w)
  /\ \A d \in 0 .. Depth : \A v, w \in Any : EqualAt[d][v][w] \in BOOLEAN
<1>0. Depth \in Nat
  BY CompareAssumption
<1> DEFINE T == [Any -> [Any -> BOOLEAN]]
           First == [v \in Any |-> [w \in Any |-> TRUE]]
           Row(t) == [v \in Any |-> [w \in Any |-> EqualStep(t, v, w)]]
           F == [d \in 1 .. Depth |-> [t \in T |-> Row(t)]]
           Body(f) == [d \in 0 .. Depth |-> [v \in Any |-> [w \in Any |-> d = 0 \/ EqualStep(f[d - 1], v, w)]]]
<1>1. First \in T
  OBVIOUS
<1>20. \A t, v, w : EqualStep(t, v, w) \in BOOLEAN
  BY DEF EqualStep
<1>2. \A t \in T : Row(t) \in T
  BY <1>20
<1>3. \A d \in 1 .. Depth, t \in T : F[d][t] = Row(t) /\ F[d][t] \in T
  <2> HIDE DEF T
  <2> QED
    BY <1>2
<1>4. \E f : Solves(f, Depth, T, First, F)
  <2>1. Recursive(Depth, T, First, F)
    <3> HIDE DEF T, First, F
    <3> QED
      BY <1>0, <1>1, <1>3 DEF Recursive
  <2> HIDE DEF F, First, T
  <2> QED
    BY ONLY <2>1, Recursion
<1>5. \E f : f = Body(f)
  <2> PICK f : Solves(f, Depth, T, First, F)
    BY <1>4
  <2>0. f \in [0 .. Depth -> T] /\ f[0] = First /\ \A d \in 1 .. Depth : f[d] = F[d][f[d - 1]]
    <3> HIDE DEF T, First, F
    <3> QED
      BY DEF Solves
  <2>1. ASSUME NEW d \in 0 .. Depth
        PROVE  f[d] = [v \in Any |-> [w \in Any |-> d = 0 \/ EqualStep(f[d - 1], v, w)]]
    <3>1. CASE d = 0
      BY <2>0, <3>1
    <3>2. CASE d # 0
      <4>1. d \in 1 .. Depth /\ d - 1 \in 0 .. Depth
        BY <1>0, <3>2
      <4>2. f[d - 1] \in T
        <5> HIDE DEF T
        <5> QED
          BY <2>0, <4>1
      <4>3. f[d] = Row(f[d - 1])
        <5> HIDE DEF F, First, Row, T
        <5> QED
          BY <1>3, <2>0, <4>1, <4>2
      <4>4. \A v, w : (d = 0 \/ EqualStep(f[d - 1], v, w)) = EqualStep(f[d - 1], v, w)
        BY ONLY <1>20, <3>2
      <4> QED
        BY <4>3, <4>4
    <3> QED
      BY <3>1, <3>2
  <2>2. DOMAIN f = 0 .. Depth
    BY <2>0
  <2>3. f = Body(f)
    BY <2>0, <2>1, <2>2
  <2> HIDE DEF Body
  <2> QED
    BY <2>3
<1>6. EqualAt = Body(EqualAt)
  BY <1>5 DEF EqualAt
<1>7. ASSUME NEW d \in 0 .. Depth, NEW v \in Any, NEW w \in Any
      PROVE  EqualAt[d][v][w] = (d = 0 \/ EqualStep(EqualAt[d - 1], v, w))
  <2>1. EqualAt[d] = [v1 \in Any |-> [w1 \in Any |-> d = 0 \/ EqualStep(EqualAt[d - 1], v1, w1)]]
    BY <1>6
  <2> QED
    BY <2>1
<1>8. ASSUME NEW d \in 1 .. Depth, NEW v \in Any, NEW w \in Any
      PROVE  EqualAt[d][v][w] <=> EqualStep(EqualAt[d - 1], v, w)
  <2>1. d \in 0 .. Depth /\ d # 0
    BY <1>0
  <2> QED
    BY <1>7, <2>1
<1>9. ASSUME NEW d \in 0 .. Depth, NEW v \in Any, NEW w \in Any
      PROVE  EqualAt[d][v][w] \in BOOLEAN
  <2>1. EqualAt[d][v][w] = (d = 0 \/ EqualStep(EqualAt[d - 1], v, w))
    BY <1>7
  <2>2. (d = 0 \/ EqualStep(EqualAt[d - 1], v, w)) \in BOOLEAN
    OBVIOUS
  <2> QED
    BY ONLY <2>1, <2>2, Zenon
<1> QED
  BY <1>8, <1>9

(* A key of an object leads to the value with that key.                    *)
LEMMA PropertyIs ==
  ASSUME NEW o, NEW i \in 1 .. Len(o.x), o.x \in Seq(String \X Inner), KeysSorted(o.x)
  PROVE  Property(o, o.x[i][1]) = o.x[i][2]
<1> PICK I, x : I = 1 .. Len(o.x) /\ x = o.x
  OBVIOUS
<1>1. I \subseteq Int /\ i \in I
  OBVIOUS
<1>2. \A j, k \in I : j < k => x[j][1] < x[k][1]
  BY DEF KeysSorted
<1>3. \A j \in I : x[j][1] \in Int
  <2>1. \A j \in I : x[j] \in String \X Inner
    OBVIOUS
  <2> QED
    BY <2>1, CompareAssumption
<1>4. \A j \in I : x[j][1] = x[i][1] => j = i
  <2> TAKE j \in I
  <2>1. j < i => x[j][1] < x[i][1]
    BY ONLY <1>1, <1>2, j \in I
  <2>2. i < j => x[i][1] < x[j][1]
    BY ONLY <1>1, <1>2, j \in I
  <2> PICK a \in Int, b \in Int : a = x[j][1] /\ b = x[i][1]
    BY <1>1, <1>3
  <2> QED
    BY ONLY <1>1, <2>1, <2>2, j \in I, a \in Int, b \in Int, a = x[j][1], b = x[i][1]
<1>5. Property(o, x[i][1]) = x[CHOOSE j \in I : x[j][1] = x[i][1]][2]
  BY <1>1 DEF Property
<1>6. (CHOOSE j \in I : x[j][1] = x[i][1]) = i
  BY ONLY <1>1, <1>4
<1> QED
  BY <1>5, <1>6

-----------------------------------------------------------------------------
(* No difference is equality, when neither option is set.                  *)
OneAtom(d, v, w) ==
  \A p \in PartsAt[d][v], q \in PartsAt[d][w] :
    p.type = "atomstring" /\ q.type = "atomstring" /\ p.x # q.x => AtomString[p.x] # AtomString[q.x]

Zeros(d, C, E) ==
  /\ \A a, b \in Nests[d] :
       Sound(d, a) /\ Sound(d, b) /\ OneAtom(d, a, b) => (C[a][b] = 0 <=> E[a][b])
  /\ \A a \in Nests[d] : a # Invalid => ~E[a][Invalid]

LEMMA OneAtomMembers ==
  ASSUME NEW d \in 1 .. Depth, NEW v \in Any, NEW w \in Any, OneAtom(d, v, w)
  PROVE  /\ v.type = "atomstring" /\ w.type = "atomstring" /\ v.x # w.x => AtomString[v.x] # AtomString[w.x]
         /\ \A m \in Members(v), n \in Members(w) : OneAtom(d - 1, m, n)
BY PartsAre DEF OneAtom

(* What equality says of two values of one type.                           *)
LEMMA EqualForm ==
  ASSUME NEW E, NEW v, NEW w, v.type = w.type
  PROVE  /\ v.type \in {"invalid", "undefined", "null"} => EqualStep(E, v, w)
         /\ v.type \in Float => (EqualStep(E, v, w) <=> EqualDoubles(v.x, w.x))
         /\ v.type = "atomstring" => (EqualStep(E, v, w) <=> AtomString[v.x] = AtomString[w.x])
         /\ v.type = "object" => (EqualStep(E, v, w) <=> EqualObjects(E, v, w))
         /\ v.type \in Listed => (EqualStep(E, v, w) <=> EqualMembers(E, v, w))
         /\ v.type \notin {"invalid", "undefined", "null", "atomstring", "object"} \cup Float \cup Listed
              => (EqualStep(E, v, w) <=> v.x = w.x)
<1>1. \A t : /\ t \in {"invalid", "undefined", "null"} => t \notin {"atomstring", "object"} \cup Float \cup Listed
             /\ t \in Float => t \notin {"atomstring", "object"} \cup Listed
             /\ "atomstring" \notin {"object"} \cup Listed /\ "object" \notin Listed
  BY DEF Float, Listed, Container
<1>2. Container \ {"object"} = Listed
  BY DEF Listed
<1> PICK t : t = v.type
  OBVIOUS
<1>3. t \in {"invalid", "undefined", "null"} => EqualStep(E, v, w)
  BY <1>1, <1>2 DEF EqualStep
<1>4. t \in Float => (EqualStep(E, v, w) <=> EqualDoubles(v.x, w.x))
  BY <1>1, <1>2 DEF EqualStep
<1>5. t = "atomstring" => (EqualStep(E, v, w) <=> AtomString[v.x] = AtomString[w.x])
  BY <1>1, <1>2 DEF EqualStep
<1>6. t = "object" => (EqualStep(E, v, w) <=> EqualObjects(E, v, w))
  BY <1>1, <1>2 DEF EqualStep
<1>7. t \in Listed => (EqualStep(E, v, w) <=> EqualMembers(E, v, w))
  BY <1>1, <1>2 DEF EqualStep
<1>8. t \notin {"invalid", "undefined", "null", "atomstring", "object"} \cup Float \cup Listed
              => (EqualStep(E, v, w) <=> v.x = w.x)
  BY <1>1, <1>2 DEF EqualStep
<1> QED
  BY <1>3, <1>4, <1>5, <1>6, <1>7, <1>8

LEMMA BytesZero ==
  ASSUME NEW x \in Seq(Nat), NEW y \in Seq(Nat)
  PROVE  Decide(ByteDiffs(x, y), x, y) = 0 <=> x = y
<1> PICK e : e = ByteDiffs(x, y)
  OBVIOUS
<1>1. DOMAIN e = Common(x, y) /\ \A i \in Common(x, y) : e[i] = Sgn(x[i], y[i]) /\ x[i] \in Int /\ y[i] \in Int
  BY BytesTyped
<1>2. Decide(e, x, y) = 0 <=> Len(x) = Len(y) /\ \A i \in 1 .. Len(x) : e[i] = 0
  BY <1>1, DecideZero
<1>3. Len(x) = Len(y) => \A i \in 1 .. Len(x) : e[i] = 0 <=> x[i] = y[i]
  <2> SUFFICES ASSUME Len(x) = Len(y), NEW i \in 1 .. Len(x) PROVE e[i] = 0 <=> x[i] = y[i]
    OBVIOUS
  <2>1. i \in Common(x, y)
    BY DEF Common
  <2> QED
    BY <1>1, <2>1, SgnFacts
<1>4. Len(x) = Len(y) /\ (\A i \in 1 .. Len(x) : x[i] = y[i]) => x = y
  BY SeqEqual
<1> QED
  BY <1>2, <1>3, <1>4

LEMMA TypeClass ==
  ASSUME NEW v \in Any, NEW w \in Any, NEW un \in BOOLEAN, ~un
  PROVE  v.type = w.type <=> Class(v, un) = Class(w, un)
<1>1. \A u \in Any : u = Invalid <=> u.type \notin Types
  <2> TAKE u \in Any
  <2>1. u # Invalid => u.type \in Types
    BY ClassIs
  <2>2. Invalid.type \notin Types
    BY KindsApart
  <2> QED
    BY ONLY <2>1, <2>2
<1>2. CASE v = Invalid \/ w = Invalid
  BY <1>1, <1>2, ClassIs
<1>3. CASE v # Invalid /\ w # Invalid
  <2>1. v.type \in Types /\ w.type \in Types /\ Class(v, un) = TypeNo(v.type) /\ Class(w, un) = TypeNo(w.type)
    BY <1>3, ClassIs
  <2> QED
    BY <2>1, TypeNoInjective
<1> QED
  BY <1>2, <1>3

(* When every key of one object leads to an equal value in another of the  *)
(* same size, the two have the same keys.                                  *)
Leads(n, x, w, E) ==
  /\ x \in Seq(String \X Inner) /\ w.x \in Seq(String \X Inner)
  /\ n = Len(x) /\ n = Len(w.x) /\ KeysSorted(x) /\ KeysSorted(w.x)
  /\ \A i \in 1 .. n : E[x[i][2]][Property(w, x[i][1])] /\ ~E[x[i][2]][Invalid]

LEMMA SameKeys ==
  ASSUME NEW n \in Nat, NEW x, NEW w, NEW E, Leads(n, x, w, E)
  PROVE  \A i \in 1 .. n : x[i][1] = w.x[i][1] /\ E[x[i][2]][w.x[i][2]]
<1> PICK y : y = w.x
  OBVIOUS
<1>0. /\ x \in Seq(String \X Inner) /\ y \in Seq(String \X Inner)
      /\ n = Len(x) /\ n = Len(y) /\ KeysSorted(x) /\ KeysSorted(y)
      /\ \A i \in 1 .. n : E[x[i][2]][Property(w, x[i][1])] /\ ~E[x[i][2]][Invalid]
  BY DEF Leads
<1>1. ASSUME NEW i \in 1 .. n PROVE \E j \in 1 .. n : x[i][1] = y[j][1]
  <2> SUFFICES ASSUME \A j \in 1 .. n : x[i][1] # y[j][1] PROVE FALSE
    OBVIOUS
  <2>1. Property(w, x[i][1]) = Invalid
    BY <1>0 DEF Property
  <2> QED
    BY <1>0, <2>1
<1> PICK p, q : p = [i \in 1 .. n |-> x[i][1]] /\ q = [i \in 1 .. n |-> y[i][1]]
  OBVIOUS
<1>2. \A i \in 1 .. n : p[i] = x[i][1] /\ q[i] = y[i][1]
  OBVIOUS
<1>3. \A i \in 1 .. n : p[i] \in Int /\ q[i] \in Int
  <2> TAKE i \in 1 .. n
  <2>0. i \in 1 .. Len(x) /\ i \in 1 .. Len(y)
    BY <1>0, Zenon
  <2>1. x \in Seq(String \X Inner) /\ y \in Seq(String \X Inner)
    BY <1>0, Zenon
  <2>2. x[i] \in String \X Inner /\ y[i] \in String \X Inner
    BY ONLY <2>0, <2>1
  <2> QED
    BY <1>2, <2>2, CompareAssumption
<1>4. \A i, j \in 1 .. n : i < j => p[i] < p[j] /\ q[i] < q[j]
  BY <1>0, <1>2 DEF KeysSorted
<1>5. \A i \in 1 .. n : \E j \in 1 .. n : p[i] = q[j]
  BY <1>1, <1>2
<1>6. Increasing(n, p, q)
  BY ONLY <1>3, <1>4, <1>5 DEF Increasing
<1>7. \A i \in 1 .. n : p[i] = q[i]
  BY ONLY <1>6, n \in Nat, SameIncreasing
<1>8. \A i \in 1 .. n : x[i][1] = y[i][1]
  BY <1>2, <1>7
<1>9. ASSUME NEW i \in 1 .. n PROVE E[x[i][2]][y[i][2]]
  <2>1. Property(w, y[i][1]) = y[i][2]
    BY <1>0, PropertyIs
  <2>2. E[x[i][2]][Property(w, x[i][1])]
    BY <1>0
  <2>3. Property(w, x[i][1]) = y[i][2]
    BY <1>8, <2>1
  <2> QED
    BY ONLY <2>2, <2>3
<1> QED
  BY <1>8, <1>9

LEMMA ZeroStep ==
  ASSUME NEW d \in 1 .. Depth, NEW C \in Tables, NEW E, Zeros(d - 1, C, E),
         NEW v \in Nests[d], NEW w \in Nests[d], Sound(d, v), Sound(d, w), OneAtom(d, v, w),
         NEW cl \in BOOLEAN, NEW un \in BOOLEAN, NEW be \in Signs, ~cl, ~un,
         NEW s, s = CompareStep(C, v, w, cl, un, be)
  PROVE  s = 0 <=> EqualStep(E, v, w)
<1>0. v \in Any /\ w \in Any /\ Members(v) \subseteq Nests[d - 1] /\ Members(w) \subseteq Nests[d - 1]
  BY NestsAre DEF Any
<1>1. CASE v.type # w.type
  <2>1. Class(v, un) # Class(w, un)
    BY <1>0, <1>1, TypeClass
  <2>2. s = Sgn(Class(v, un), Class(w, un))
    BY <1>0, <2>1, OtherClass
  <2>3. Class(v, un) \in 0 .. 17 /\ Class(w, un) \in 0 .. 17
    BY ONLY <1>0, un \in BOOLEAN, ClassIs
  <2> PICK a, b : a = Class(v, un) /\ b = Class(w, un)
    OBVIOUS
  <2>5. a \in Int /\ b \in Int /\ a # b /\ s = Sgn(a, b)
    BY ONLY <2>1, <2>2, <2>3, a = Class(v, un), b = Class(w, un)
  <2>4. s # 0
    BY ONLY <2>5, SgnFacts
  <2> QED
    BY <1>1, <2>4 DEF EqualStep
<1>2. CASE v.type = w.type
  <2> PICK t, x, y : t = v.type /\ x = v.x /\ y = w.x
    OBVIOUS
  <2>1. Class(v, un) = Class(w, un)
    BY <1>0, <1>2, TypeClass
  <2>2. /\ t \notin Address /\ (t \in OfNumber => ~IsInfinite(x)) /\ (t \in OfNumber => ~IsInfinite(y))
        /\ \A m \in Members(v) \cup Members(w) : Sound(d - 1, m)
        /\ \A m \in Members(v), n \in Members(w) : OneAtom(d - 1, m, n)
        /\ ~Short(v) /\ ~Short(w)
        /\ t = "atomstring" /\ x # y => AtomString[x] # AtomString[y]
    BY <1>0, <1>2, SoundMembers, OneAtomMembers
  <2>3. Normal(C, v, w, cl, un, be, s)
    BY <1>0, <1>2, <2>1, <2>2, NormalForm
  <2>4. CASE Kind(v, un) = "none"
    <3>1. s = 0 /\ t = "invalid"
      BY <2>3, <2>4, KindsApart DEF Normal
    <3> QED
      BY <1>2, <3>1, EqualForm
  <2>5. CASE Kind(v, un) = "number"
    <3>1. x \in Int /\ y \in Int /\ s = NumberSign(x, y)
      BY <2>3, <2>5 DEF Normal
    <3>2. t \in Float /\ t \in OfNumber
      BY <2>5, KindsDiffer DEF Kind
    <3>4. ~IsInfinite(x) /\ EqualDoubles(x, x)
      BY <2>2, <3>1, <3>2, DoublesFacts
    <3>5. Sgn(x, y) = 0 <=> x = y
      BY ONLY <3>1, SgnFacts
    <3>3. s = 0 <=> EqualDoubles(x, y)
      BY ONLY <3>1, <3>4, <3>5 DEF NumberSign
    <3> QED
      BY <1>2, <3>2, <3>3, EqualForm
  <2>6. CASE Kind(v, un) = "key"
    <3>1. Key(v, cl) = x /\ Key(w, cl) = y
      BY DEF Key
    <3>2. x \in Int /\ y \in Int /\ s = Sgn(x, y)
      BY <2>3, <2>6, <3>1 DEF Normal
    <3>3. s = 0 <=> x = y
      BY ONLY <3>2, SgnFacts
    <3>4. v # Invalid /\ t # "object" /\ t \notin Listed /\ t \notin Float /\ t \in Types
      <4>1. v # Invalid
        BY <2>6 DEF Kind
      <4> QED
        BY <1>0, <2>6, <4>1, ClassIs DEF Kind
    <3>5. CASE t \in {"undefined", "null"}
      <4>1. x \in ScalarOf(t) /\ y \in ScalarOf(t) /\ t \in Scalars
        BY <1>0, <1>2, <3>4, <3>5, ScalarShape, KindsApart, TypesAre
      <4>2. x = 0 /\ y = 0
        BY <3>5, <4>1, ScalarSets
      <4> QED
        BY <1>2, <3>3, <3>5, <4>2, EqualForm
    <3>6. CASE t = "atomstring"
      BY <1>2, <2>2, <3>3, <3>6, EqualForm
    <3>7. CASE t \notin {"undefined", "null", "atomstring"}
      <4>1. t # "invalid"
        BY <3>4, KindsApart
      <4>2. t \notin {"invalid", "undefined", "null", "atomstring", "object"} \cup Float \cup Listed
        BY <3>4, <3>7, <4>1
      <4> QED
        BY <1>2, <3>3, <4>2, EqualForm
    <3> QED
      BY <3>5, <3>6, <3>7
  <2>7. CASE Kind(v, un) = "bytes"
    <3>1. x \in Seq(Nat) /\ y \in Seq(Nat) /\ (s = 0 <=> Decide(ByteDiffs(x, y), x, y) = 0) /\ t = "bsequence"
      BY <2>3, <2>7 DEF Normal, Kind
    <3>2. s = 0 <=> x = y
      BY <3>1, BytesZero
    <3>3. t \notin {"invalid", "undefined", "null", "atomstring", "object"} \cup Float \cup Listed
      BY <3>1 DEF Float, Listed, Container
    <3> QED
      BY <1>2, <3>2, <3>3, EqualForm
  <2>8. CASE Kind(v, un) = "list"
    <3> PICK e : e = MemberDiffs(C, x, y)
      OBVIOUS
    <3>1. /\ x \in Seq(Inner) /\ y \in Seq(Inner) /\ s = Decide(e, x, y)
          /\ t \in Listed /\ w.type = t
      BY <1>2, <2>3, <2>8 DEF Normal
    <3>2. DOMAIN e = Common(x, y)
      BY DEF MemberDiffs
    <3>3. s = 0 <=> Len(x) = Len(y) /\ \A i \in 1 .. Len(x) : e[i] = 0
      BY ONLY <3>1, <3>2, DecideZero
    <3>4. ASSUME Len(x) = Len(y), NEW i \in 1 .. Len(x)
          PROVE  e[i] = 0 <=> E[x[i]][y[i]]
      <4>1. e[i] = C[x[i]][y[i]]
        BY <3>4 DEF MemberDiffs, Common
      <4>2. x[i] \in Members(v) /\ y[i] \in Members(w)
        BY <1>0, <3>1, <3>4, MembersAre
      <4>3. x[i] \in Nests[d - 1] /\ y[i] \in Nests[d - 1]
        BY <1>0, <4>2
      <4>4. Sound(d - 1, x[i]) /\ Sound(d - 1, y[i]) /\ OneAtom(d - 1, x[i], y[i])
        BY <2>2, <4>2
      <4> QED
        BY <4>1, <4>3, <4>4 DEF Zeros
    <3>5. EqualStep(E, v, w) <=> Len(x) = Len(y) /\ \A i \in 1 .. Len(x) : E[x[i]][y[i]]
      <4>1. EqualStep(E, v, w) <=> EqualMembers(E, v, w)
        BY <1>2, <3>1, EqualForm
      <4> QED
        BY <4>1 DEF EqualMembers, SameSize
    <3> QED
      BY <3>3, <3>4, <3>5
  <2>9. CASE Kind(v, un) = "object"
    <3> PICK e : e = PairDiffs(C, x, y)
      OBVIOUS
    <3>1. /\ x \in Seq(String \X Inner) /\ y \in Seq(String \X Inner) /\ s = Decide(e, x, y)
          /\ KeysSorted(x) /\ KeysSorted(y) /\ t = "object" /\ w.type = t
      BY <1>2, <2>3, <2>9 DEF Normal
    <3>2. DOMAIN e = Common(x, y)
      BY DEF PairDiffs
    <3>3. s = 0 <=> Len(x) = Len(y) /\ \A i \in 1 .. Len(x) : e[i] = 0
      BY ONLY <3>1, <3>2, DecideZero
    <3>4. EqualStep(E, v, w) <=> Len(x) = Len(y) /\ \A i \in 1 .. Len(x) : E[x[i][2]][Property(w, x[i][1])]
      <4>1. EqualStep(E, v, w) <=> EqualObjects(E, v, w)
        BY <1>2, <3>1, EqualForm
      <4> QED
        BY <4>1 DEF EqualObjects, SameSize
    <3>5. CASE Len(x) # Len(y)
      BY <3>3, <3>4, <3>5
    <3>6. CASE Len(x) = Len(y)
      <4> PICK n \in Nat : n = Len(x) /\ n = Len(y)
        BY <3>1, <3>6
      <4>0. \A i \in 1 .. n : /\ x[i] \in String \X Inner /\ y[i] \in String \X Inner
                              /\ x[i][1] \in Int /\ y[i][1] \in Int
        <5>1. \A i \in 1 .. n : x[i] \in String \X Inner /\ y[i] \in String \X Inner
          <6> PICK S : S = String \X Inner
            OBVIOUS
          <6>1. x \in Seq(S) /\ y \in Seq(S)
            BY <3>1
          <6>2. \A i \in 1 .. n : x[i] \in S /\ y[i] \in S
            <7> TAKE i \in 1 .. n
            <7>1. i \in 1 .. Len(x) /\ i \in 1 .. Len(y)
              BY Zenon
            <7>2. x[i] \in S
              BY ONLY <6>1, <7>1
            <7>3. y[i] \in S
              BY ONLY <6>1, <7>1
            <7> QED
              BY <7>2, <7>3
          <6> QED
            BY <6>2
        <5> QED
          BY <5>1, CompareAssumption
      <4>1. ASSUME NEW i \in 1 .. n, x[i][1] = y[i][1]
            PROVE  e[i] = 0 <=> E[x[i][2]][Property(w, x[i][1])]
        <5>1. i \in Common(x, y)
          BY DEF Common
        <5>2. e[i] = C[x[i][2]][y[i][2]]
          BY <4>1, <5>1 DEF PairDiffs
        <5>3. Property(w, x[i][1]) = y[i][2]
          BY <3>1, <4>1, PropertyIs
        <5>4. x[i][2] \in Members(v) /\ y[i][2] \in Members(w)
          BY <1>0, <3>1, MembersAre
        <5>5. x[i][2] \in Nests[d - 1] /\ y[i][2] \in Nests[d - 1]
          BY <1>0, <5>4
        <5>6. Sound(d - 1, x[i][2]) /\ Sound(d - 1, y[i][2]) /\ OneAtom(d - 1, x[i][2], y[i][2])
          BY <2>2, <5>4
        <5> QED
          BY <5>2, <5>3, <5>5, <5>6 DEF Zeros
      <4>2. ASSUME NEW i \in 1 .. n, e[i] = 0
            PROVE  x[i][1] = y[i][1]
        <5>1. i \in Common(x, y)
          BY DEF Common
        <5>2. x[i][1] # y[i][1] => e[i] = Sgn(x[i][1], y[i][1])
          BY <5>1 DEF PairDiffs
        <5> QED
          BY <4>0, <4>2, <5>2, SgnFacts
      <4>3. ASSUME \A i \in 1 .. n : E[x[i][2]][Property(w, x[i][1])]
            PROVE  \A i \in 1 .. n : x[i][1] = y[i][1]
        <5>1. \A i \in 1 .. n : ~E[x[i][2]][Invalid]
          <6> TAKE i \in 1 .. n
          <6>1. x[i][2] \in Members(v)
            BY <1>0, <3>1, MembersAre
          <6>2. x[i][2] \in Nests[d - 1] /\ x[i][2] # Invalid
            BY <1>0, <6>1, MembersAre DEF Inner
          <6> QED
            BY <6>2 DEF Zeros
        <5>2. Leads(n, x, w, E)
          BY <3>1, <4>3, <5>1 DEF Leads
        <5>3. \A i \in 1 .. n : x[i][1] = w.x[i][1] /\ E[x[i][2]][w.x[i][2]]
          BY ONLY <5>2, n \in Nat, SameKeys
        <5> QED
          BY <5>3
      <4> QED
        BY <3>3, <3>4, <3>6, <4>1, <4>2, <4>3
    <3> QED
      BY <3>5, <3>6
  <2> QED
    BY <2>4, <2>5, <2>6, <2>7, <2>8, <2>9 DEF Kind
<1> QED
  BY <1>1, <1>2

LEMMA ZerosEqual ==
  ASSUME NEW cl \in BOOLEAN, NEW un \in BOOLEAN, NEW be \in Signs, ~cl, ~un
  PROVE  Zeros(Depth, CompareAt(cl, un, be)[Depth], EqualAt[Depth])
<1> PICK A, B : A = CompareAt(cl, un, be) /\ B = EqualAt
  OBVIOUS
<1>0. Depth \in Nat
  BY CompareAssumption
<1>1. /\ \A d \in 0 .. Depth : A[d] \in Tables
      /\ \A d \in 1 .. Depth : \A a, b \in Any : A[d][a][b] = CompareStep(A[d - 1], a, b, cl, un, be)
  BY CompareIs
<1> DEFINE P == {d \in 0 .. Depth : Zeros(d, A[d], B[d])}
<1>2. 0 \in P
  BY <1>0, NestsAre DEF Zeros
<1>3. ASSUME NEW d \in 1 .. Depth, d - 1 \in P PROVE d \in P
  <2>1. Zeros(d - 1, A[d - 1], B[d - 1]) /\ d - 1 \in 0 .. Depth /\ d \in 0 .. Depth
    BY <1>0, <1>3
  <2>2. ASSUME NEW a \in Nests[d], NEW b \in Nests[d], Sound(d, a), Sound(d, b), OneAtom(d, a, b)
        PROVE  A[d][a][b] = 0 <=> B[d][a][b]
    <3>0. a \in Any /\ b \in Any
      BY NestsAre DEF Any
    <3>1. A[d][a][b] = CompareStep(A[d - 1], a, b, cl, un, be)
      BY <1>1, <3>0
    <3>2. B[d][a][b] <=> EqualStep(B[d - 1], a, b)
      BY <3>0, EqualIs
    <3>3. A[d - 1] \in Tables
      BY <1>1, <2>1
    <3> QED
      BY <2>1, <2>2, <3>1, <3>2, <3>3, ZeroStep
  <2>3. ASSUME NEW a \in Nests[d], a # Invalid
        PROVE  ~B[d][a][Invalid]
    <3>0. a \in Any
      BY NestsAre DEF Any
    <3>1. B[d][a][Invalid] <=> EqualStep(B[d - 1], a, Invalid)
      BY <3>0, EqualIs, KindsApart
    <3>2. a.type # Invalid.type
      BY <2>3, <3>0, ClassIs, KindsApart
    <3> QED
      BY <3>1, <3>2 DEF EqualStep
  <2>4. Zeros(d, A[d], B[d])
    BY <2>2, <2>3 DEF Zeros
  <2> QED
    BY <2>1, <2>4
<1>4. 0 .. Depth \subseteq P
  <2> HIDE DEF P
  <2> QED
    BY <1>0, <1>2, <1>3, Steps
<1> QED
  BY <1>0, <1>4

-----------------------------------------------------------------------------
(* The answers order the values.                                           *)
LEMMA SgnFits ==
  ASSUME NEW p \in Int, NEW q \in Int, NEW r1 \in Int
  PROVE  Fits(Sgn(p, q), Sgn(q, r1), Sgn(p, r1))
BY DEF Fits, Sgn

(* What is ordered by a number first, and then by something else.          *)
Lexical(p, q, o, a, b, c, a1, b1, c1) ==
  /\ a \in Int /\ b \in Int /\ c \in Int /\ (p = q /\ q = o => Fits(a, b, c))
  /\ a1 = IF p # q THEN Sgn(p, q) ELSE a
  /\ b1 = IF q # o THEN Sgn(q, o) ELSE b
  /\ c1 = IF p # o THEN Sgn(p, o) ELSE c

LEMMA LexFits ==
  ASSUME NEW p \in Int, NEW q \in Int, NEW o \in Int, NEW a, NEW b, NEW c,
         NEW a1, NEW b1, NEW c1, Lexical(p, q, o, a, b, c, a1, b1, c1)
  PROVE  Fits(a1, b1, c1)
<1> USE DEF Lexical
<1>1. CASE p = q /\ q = o
  BY <1>1
<1>2. CASE p = q /\ q # o
  BY <1>2 DEF Fits, Sgn
<1>3. CASE p # q /\ q = o
  BY <1>3 DEF Fits, Sgn
<1>4. CASE p # q /\ q # o
  BY <1>4 DEF Fits, Sgn
<1> QED
  BY <1>1, <1>2, <1>3, <1>4

LEMMA BytesFit ==
  ASSUME NEW x \in Seq(Nat), NEW y \in Seq(Nat), NEW z \in Seq(Nat)
  PROVE  Fits(Decide(ByteDiffs(x, y), x, y), Decide(ByteDiffs(y, z), y, z), Decide(ByteDiffs(x, z), x, z))
<1> PICK e, f, g : e = ByteDiffs(x, y) /\ f = ByteDiffs(y, z) /\ g = ByteDiffs(x, z)
  OBVIOUS
<1>1. /\ DOMAIN e = Common(x, y) /\ \A i \in DOMAIN e : e[i] = Sgn(x[i], y[i]) /\ x[i] \in Int /\ y[i] \in Int
      /\ DOMAIN f = Common(y, z) /\ \A i \in DOMAIN f : f[i] = Sgn(y[i], z[i]) /\ y[i] \in Int /\ z[i] \in Int
      /\ DOMAIN g = Common(x, z) /\ \A i \in DOMAIN g : g[i] = Sgn(x[i], z[i]) /\ x[i] \in Int /\ z[i] \in Int
  BY BytesTyped
<1>2. \A a, b \in Int : Sgn(a, b) \in Int
  BY SgnFacts DEF Signs
<1>3. \A i \in DOMAIN e : e[i] \in Int
  BY <1>1, <1>2
<1>4. \A i \in DOMAIN f : f[i] \in Int
  BY <1>1, <1>2
<1>5. \A i \in DOMAIN g : g[i] \in Int
  BY <1>1, <1>2
<1>6. \A i \in Nat : i \in DOMAIN e /\ i \in DOMAIN f /\ i \in DOMAIN g => Fits(e[i], f[i], g[i])
  BY <1>1, SgnFits
<1> QED
  BY <1>1, <1>3, <1>4, <1>5, <1>6, DecideFits

Together(d, a, b, c) ==
  /\ Sound(d, a) /\ Sound(d, b) /\ Sound(d, c)
  /\ Distinct(d, a, b) /\ Distinct(d, b, c) /\ Distinct(d, a, c)
Orders(d, C) == \A a, b, c \in Any : Together(d, a, b, c) => Fits(C[a][b], C[b][c], C[a][c])

LEMMA TogetherMembers ==
  ASSUME NEW d \in 1 .. Depth, NEW a \in Any, NEW b \in Any, NEW c \in Any, Together(d, a, b, c)
  PROVE  /\ \A v \in {a, b, c} : v.type \notin Address /\ (v.type \in OfNumber => ~IsInfinite(v.x)) /\ ~Short(v)
         /\ a.type \in OfNumber /\ b.type \in OfNumber /\ a.x # b.x => ~EqualDoubles(a.x, b.x)
         /\ b.type \in OfNumber /\ c.type \in OfNumber /\ b.x # c.x => ~EqualDoubles(b.x, c.x)
         /\ a.type \in OfNumber /\ c.type \in OfNumber /\ a.x # c.x => ~EqualDoubles(a.x, c.x)
         /\ \A m \in Members(a), n \in Members(b), o \in Members(c) : Together(d - 1, m, n, o)
<1>1. Sound(d, a) /\ Sound(d, b) /\ Sound(d, c) /\ Distinct(d, a, b) /\ Distinct(d, b, c) /\ Distinct(d, a, c)
  BY DEF Together
<1>2. \A v \in {a, b, c} : v.type \notin Address /\ (v.type \in OfNumber => ~IsInfinite(v.x)) /\ ~Short(v)
  BY <1>1, SoundMembers
<1>3. /\ a.type \in OfNumber /\ b.type \in OfNumber /\ a.x # b.x => ~EqualDoubles(a.x, b.x)
      /\ b.type \in OfNumber /\ c.type \in OfNumber /\ b.x # c.x => ~EqualDoubles(b.x, c.x)
      /\ a.type \in OfNumber /\ c.type \in OfNumber /\ a.x # c.x => ~EqualDoubles(a.x, c.x)
  BY <1>1, SoundMembers
<1>4. ASSUME NEW m \in Members(a), NEW n \in Members(b), NEW o \in Members(c)
      PROVE  Together(d - 1, m, n, o)
  <2>1. Sound(d - 1, m) /\ Sound(d - 1, n) /\ Sound(d - 1, o)
    BY <1>1, SoundMembers
  <2>2. Distinct(d - 1, m, n) /\ Distinct(d - 1, n, o) /\ Distinct(d - 1, m, o)
    BY <1>1, SoundMembers
  <2> QED
    BY <2>1, <2>2 DEF Together
<1> QED
  BY <1>2, <1>3, <1>4

(* What the differences of members and of pairs are.                       *)
MembersDiffer(C, x, y, e) ==
  /\ DOMAIN e = Common(x, y)
  /\ \A i \in Common(x, y) : e[i] = C[x[i]][y[i]] /\ e[i] \in Int
PairsDiffer(C, x, y, e) ==
  /\ DOMAIN e = Common(x, y)
  /\ \A i \in Common(x, y) :
       /\ e[i] = IF x[i][1] # y[i][1] THEN Sgn(x[i][1], y[i][1]) ELSE C[x[i][2]][y[i][2]]
       /\ e[i] \in Int

LEMMA MemberIs ==
  ASSUME NEW C \in Tables, NEW x \in Seq(Inner), NEW y \in Seq(Inner)
  PROVE  MembersDiffer(C, x, y, MemberDiffs(C, x, y))
<1>0. Inner \subseteq Any /\ C \in [Any -> [Any -> Int]]
  <2>1. Inner \subseteq Any
    BY KindsApart
  <2>2. C \in [Any -> [Any -> Int]]
    BY DEF Tables, Answers, Signs, Aborts
  <2> QED
    BY <2>1, <2>2
<1> PICK e : e = MemberDiffs(C, x, y)
  OBVIOUS
<1>1. DOMAIN e = Common(x, y) /\ \A i \in Common(x, y) : e[i] = C[x[i]][y[i]]
  BY DEF MemberDiffs
<1>2. ASSUME NEW i \in Common(x, y) PROVE e[i] \in Int
  <2>1. x[i] \in Inner /\ y[i] \in Inner
    BY CommonIs
  <2>2. x[i] \in Any /\ y[i] \in Any
    BY <1>0, <2>1
  <2> QED
    BY <1>0, <1>1, <2>2
<1> QED
  BY <1>1, <1>2 DEF MembersDiffer

LEMMA PairIs ==
  ASSUME NEW C \in Tables, NEW x \in Seq(String \X Inner), NEW y \in Seq(String \X Inner)
  PROVE  PairsDiffer(C, x, y, PairDiffs(C, x, y))
<1>0. Inner \subseteq Any /\ C \in [Any -> [Any -> Int]] /\ String \subseteq Int
  BY KindsApart, CompareAssumption DEF Tables, Answers, Signs, Aborts
<1> PICK e : e = PairDiffs(C, x, y)
  OBVIOUS
<1>1. /\ DOMAIN e = Common(x, y)
      /\ \A i \in Common(x, y) : e[i] = IF x[i][1] # y[i][1] THEN Sgn(x[i][1], y[i][1]) ELSE C[x[i][2]][y[i][2]]
  BY DEF PairDiffs
<1>3. ASSUME NEW i \in Common(x, y) PROVE e[i] \in Int
  <2>0. x[i] \in String \X Inner /\ y[i] \in String \X Inner
    BY CommonIs
  <2>1. x[i][1] \in Int /\ y[i][1] \in Int /\ x[i][2] \in Any /\ y[i][2] \in Any
    BY <1>0, <2>0
  <2>2. Sgn(x[i][1], y[i][1]) \in Int
    BY <2>1, SgnFacts DEF Signs
  <2>3. C[x[i][2]][y[i][2]] \in Int
    BY <1>0, <2>1
  <2> QED
    BY <1>1, <2>2, <2>3
<1> QED
  BY <1>1, <1>3 DEF PairsDiffer

(* Of the same class.                                                      *)
LEMMA OrderWithin ==
  ASSUME NEW d \in 1 .. Depth, NEW C \in Tables, Orders(d - 1, C),
         NEW a \in Any, NEW b \in Any, NEW c \in Any, Together(d, a, b, c),
         NEW cl \in BOOLEAN, NEW un \in BOOLEAN, NEW be \in Signs, be # -1,
         Class(a, un) = Class(b, un), Class(b, un) = Class(c, un),
         NEW s, s = CompareStep(C, a, b, cl, un, be),
         NEW t, t = CompareStep(C, b, c, cl, un, be),
         NEW u, u = CompareStep(C, a, c, cl, un, be)
  PROVE  Fits(s, t, u)
<1>1. /\ \A v \in {a, b, c} : v.type \notin Address /\ (v.type \in OfNumber => ~IsInfinite(v.x)) /\ ~Short(v)
      /\ a.type \in OfNumber /\ b.type \in OfNumber /\ a.x # b.x => ~EqualDoubles(a.x, b.x)
      /\ b.type \in OfNumber /\ c.type \in OfNumber /\ b.x # c.x => ~EqualDoubles(b.x, c.x)
      /\ a.type \in OfNumber /\ c.type \in OfNumber /\ a.x # c.x => ~EqualDoubles(a.x, c.x)
      /\ \A m \in Members(a), n \in Members(b), o \in Members(c) : Together(d - 1, m, n, o)
  BY TogetherMembers
<1>2. Normal(C, a, b, cl, un, be, s)
  BY <1>1, NormalForm
<1>3. Normal(C, b, c, cl, un, be, t)
  BY <1>1, NormalForm
<1>4. Normal(C, a, c, cl, un, be, u)
  BY <1>1, NormalForm
<1>5. Kind(a, un) = Kind(b, un) /\ Kind(c, un) = Kind(b, un)
  BY <1>2, <1>3 DEF Normal
<1> PICK x, y, z : x = a.x /\ y = b.x /\ z = c.x
  OBVIOUS
<1>6. CASE Kind(a, un) = "none"
  <2>1. s = 0 /\ t = 0 /\ u = 0
    BY <1>2, <1>3, <1>4, <1>5, <1>6 DEF Normal
  <2> QED
    BY ONLY <2>1 DEF Fits
<1>7. CASE Kind(a, un) = "number"
  <2>1. /\ x \in Int /\ y \in Int /\ z \in Int
        /\ s = NumberSign(x, y) /\ t = NumberSign(y, z) /\ u = NumberSign(x, z)
        /\ a.type \in OfNumber /\ b.type \in OfNumber /\ c.type \in OfNumber
    BY <1>2, <1>3, <1>4, <1>5, <1>7 DEF Normal
  <2>2. \A m, n \in Int : (m # n => ~EqualDoubles(m, n)) => NumberSign(m, n) = Sgn(m, n)
    <3> TAKE m, n \in Int
    <3>1. m = n => Sgn(m, n) = 0
      BY ONLY m \in Int, n \in Int, SgnFacts
    <3> QED
      BY ONLY <3>1 DEF NumberSign
  <2>3. s = Sgn(x, y) /\ t = Sgn(y, z) /\ u = Sgn(x, z)
    BY <1>1, <2>1, <2>2
  <2> QED
    BY ONLY <2>1, <2>3, SgnFits
<1>8. CASE Kind(a, un) = "key"
  <2> PICK i, j, k : i = Key(a, cl) /\ j = Key(b, cl) /\ k = Key(c, cl)
    OBVIOUS
  <2>1. i \in Int /\ j \in Int /\ k \in Int /\ s = Sgn(i, j) /\ t = Sgn(j, k) /\ u = Sgn(i, k)
    BY <1>2, <1>3, <1>4, <1>5, <1>8 DEF Normal
  <2> QED
    BY ONLY <2>1, SgnFits
<1>9. CASE Kind(a, un) = "bytes"
  <2>1. /\ x \in Seq(Nat) /\ y \in Seq(Nat) /\ z \in Seq(Nat)
        /\ s = Decide(ByteDiffs(x, y), x, y) /\ t = Decide(ByteDiffs(y, z), y, z)
        /\ u = Decide(ByteDiffs(x, z), x, z)
    BY <1>2, <1>3, <1>4, <1>5, <1>9 DEF Normal
  <2> QED
    BY ONLY <2>1, BytesFit
<1>10. CASE Kind(a, un) = "list"
  <2> PICK e, f, g : e = MemberDiffs(C, x, y) /\ f = MemberDiffs(C, y, z) /\ g = MemberDiffs(C, x, z)
    OBVIOUS
  <2>1. /\ x \in Seq(Inner) /\ y \in Seq(Inner) /\ z \in Seq(Inner)
        /\ s = Decide(e, x, y) /\ t = Decide(f, y, z) /\ u = Decide(g, x, z)
        /\ a.type \in Listed /\ b.type \in Listed /\ c.type \in Listed
    BY <1>2, <1>3, <1>4, <1>5, <1>10 DEF Normal
  <2>2. C \in [Any -> [Any -> Int]]
    BY DEF Tables, Answers, Signs, Aborts
  <2>3. /\ DOMAIN e = Common(x, y) /\ \A i \in DOMAIN e : e[i] = C[x[i]][y[i]] /\ e[i] \in Int
        /\ DOMAIN f = Common(y, z) /\ \A i \in DOMAIN f : f[i] = C[y[i]][z[i]] /\ f[i] \in Int
        /\ DOMAIN g = Common(x, z) /\ \A i \in DOMAIN g : g[i] = C[x[i]][z[i]] /\ g[i] \in Int
    <3>1. DOMAIN e = Common(x, y) /\ \A i \in Common(x, y) : e[i] = C[x[i]][y[i]] /\ e[i] \in Int
      BY ONLY <2>1, C \in Tables, e = MemberDiffs(C, x, y), MemberIs DEF MembersDiffer
    <3>2. DOMAIN f = Common(y, z) /\ \A i \in Common(y, z) : f[i] = C[y[i]][z[i]] /\ f[i] \in Int
      BY ONLY <2>1, C \in Tables, f = MemberDiffs(C, y, z), MemberIs DEF MembersDiffer
    <3>3. DOMAIN g = Common(x, z) /\ \A i \in Common(x, z) : g[i] = C[x[i]][z[i]] /\ g[i] \in Int
      BY ONLY <2>1, C \in Tables, g = MemberDiffs(C, x, z), MemberIs DEF MembersDiffer
    <3> QED
      BY ONLY <3>1, <3>2, <3>3
  <2>4. ASSUME NEW i \in Nat, i \in DOMAIN e, i \in DOMAIN f, i \in DOMAIN g
        PROVE  Fits(e[i], f[i], g[i])
    <3>1. i \in 1 .. Len(x) /\ i \in 1 .. Len(y) /\ i \in 1 .. Len(z)
      BY ONLY <2>1, <2>3, <2>4, CommonIs
    <3>2. x[i] \in Members(a) /\ y[i] \in Members(b) /\ z[i] \in Members(c)
      BY <2>1, <3>1, MembersAre
    <3>3. x[i] \in Any /\ y[i] \in Any /\ z[i] \in Any
      BY <3>2, MembersAre, KindsApart
    <3>4. Together(d - 1, x[i], y[i], z[i])
      BY <1>1, <3>2
    <3>5. Fits(C[x[i]][y[i]], C[y[i]][z[i]], C[x[i]][z[i]])
      BY <3>3, <3>4 DEF Orders
    <3>6. e[i] = C[x[i]][y[i]] /\ f[i] = C[y[i]][z[i]] /\ g[i] = C[x[i]][z[i]]
      BY <2>3, <2>4
    <3> QED
      BY ONLY <3>5, <3>6
  <2> QED
    BY ONLY <2>1, <2>3, <2>4, DecideFits
<1>11. CASE Kind(a, un) = "object"
  <2> PICK e, f, g : e = PairDiffs(C, x, y) /\ f = PairDiffs(C, y, z) /\ g = PairDiffs(C, x, z)
    OBVIOUS
  <2>1. /\ x \in Seq(String \X Inner) /\ y \in Seq(String \X Inner) /\ z \in Seq(String \X Inner)
        /\ s = Decide(e, x, y) /\ t = Decide(f, y, z) /\ u = Decide(g, x, z)
        /\ a.type = "object" /\ b.type = "object" /\ c.type = "object"
    BY <1>2, <1>3, <1>4, <1>5, <1>11 DEF Normal
  <2>2. C \in [Any -> [Any -> Int]]
    BY DEF Tables, Answers, Signs, Aborts
  <2>3. /\ DOMAIN e = Common(x, y)
        /\ \A i \in Common(x, y) :
              /\ e[i] = IF x[i][1] # y[i][1] THEN Sgn(x[i][1], y[i][1]) ELSE C[x[i][2]][y[i][2]]
              /\ e[i] \in Int
    BY ONLY <2>1, C \in Tables, e = PairDiffs(C, x, y), PairIs DEF PairsDiffer
  <2>6. /\ DOMAIN f = Common(y, z)
        /\ \A i \in Common(y, z) :
              /\ f[i] = IF y[i][1] # z[i][1] THEN Sgn(y[i][1], z[i][1]) ELSE C[y[i][2]][z[i][2]]
              /\ f[i] \in Int
    BY ONLY <2>1, C \in Tables, f = PairDiffs(C, y, z), PairIs DEF PairsDiffer
  <2>7. /\ DOMAIN g = Common(x, z)
        /\ \A i \in Common(x, z) :
              /\ g[i] = IF x[i][1] # z[i][1] THEN Sgn(x[i][1], z[i][1]) ELSE C[x[i][2]][z[i][2]]
              /\ g[i] \in Int
    BY ONLY <2>1, C \in Tables, g = PairDiffs(C, x, z), PairIs DEF PairsDiffer
  <2>4. /\ DOMAIN e = Common(x, y) /\ \A i \in DOMAIN e : e[i] \in Int
        /\ DOMAIN f = Common(y, z) /\ \A i \in DOMAIN f : f[i] \in Int
        /\ DOMAIN g = Common(x, z) /\ \A i \in DOMAIN g : g[i] \in Int
    BY ONLY <2>3, <2>6, <2>7
  <2>5. ASSUME NEW i \in Nat, i \in DOMAIN e, i \in DOMAIN f, i \in DOMAIN g
        PROVE  Fits(e[i], f[i], g[i])
    <3>1. i \in 1 .. Len(x) /\ i \in 1 .. Len(y) /\ i \in 1 .. Len(z)
      BY ONLY <2>1, <2>4, <2>5, CommonIs
    <3>2. /\ x[i][2] \in Members(a) /\ y[i][2] \in Members(b) /\ z[i][2] \in Members(c)
          /\ x[i][1] \in String /\ y[i][1] \in String /\ z[i][1] \in String
      BY <2>1, <3>1, MembersAre
    <3> PICK p \in Int, q \in Int, o \in Int : p = x[i][1] /\ q = y[i][1] /\ o = z[i][1]
      BY <3>2, CompareAssumption
    <3> PICK m \in Any, n \in Any, w \in Any : m = x[i][2] /\ n = y[i][2] /\ w = z[i][2]
      BY <3>2, MembersAre, KindsApart
    <3>3. Together(d - 1, m, n, w)
      BY <1>1, <3>2
    <3>4. Fits(C[m][n], C[n][w], C[m][w])
      BY <3>3 DEF Orders
    <3>5. C[m][n] \in Int /\ C[n][w] \in Int /\ C[m][w] \in Int
      BY <2>2
    <3>6. /\ e[i] = IF p # q THEN Sgn(p, q) ELSE C[m][n]
          /\ f[i] = IF q # o THEN Sgn(q, o) ELSE C[n][w]
          /\ g[i] = IF p # o THEN Sgn(p, o) ELSE C[m][w]
      <4>1. /\ \A k \in Common(x, y) : e[k] = IF x[k][1] # y[k][1] THEN Sgn(x[k][1], y[k][1]) ELSE C[x[k][2]][y[k][2]]
            /\ \A k \in Common(y, z) : f[k] = IF y[k][1] # z[k][1] THEN Sgn(y[k][1], z[k][1]) ELSE C[y[k][2]][z[k][2]]
            /\ \A k \in Common(x, z) : g[k] = IF x[k][1] # z[k][1] THEN Sgn(x[k][1], z[k][1]) ELSE C[x[k][2]][z[k][2]]
        BY ONLY <2>3, <2>6, <2>7
      <4>2. i \in Common(x, y) /\ i \in Common(y, z) /\ i \in Common(x, z)
        BY <2>4, <2>5
      <4> QED
        BY ONLY <4>1, <4>2, p = x[i][1], q = y[i][1], o = z[i][1], m = x[i][2], n = y[i][2], w = z[i][2]
    <3> QED
      <4>1. Lexical(p, q, o, C[m][n], C[n][w], C[m][w], e[i], f[i], g[i])
        BY ONLY <3>4, <3>5, <3>6 DEF Lexical
      <4> QED
        BY ONLY <4>1, p \in Int, q \in Int, o \in Int, LexFits
  <2> QED
    BY ONLY <2>1, <2>4, <2>5, DecideFits
<1> QED
  BY <1>6, <1>7, <1>8, <1>9, <1>10, <1>11 DEF Kind

LEMMA OrderStep ==
  ASSUME NEW d \in 1 .. Depth, NEW C \in Tables, Orders(d - 1, C),
         NEW a \in Any, NEW b \in Any, NEW c \in Any, Together(d, a, b, c),
         NEW cl \in BOOLEAN, NEW un \in BOOLEAN, NEW be \in Signs, be # -1,
         NEW s, s = CompareStep(C, a, b, cl, un, be),
         NEW t, t = CompareStep(C, b, c, cl, un, be),
         NEW u, u = CompareStep(C, a, c, cl, un, be)
  PROVE  Fits(s, t, u)
<1> PICK p \in Int, q \in Int, o \in Int : p = Class(a, un) /\ q = Class(b, un) /\ o = Class(c, un)
  BY SMTT(20), ClassIs
<1>1. s \in Int /\ t \in Int /\ u \in Int
  BY StepTyped DEF Answers, Signs, Aborts
<1>2. s = IF p # q THEN Sgn(p, q) ELSE s
  BY OtherClass
<1>3. t = IF q # o THEN Sgn(q, o) ELSE t
  BY OtherClass
<1>4. u = IF p # o THEN Sgn(p, o) ELSE u
  BY OtherClass
<1>5. p = q /\ q = o => Fits(s, t, u)
  BY OrderWithin
<1> QED
  <2>1. Lexical(p, q, o, s, t, u, s, t, u)
    BY ONLY <1>1, <1>2, <1>3, <1>4, <1>5 DEF Lexical
  <2> QED
    BY ONLY <2>1, p \in Int, q \in Int, o \in Int, LexFits

LEMMA AnswersOrder ==
  ASSUME NEW cl \in BOOLEAN, NEW un \in BOOLEAN, NEW be \in Signs, be # -1
  PROVE  Orders(Depth, CompareAt(cl, un, be)[Depth])
<1> PICK A : A = CompareAt(cl, un, be)
  OBVIOUS
<1>0. Depth \in Nat
  BY CompareAssumption
<1>1. /\ \A d \in 0 .. Depth : A[d] \in Tables
      /\ \A a, b \in Any : A[0][a][b] = 0
      /\ \A d \in 1 .. Depth : \A a, b \in Any : A[d][a][b] = CompareStep(A[d - 1], a, b, cl, un, be)
  BY CompareIs
<1> DEFINE P == {d \in 0 .. Depth : Orders(d, A[d])}
<1>2. 0 \in P
  BY <1>0, <1>1 DEF Orders, Fits
<1>3. ASSUME NEW d \in 1 .. Depth, d - 1 \in P PROVE d \in P
  <2>1. Orders(d - 1, A[d - 1]) /\ d - 1 \in 0 .. Depth /\ d \in 0 .. Depth
    BY <1>0, <1>3
  <2>2. ASSUME NEW a \in Any, NEW b \in Any, NEW c \in Any, Together(d, a, b, c)
        PROVE  Fits(A[d][a][b], A[d][b][c], A[d][a][c])
    <3>1. /\ A[d][a][b] = CompareStep(A[d - 1], a, b, cl, un, be)
          /\ A[d][b][c] = CompareStep(A[d - 1], b, c, cl, un, be)
          /\ A[d][a][c] = CompareStep(A[d - 1], a, c, cl, un, be)
      BY <1>1
    <3>2. A[d - 1] \in Tables
      BY <1>1, <2>1
    <3> QED
      BY <2>1, <2>2, <3>1, <3>2, OrderStep
  <2>3. Orders(d, A[d])
    BY <2>2 DEF Orders
  <2> QED
    BY <2>1, <2>3
<1>4. 0 .. Depth \subseteq P
  <2> HIDE DEF P
  <2> QED
    BY <1>0, <1>2, <1>3, Steps
<1> QED
  BY <1>0, <1>4

-----------------------------------------------------------------------------
(* What was asked for, and what was answered.                              *)
Methods == {"case", "caseless", "number", "auto"}
Answered ==
  /\ l \in Value /\ r \in Value
  /\ caseless \in BOOLEAN /\ unify \in BOOLEAN /\ beyond \in Signs
  /\ op \in Asked \cup DOMAIN UniqueKeys
  /\ op = "compare_ex" => result = CompareWith(l, r)
  /\ op = "is_equal_to" => result = IF Equal(l, r) THEN 1 ELSE 0
  /\ op = "diff" => result = DiffWith(l, r) /\ (l.type = r.type => l.type \notin Container)
  /\ op \in Methods => l # Invalid /\ r # Invalid /\ result = CompareBy(l, r, op)
  /\ op \in DOMAIN UniqueKeys =>
       /\ l # Invalid /\ r # Invalid
       /\ ScalarKeys(l, UniqueKeys[op]) /\ ScalarKeys(r, UniqueKeys[op])
       /\ result = DiffBySet(l, r, UniqueKeys[op], beyond)

(* Whatever was asked for, the answer is the one for it.                   *)
THEOREM AnsweredAlways == TextSpec => []Answered
<1>0. /\ DOMAIN UniqueKeys \cap Asked = {} /\ Methods \subseteq Asked
      /\ {"none", "is_equal_to", "compare_ex", "diff"} \subseteq Asked
      /\ {"none", "is_equal_to", "compare_ex", "diff"} \cap Methods = {}
  BY TextAssumption DEF Asked, Methods
<1>1. Init => Answered
  <2> SUFFICES ASSUME Init PROVE Answered
    OBVIOUS
  <2>1. op = "none" /\ op \in Asked /\ op \notin Methods /\ op \notin DOMAIN UniqueKeys
    BY <1>0 DEF Init
  <2>2. l \in Value /\ r \in Value /\ caseless \in BOOLEAN /\ unify \in BOOLEAN /\ beyond \in Signs
    BY DEF Init, Signs
  <2> QED
    BY <2>1, <2>2 DEF Answered
<1>2. Answered /\ [TextNext]_vars => Answered'
  <2> SUFFICES ASSUME Answered, [TextNext]_vars PROVE Answered'
    OBVIOUS
  <2>0. l \in Value /\ r \in Value /\ caseless \in BOOLEAN /\ unify \in BOOLEAN /\ beyond \in Signs
    BY DEF Answered
  <2>1. CASE IsEqualTo
    <3>1. op' = "is_equal_to" /\ op' \notin Methods /\ op' \notin DOMAIN UniqueKeys /\ op' \in Asked
      BY <1>0, <2>1 DEF IsEqualTo
    <3> QED
      BY <2>0, <2>1, <3>1 DEF IsEqualTo, Answered
  <2>2. CASE CompareEx
    <3>1. op' = "compare_ex" /\ op' \notin Methods /\ op' \notin DOMAIN UniqueKeys /\ op' \in Asked
      BY <1>0, <2>2 DEF CompareEx
    <3> QED
      BY <2>0, <2>2, <3>1 DEF CompareEx, Answered, CompareWith
  <2>3. CASE DiffOf
    <3>1. op' = "diff" /\ op' \notin Methods /\ op' \notin DOMAIN UniqueKeys /\ op' \in Asked
      BY <1>0, <2>3 DEF DiffOf
    <3> QED
      BY <2>0, <2>3, <3>1 DEF DiffOf, Answered, DiffWith
  <2>4. CASE CompareByMethod
    <3>1. /\ op' \in Methods /\ l # Invalid /\ r # Invalid /\ result' = CompareBy(l, r, op')
          /\ UNCHANGED <<l, r, caseless, unify, beyond>>
      BY <2>4 DEF CompareByMethod, Methods
    <3>2. /\ op' \notin DOMAIN UniqueKeys /\ op' \in Asked
          /\ op' # "is_equal_to" /\ op' # "compare_ex" /\ op' # "diff"
      BY <1>0, <3>1
    <3> QED
      BY <2>0, <3>1, <3>2 DEF Answered
  <2>5. CASE CompareInSet
    <3>1. /\ op' \in DOMAIN UniqueKeys /\ l # Invalid /\ r # Invalid
          /\ ScalarKeys(l, UniqueKeys[op']) /\ ScalarKeys(r, UniqueKeys[op'])
          /\ result' = DiffBySet(l, r, UniqueKeys[op'], beyond)
          /\ UNCHANGED <<l, r, caseless, unify, beyond>>
      BY <2>5 DEF CompareInSet
    <3>2. op' \notin Methods /\ op' # "is_equal_to" /\ op' # "compare_ex" /\ op' # "diff"
      BY <1>0, <3>1
    <3> QED
      BY <2>0, <3>1, <3>2 DEF Answered
  <2>6. CASE UNCHANGED vars
    BY <2>6 DEF vars, Answered, CompareWith, DiffWith
  <2> QED
    BY <2>1, <2>2, <2>3, <2>4, <2>5, <2>6 DEF TextNext, Next
<1> QED
  BY <1>1, <1>2, PTL DEF TextSpec

LEMMA ValuesAre == Value \subseteq Any /\ (\A v \in Value : Depth \in 1 .. Depth)
<1>1. \A v \in Value : Depth # 0
  BY NestsAre
<1> QED
  BY <1>1, CompareAssumption DEF Any

(* Swapping the variants swaps the answer of pcvar_compare_ex: a sort or a *)
(* search by it does not depend on the side a variant is passed on.        *)
THEOREM MirrorsAlways == TextSpec => []Antisymmetric
<1>1. Answered => Antisymmetric
  <2> SUFFICES ASSUME Answered, op = "compare_ex", Exact(l), Exact(r), beyond # -1
               PROVE  CompareWith(r, l) = -result
    BY DEF Antisymmetric
  <2>1. /\ l \in Any /\ r \in Any /\ caseless \in BOOLEAN /\ unify \in BOOLEAN /\ beyond \in Signs
        /\ result = CompareWith(l, r)
    BY ValuesAre DEF Answered
  <2>2. Sound(Depth, l) /\ Sound(Depth, r)
    BY ExactIs
  <2>3. Mirrors(Depth, CompareAt(caseless, unify, beyond)[Depth])
    BY <2>1, AnswersMirror
  <2> QED
    BY <2>1, <2>2, <2>3 DEF Mirrors, CompareWith, Compare
<1> QED
  BY <1>1, AnsweredAlways, PTL

(* pcvar_compare_ex finds no difference exactly when the two are equal.    *)
THEOREM ZeroAlways == TextSpec => []ZeroIsEqual
<1>1. Answered => ZeroIsEqual
  <2> SUFFICES ASSUME Answered, op = "compare_ex", ~caseless, ~unify, Exact(l), Exact(r), OneBucket(l, r)
               PROVE  (result = 0) = Equal(l, r)
    BY DEF ZeroIsEqual
  <2>1. /\ l \in Value /\ r \in Value /\ caseless \in BOOLEAN /\ unify \in BOOLEAN /\ beyond \in Signs
        /\ result = Compare(l, r, caseless, unify, beyond)
    BY DEF Answered, CompareWith
  <2>2. Sound(Depth, l) /\ Sound(Depth, r)
    BY ExactIs
  <2>3. OneAtom(Depth, l, r)
    BY DEF OneBucket, Parts, OneAtom
  <2>4. Zeros(Depth, CompareAt(caseless, unify, beyond)[Depth], EqualAt[Depth])
    BY <2>1, ZerosEqual
  <2>5. l \in Nests[Depth] /\ r \in Nests[Depth]
    BY <2>1, NestsAre
  <2>6. CompareAt(caseless, unify, beyond)[Depth][l][r] = 0 <=> EqualAt[Depth][l][r]
    BY <2>2, <2>3, <2>4, <2>5 DEF Zeros
  <2>7. EqualAt[Depth][l][r] \in BOOLEAN
    BY <2>1, EqualIs, ValuesAre
  <2> QED
    BY <2>1, <2>6, <2>7 DEF Compare, Equal
<1> QED
  BY <1>1, AnsweredAlways, PTL

(* pcvar_compare_ex orders the variants.                                   *)
THEOREM OrderAlways == TextSpec => []Transitive
<1>1. Answered => Transitive
  <2> SUFFICES ASSUME Answered, op = "compare_ex", beyond # -1, Exact(l), Exact(r), Apart(l, r), result <= 0,
                      NEW m \in Value, Exact(m), Apart(l, m), Apart(r, m), CompareWith(r, m) <= 0
               PROVE  /\ CompareWith(l, m) <= 0
                      /\ CompareWith(l, m) = 0 => result = 0 /\ CompareWith(r, m) = 0
    BY DEF Transitive
  <2>1. /\ l \in Any /\ r \in Any /\ m \in Any
        /\ caseless \in BOOLEAN /\ unify \in BOOLEAN /\ beyond \in Signs
        /\ result = CompareWith(l, r)
    BY ValuesAre DEF Answered
  <2>2. Together(Depth, l, r, m)
    BY ExactIs DEF Together
  <2> PICK C : C = CompareAt(caseless, unify, beyond)[Depth]
    OBVIOUS
  <2>3. Orders(Depth, C)
    BY <2>1, AnswersOrder
  <2>4. Fits(C[l][r], C[r][m], C[l][m])
    BY <2>1, <2>2, <2>3 DEF Orders
  <2> QED
    BY <2>1, <2>4 DEF Fits, CompareWith, Compare
<1> QED
  BY <1>1, AnsweredAlways, PTL

-----------------------------------------------------------------------------
(* The difference of two scalars.                                          *)
LEMMA DiffForm ==
  ASSUME NEW v, NEW w, NEW be, v.type = w.type, ~Short(v), ~Short(w)
  PROVE  /\ v.type \in {"undefined", "null"} => SameTypeDiff(v, w, be) = 0
         /\ v.type = "bsequence" => SameTypeDiff(v, w, be) = Decide(ByteDiffs(v.x, w.x), v.x, w.x)
         /\ v.type \in Atom => SameTypeDiff(v, w, be) = Sgn(AtomString[v.x], AtomString[w.x])
         /\ v.type \notin {"undefined", "null", "bsequence"} \cup Atom => SameTypeDiff(v, w, be) = Sgn(v.x, w.x)
<1> PICK t : t = v.type
  OBVIOUS
<1>1. t \in {"undefined", "null"} => SameTypeDiff(v, w, be) = 0
  BY DEF SameTypeDiff, Atom
<1>2. t = "bsequence" => SameTypeDiff(v, w, be) = Decide(ByteDiffs(v.x, w.x), v.x, w.x)
  BY DEF SameTypeDiff, Atom, BytesDiff, Short
<1>3. t \in Atom => SameTypeDiff(v, w, be) = Sgn(AtomString[v.x], AtomString[w.x])
  BY DEF SameTypeDiff, Atom
<1>4. t \notin {"undefined", "null", "bsequence"} \cup Atom => SameTypeDiff(v, w, be) = Sgn(v.x, w.x)
  BY DEF SameTypeDiff, Atom
<1> QED
  BY <1>1, <1>2, <1>3, <1>4

LEMMA BytesSwap ==
  ASSUME NEW x \in Seq(Int), NEW y \in Seq(Int)
  PROVE  /\ Decide(ByteDiffs(y, x), y, x) = -Decide(ByteDiffs(x, y), x, y)
         /\ x = y => Decide(ByteDiffs(x, y), x, y) = 0
<1> PICK e, f : e = ByteDiffs(x, y) /\ f = ByteDiffs(y, x)
  OBVIOUS
<1>1. DOMAIN e = Common(x, y) /\ DOMAIN f = Common(x, y)
  BY CommonIs DEF ByteDiffs
<1>2. \A i \in Common(x, y) : e[i] = Sgn(x[i], y[i]) /\ f[i] = Sgn(y[i], x[i])
  BY <1>1, CommonIs DEF ByteDiffs
<1>3. \A i \in Common(x, y) : x[i] \in Int /\ y[i] \in Int
  BY CommonIs
<1>4. \A i \in DOMAIN e : e[i] \in Int /\ f[i] = -e[i]
  <2> TAKE i \in DOMAIN e
  <2>1. Sgn(x[i], y[i]) \in Signs /\ Sgn(y[i], x[i]) = -Sgn(x[i], y[i])
    BY <1>1, <1>3, SgnFacts
  <2> QED
    BY <1>1, <1>2, <2>1 DEF Signs
<1>5. Decide(f, y, x) = -Decide(e, x, y)
  BY ONLY <1>1, <1>4, x \in Seq(Int), y \in Seq(Int), DecideSwaps
<1>6. ASSUME x = y PROVE Decide(e, x, y) = 0
  <2>1. \A i \in 1 .. Len(x) : e[i] = 0
    <3> TAKE i \in 1 .. Len(x)
    <3>1. i \in Common(x, y)
      BY <1>6 DEF Common
    <3>2. e[i] = Sgn(x[i], x[i]) /\ x[i] \in Int
      BY <1>2, <1>3, <1>6, <3>1
    <3> QED
      BY <3>2, SgnFacts
  <2>2. Len(x) = Len(y)
    BY <1>6
  <2> QED
    BY ONLY <1>1, <2>1, <2>2, x \in Seq(Int), y \in Seq(Int), DecideZero
<1> QED
  BY <1>5, <1>6

LEMMA AtomsAre ==
  ASSUME NEW v \in Any, v.type \in Atom
  PROVE  v.x \in DOMAIN AtomString /\ AtomString[v.x] \in String /\ AtomString[v.x] \in Int
<1>1. v.type \in Scalars
  BY KindsApart
<1>2. v.x \in DOMAIN AtomString
  BY <1>1, ScalarShape, ScalarSets
<1>3. AtomString \in Seq(String) /\ String \subseteq Int
  BY CompareAssumption
<1>4. AtomString[v.x] \in String
  BY <1>2, <1>3
<1> QED
  BY <1>2, <1>3, <1>4

LEMMA ScalarInts ==
  ASSUME NEW v \in Any, v # Invalid, v.type \notin Container,
         v.type \notin {"undefined", "null", "bsequence"} \cup Atom
  PROVE  v.x \in Int
<1>1. v.type \in Scalars
  BY ClassIs, KindsApart
<1> PICK t : t = v.type
  OBVIOUS
<1>2. v.x \in ScalarOf(t)
  BY <1>1, ScalarShape
<1>3. t \in OfNumber \/ t \in Address \/ t = "string" \/ t = "boolean"
  BY <1>1, TypesAre DEF OfNumber, Address, Atom
<1>4. t \in OfNumber => ScalarOf(t) = Int
  BY <1>1, ScalarSets
<1>5. t \in Address => ScalarOf(t) = Nat
  BY <1>1, ScalarSets
<1>6. t = "string" => ScalarOf(t) = String
  BY <1>1, ScalarSets
<1>7. t = "boolean" => ScalarOf(t) = {0, 1}
  BY <1>1, ScalarSets
<1> QED
  BY <1>2, <1>3, <1>4, <1>5, <1>6, <1>7, CompareAssumption

(* Two scalars of one type: the opposite answer from the other side, and   *)
(* no difference exactly when they are equal.                              *)
LEMMA DiffSame ==
  ASSUME NEW v \in Value, NEW w \in Value, NEW be, v.type = w.type, Scalar(v), Scalar(w),
         NEW d, d = Diff(v, w, be), NEW z, z = Diff(w, v, be)
  PROVE  /\ z = -d
         /\ (\A n \in Numbers(v) : ~IsInfinite(n)) /\ Apart(v, w) => (d = 0 <=> Equal(v, w))
<1> PICK E : E = EqualAt[Depth - 1]
  OBVIOUS
<1> PICK t, x, y : t = v.type /\ x = v.x /\ y = w.x
  OBVIOUS
<1>1. v \in Any /\ w \in Any /\ Depth \in 1 .. Depth
  BY ValuesAre
<1>2. /\ t \in Scalars /\ t # "invalid" /\ t \notin Container /\ v # Invalid /\ w # Invalid
      /\ ~Short(v) /\ ~Short(w)
  BY KindsApart DEF Scalar, Scalars, Invalid
<1>3. d = SameTypeDiff(v, w, be) /\ z = SameTypeDiff(w, v, be)
  BY <1>2 DEF Diff
<1>4. Equal(v, w) <=> EqualStep(E, v, w)
  BY <1>1, EqualIs DEF Equal
<1> DEFINE Finitely == (\A n \in Numbers(v) : ~IsInfinite(n)) /\ Apart(v, w)
<1> SUFFICES z = -d /\ (Finitely => (d = 0 <=> EqualStep(E, v, w)))
  BY <1>4
<1>5. CASE t \in {"undefined", "null"}
  <2>1. d = 0 /\ z = 0
    BY <1>2, <1>3, <1>5, DiffForm
  <2>2. EqualStep(E, v, w)
    BY <1>5, EqualForm
  <2>3. z = -d
    BY ONLY <2>1, ZeroHasNoSign, Zenon
  <2> QED
    BY <2>1, <2>2, <2>3
<1>6. CASE t = "bsequence"
  <2>1. ScalarOf(t) = Seq(Nat)
    BY <1>2, <1>6, ScalarSets
  <2>2. x \in Seq(Nat) /\ y \in Seq(Nat)
    BY <1>1, <1>2, <2>1, ScalarShape
  <2>3. x \in Seq(Int) /\ y \in Seq(Int)
    BY <2>2
  <2>4. d = Decide(ByteDiffs(x, y), x, y) /\ z = Decide(ByteDiffs(y, x), y, x)
    BY <1>2, <1>3, <1>6, DiffForm
  <2>5. z = -d
    BY ONLY <2>3, <2>4, BytesSwap
  <2>6. d = 0 <=> x = y
    BY ONLY <2>2, <2>4, BytesZero
  <2>7. t \notin {"invalid", "undefined", "null", "atomstring", "object"} \cup Float \cup Listed
    BY <1>6 DEF Float, Listed, Container
  <2>8. EqualStep(E, v, w) <=> x = y
    BY <2>7, EqualForm
  <2> QED
    BY <2>5, <2>6, <2>8
<1>7. CASE t \in Atom
  <2> PICK a \in Int, b \in Int : a = AtomString[x] /\ b = AtomString[y]
    BY <1>1, <1>7, AtomsAre
  <2>1. d = Sgn(a, b) /\ z = Sgn(b, a)
    BY <1>2, <1>3, <1>7, DiffForm
  <2>2. z = -d /\ (d = 0 <=> a = b)
    BY ONLY <2>1, a \in Int, b \in Int, SgnFacts
  <2>3. t = "atomstring" => (EqualStep(E, v, w) <=> a = b)
    BY EqualForm
  <2>4. t = "exception" => (EqualStep(E, v, w) <=> x = y)
    <3>1. t = "exception" => t \notin {"invalid", "undefined", "null", "atomstring", "object"} \cup Float \cup Listed
      BY DEF Float, Listed, Container
    <3> QED
      BY ZenonT(40), <3>1, EqualForm
  <2>5. t = "exception" => (a = b <=> x = y)
    BY <1>1, CompareAssumption
  <2> QED
    BY <1>7, <2>2, <2>3, <2>4, <2>5 DEF Atom
<1>8. CASE t \notin {"undefined", "null", "bsequence"} \cup Atom
  <2>1. x \in Int /\ y \in Int
    BY <1>1, <1>2, <1>8, ScalarInts
  <2>2. d = Sgn(x, y) /\ z = Sgn(y, x)
    BY <1>2, <1>3, <1>8, DiffForm
  <2>3. z = -d /\ (d = 0 <=> x = y)
    BY ONLY <2>1, <2>2, SgnFacts
  <2>4. CASE t \in Float
    <3>1. v \in Parts(v) /\ w \in Parts(w)
      BY <1>1, PartsAre DEF Parts
    <3>2. x \in Numbers(v) /\ y \in Numbers(w)
      BY <2>4, <3>1, KindsDiffer DEF Numbers
    <3>3. Finitely => ~IsInfinite(x) /\ (x # y => ~EqualDoubles(x, y))
      BY <3>2 DEF Apart
    <3>4. ~IsInfinite(x) => EqualDoubles(x, x)
      BY <2>1, DoublesFacts
    <3>5. EqualStep(E, v, w) <=> EqualDoubles(x, y)
      BY <2>4, EqualForm
    <3> HIDE DEF Finitely
    <3> QED
      BY ONLY <2>3, <3>3, <3>4, <3>5
  <2>5. CASE t \notin Float
    <3>1. t \notin {"invalid", "undefined", "null", "atomstring", "object"} \cup Float \cup Listed
      BY <1>2, <1>8, <2>5, KindsApart DEF Atom
    <3>2. EqualStep(E, v, w) <=> x = y
      BY <3>1, EqualForm
    <3> QED
      BY <2>3, <3>2
  <2> QED
    BY <2>4, <2>5
<1> QED
  BY <1>5, <1>6, <1>7, <1>8

(* Two scalars of different types, or ordered as they are spelled.         *)
SpellOf(v) == Spell[v.type][v.x]
LEMMA DiffSpelled ==
  ASSUME NEW v \in Value, NEW w \in Value, NEW be, Scalar(v), Scalar(w)
  PROVE  /\ SpellOf(v) \in Int
         /\ v.type # w.type => Diff(v, w, be) = IF "bsequence" \in {v.type, w.type} THEN Aborts
                                               ELSE Sgn(SpellOf(v), SpellOf(w))
         /\ v.type = w.type /\ v.type \in Spelled => Diff(v, w, be) = Sgn(SpellOf(v), SpellOf(w))
         /\ v = w /\ v.type # "bsequence" => Diff(v, w, be) = 0
<1> PICK t, x, y : t = v.type /\ x = v.x /\ y = w.x
  OBVIOUS
<1>1. v \in Any /\ w \in Any
  BY ValuesAre
<1>2. /\ t \in Scalars /\ t \notin Container /\ v # Invalid /\ w # Invalid
      /\ w.type \in Scalars /\ w.type \notin Container /\ ~Short(v) /\ ~Short(w)
  BY KindsApart DEF Scalar, Scalars, Invalid
<1>3. SpellOf(v) \in Int
  BY <1>1, <1>2, CompareAssumption DEF SpellOf
<1>4. t # w.type => Diff(v, w, be) = IF "bsequence" \in {t, w.type} THEN Aborts
                                     ELSE Sgn(SpellOf(v), SpellOf(w))
  BY <1>2 DEF Diff, SpellOf
<1>5. t = w.type => Diff(v, w, be) = SameTypeDiff(v, w, be)
  BY <1>2 DEF Diff
<1>6. ASSUME t = w.type, t \in Spelled PROVE Diff(v, w, be) = Sgn(SpellOf(v), SpellOf(w))
  <2>1. CASE t \in {"undefined", "null"}
    <3>1. x = 0 /\ y = 0
      BY ZenonT(40), <1>1, <1>2, <1>6, <2>1, ScalarShape, ScalarSets
    <3>2. SpellOf(v) = SpellOf(w)
      BY <1>6, <3>1 DEF SpellOf
    <3>3. Sgn(SpellOf(v), SpellOf(w)) = 0
      BY <1>3, <3>2, SgnFacts
    <3>4. SameTypeDiff(v, w, be) = 0
      BY <1>2, <1>6, <2>1, DiffForm
    <3> QED
      BY <1>5, <1>6, <3>3, <3>4
  <2>2. CASE t \in Atom
    <3>1. SameTypeDiff(v, w, be) = Sgn(AtomString[x], AtomString[y])
      BY <1>2, <1>6, <2>2, DiffForm
    <3>2. SpellOf(v) = AtomString[x] /\ SpellOf(w) = AtomString[y]
      BY <1>6, <2>2, TextAssumption DEF SpellOf
    <3> QED
      BY <1>5, <1>6, <3>1, <3>2
  <2>3. CASE t = "string"
    <3>0. t \notin {"undefined", "null", "bsequence"} \cup Atom
      BY <2>3 DEF Atom
    <3>1. SameTypeDiff(v, w, be) = Sgn(x, y)
      BY <1>2, <1>6, <3>0, DiffForm
    <3>2. SpellOf(v) = x /\ SpellOf(w) = y
      BY <1>6, <2>3, TextAssumption DEF SpellOf
    <3> QED
      BY <1>5, <1>6, <3>1, <3>2
  <2> QED
    BY <1>6, <2>1, <2>2, <2>3 DEF Spelled
<1>7. ASSUME v = w, t # "bsequence" PROVE Diff(v, w, be) = 0
  <2>1. CASE t \in {"undefined", "null"}
    BY <1>2, <1>5, <1>7, <2>1, DiffForm
  <2>2. CASE t \in Atom
    <3>1. SameTypeDiff(v, w, be) = Sgn(AtomString[x], AtomString[x]) /\ AtomString[x] \in Int
      BY <1>1, <1>2, <1>7, <2>2, DiffForm, AtomsAre
    <3> QED
      BY <1>5, <1>7, <3>1, SgnFacts
  <2>3. CASE t \notin {"undefined", "null", "bsequence"} \cup Atom
    <3>1. SameTypeDiff(v, w, be) = Sgn(x, x)
      BY <1>2, <1>7, <2>3, DiffForm
    <3>2. x \in Int
      BY <1>1, <1>2, <2>3, ScalarInts
    <3> QED
      BY <1>5, <1>7, <3>1, <3>2, SgnFacts
  <2> QED
    BY <1>7, <2>1, <2>2, <2>3
<1> QED
  BY <1>3, <1>4, <1>6, <1>7

LEMMA DiffTypeFits ==
  ASSUME NEW a \in Value, NEW b \in Value, NEW c \in Value, NEW be,
         Scalar(a), Scalar(b), Scalar(c), a.type = b.type, b.type = c.type
  PROVE  Fits(Diff(a, b, be), Diff(b, c, be), Diff(a, c, be))
<1> PICK t, x, y, z : t = a.type /\ x = a.x /\ y = b.x /\ z = c.x
  OBVIOUS
<1>1. a \in Any /\ b \in Any /\ c \in Any
  BY ValuesAre
<1>2. /\ t \in Scalars /\ t \notin Container /\ a # Invalid /\ b # Invalid /\ c # Invalid
      /\ ~Short(a) /\ ~Short(b) /\ ~Short(c)
  BY KindsApart DEF Scalar, Scalars, Invalid
<1> PICK d, e, f : d = Diff(a, b, be) /\ e = Diff(b, c, be) /\ f = Diff(a, c, be)
  OBVIOUS
<1>3. d = SameTypeDiff(a, b, be) /\ e = SameTypeDiff(b, c, be) /\ f = SameTypeDiff(a, c, be)
  BY <1>2 DEF Diff
<1>4. CASE t \in {"undefined", "null"}
  <2>1. d = 0 /\ e = 0 /\ f = 0
    BY <1>2, <1>3, <1>4, DiffForm
  <2>2. Fits(d, e, f)
    BY ONLY <2>1 DEF Fits
  <2> QED
    BY <2>2
<1>5. CASE t = "bsequence"
  <2>1. x \in Seq(Nat) /\ y \in Seq(Nat) /\ z \in Seq(Nat)
    BY <1>1, <1>2, <1>5, ScalarShape, ScalarSets
  <2>2. /\ d = Decide(ByteDiffs(x, y), x, y) /\ e = Decide(ByteDiffs(y, z), y, z)
        /\ f = Decide(ByteDiffs(x, z), x, z)
    BY <1>2, <1>3, <1>5, DiffForm
  <2> QED
    BY <2>1, <2>2, BytesFit
<1>6. CASE t \in Atom
  <2> PICK i \in Int, j \in Int, k \in Int : i = AtomString[x] /\ j = AtomString[y] /\ k = AtomString[z]
    BY <1>1, <1>6, AtomsAre
  <2>1. d = Sgn(i, j) /\ e = Sgn(j, k) /\ f = Sgn(i, k)
    BY <1>2, <1>3, <1>6, DiffForm
  <2> QED
    BY <2>1, SgnFits
<1>7. CASE t \notin {"undefined", "null", "bsequence"} \cup Atom
  <2>1. x \in Int /\ y \in Int /\ z \in Int
    BY <1>1, <1>2, <1>7, ScalarInts
  <2>2. d = Sgn(x, y) /\ e = Sgn(y, z) /\ f = Sgn(x, z)
    BY <1>2, <1>3, <1>7, DiffForm
  <2> QED
    BY <2>1, <2>2, SgnFits
<1> QED
  BY <1>4, <1>5, <1>6, <1>7

LEMMA DiffFits ==
  ASSUME NEW a \in Value, NEW b \in Value, NEW c \in Value, NEW be, Ordered(a, b, c)
  PROVE  Fits(Diff(a, b, be), Diff(b, c, be), Diff(a, c, be))
<1>1. Scalar(a) /\ Scalar(b) /\ Scalar(c)
  BY DEF Ordered
<1>2. CASE a.type = b.type /\ b.type = c.type
  BY <1>1, <1>2, DiffTypeFits
<1>3. CASE /\ "bsequence" \notin {a.type, b.type, c.type}
           /\ \A p, q \in {a, b, c} : p.type = q.type /\ p # q => p.type \in Spelled
  <2>1. \A p \in {a, b, c} : p \in Value /\ Scalar(p) /\ SpellOf(p) \in Int /\ p.type # "bsequence"
    BY <1>1, <1>3, DiffSpelled
  <2>2. ASSUME NEW p \in {a, b, c}, NEW q \in {a, b, c} PROVE Diff(p, q, be) = Sgn(SpellOf(p), SpellOf(q))
    <3>1. p \in Value /\ q \in Value /\ Scalar(p) /\ Scalar(q) /\ SpellOf(p) \in Int
      BY <2>1
    <3>2. CASE p = q
      <4>1. Diff(p, q, be) = 0
        BY <2>1, <3>1, <3>2, DiffSpelled
      <4>2. Sgn(SpellOf(p), SpellOf(p)) = 0
        BY <3>1, SgnFacts
      <4> QED
        BY <3>2, <4>1, <4>2
    <3>3. CASE p # q /\ p.type = q.type
      <4>1. p.type \in Spelled
        BY <1>3, <3>3
      <4> QED
        BY <3>1, <3>3, <4>1, DiffSpelled
    <3>4. CASE p.type # q.type
      BY <2>1, <3>1, <3>4, DiffSpelled
    <3> QED
      BY <3>2, <3>3, <3>4
  <2> PICK i \in Int, j \in Int, k \in Int : i = SpellOf(a) /\ j = SpellOf(b) /\ k = SpellOf(c)
    BY <2>1
  <2>3. /\ Diff(a, b, be) = Sgn(i, j) /\ Diff(b, c, be) = Sgn(j, k) /\ Diff(a, c, be) = Sgn(i, k)
    BY <2>2
  <2> QED
    BY <2>3, SgnFits
<1> QED
  BY <1>2, <1>3 DEF Ordered

(* Sets look for a scalar by pcvariant_diff: of one type it answers as     *)
(* equality does, from both sides the same, and it orders the scalars of   *)
(* one type, and of several where those of a type are ordered as spelled.  *)
THEOREM DiffAlways == TextSpec => []DiffOrders
<1>1. Answered => DiffOrders
  <2> SUFFICES ASSUME Answered, op = "diff", Scalar(l), Scalar(r) PROVE
        /\ (l.type = r.type /\ (\A n \in Numbers(l) : ~IsInfinite(n)) /\ Apart(l, r))
             => (result = 0) = Equal(l, r)
        /\ result # Aborts => DiffWith(r, l) = -result
        /\ \A m \in Value : (Ordered(l, r, m) /\ result <= 0 /\ DiffWith(r, m) <= 0) =>
             /\ DiffWith(l, m) <= 0
             /\ DiffWith(l, m) = 0 => result = 0 /\ DiffWith(r, m) = 0
    BY DEF DiffOrders
  <2>1. l \in Value /\ r \in Value /\ result = Diff(l, r, beyond)
    BY DEF Answered, DiffWith
  <2> PICK d, z : d = result /\ z = Diff(r, l, beyond)
    OBVIOUS
  <2>2. ASSUME l.type = r.type, \A n \in Numbers(l) : ~IsInfinite(n), Apart(l, r)
        PROVE  (result = 0) = Equal(l, r)
    <3>1. Equal(l, r) \in BOOLEAN
      BY <2>1, ValuesAre, EqualIs DEF Equal
    <3>2. d = 0 <=> Equal(l, r)
      BY <2>1, <2>2, DiffSame
    <3> QED
      BY <3>1, <3>2
  <2>3. ASSUME l.type # r.type, d # Aborts PROVE z = -d
    <3>1. SpellOf(l) \in Int /\ SpellOf(r) \in Int
      BY <2>1, DiffSpelled
    <3>2. d = IF "bsequence" \in {l.type, r.type} THEN Aborts ELSE Sgn(SpellOf(l), SpellOf(r))
      BY <2>1, <2>3, DiffSpelled
    <3>3. z = IF "bsequence" \in {r.type, l.type} THEN Aborts ELSE Sgn(SpellOf(r), SpellOf(l))
      BY <2>1, <2>3, DiffSpelled
    <3>4. d = Sgn(SpellOf(l), SpellOf(r)) /\ z = Sgn(SpellOf(r), SpellOf(l))
      BY <2>3, <3>2, <3>3
    <3> QED
      BY <3>1, <3>4, SgnFacts
  <2>4. ASSUME NEW m \in Value, Ordered(l, r, m), d <= 0, DiffWith(r, m) <= 0
        PROVE  /\ DiffWith(l, m) <= 0
               /\ DiffWith(l, m) = 0 => d = 0 /\ DiffWith(r, m) = 0
    <3>1. Fits(d, DiffWith(r, m), DiffWith(l, m))
      BY <2>1, <2>4, DiffFits DEF DiffWith
    <3> QED
      BY <2>4, <3>1 DEF Fits
  <2>5. result # Aborts => DiffWith(r, l) = -result
    <3>1. l.type = r.type => z = -d
      BY <2>1, DiffSame
    <3>2. l.type # r.type /\ d # Aborts => z = -d
      BY <2>3
    <3> QED
      BY <3>1, <3>2 DEF DiffWith
  <2> QED
    BY <2>2, <2>4, <2>5
<1> QED
  BY <1>1, AnsweredAlways, PTL

-----------------------------------------------------------------------------
(* What values are as numbers and as texts.                                *)
LEMMA SumTyped ==
  ASSUME NEW s \in Seq(Int)
  PROVE  SumOf(s) \in Int
<1> PICK n \in Nat : n = Len(s)
  OBVIOUS
<1> DEFINE F == [i \in 1 .. n |-> [t \in Int |-> t + s[i]]]
           Body(f) == [i \in 0 .. Len(s) |-> IF i = 0 THEN 0 ELSE f[i - 1] + s[i]]
<1>1. \A i \in 1 .. n : s[i] \in Int
  OBVIOUS
<1>2. \A i \in 1 .. n, t \in Int : F[i][t] = t + s[i] /\ F[i][t] \in Int
  BY <1>1
<1>3. Recursive(n, Int, 0, F)
  <2> HIDE DEF F
  <2> QED
    BY <1>2 DEF Recursive
<1>4. PICK f : Solves(f, n, Int, 0, F)
  <2> HIDE DEF F
  <2> QED
    BY ONLY <1>3, Recursion
<1>5. f \in [0 .. n -> Int] /\ f[0] = 0 /\ \A i \in 1 .. n : f[i] = F[i][f[i - 1]]
  <2> HIDE DEF F
  <2> QED
    BY <1>4 DEF Solves
<1>6. ASSUME NEW i \in 0 .. n PROVE f[i] = IF i = 0 THEN 0 ELSE f[i - 1] + s[i]
  <2>1. CASE i = 0
    BY <1>5, <2>1
  <2>2. CASE i # 0
    <3>1. i \in 1 .. n /\ i - 1 \in 0 .. n
      BY <2>2
    <3>2. f[i - 1] \in Int
      BY <1>5, <3>1
    <3>3. f[i] = F[i][f[i - 1]]
      BY <1>5, <3>1
    <3>4. f[i] = f[i - 1] + s[i]
      <4> HIDE DEF F
      <4> QED
        BY ONLY <1>2, <3>1, <3>2, <3>3
    <3> QED
      BY <2>2, <3>4
  <2> QED
    BY <2>1, <2>2
<1>7. f = Body(f)
  BY <1>5, <1>6
<1> PICK g : g = CHOOSE h : h = Body(h)
  OBVIOUS
<1>8. g = Body(g) /\ SumOf(s) = g[n]
  <2>1. g = Body(g)
    <3> HIDE DEF Body
    <3> QED
      BY <1>7
  <2>2. SumOf(s) = g[Len(s)]
    BY DEF SumOf
  <2> QED
    BY <2>1, <2>2
<1>9. \A i \in 0 .. n : g[i] = IF i = 0 THEN 0 ELSE g[i - 1] + s[i]
  BY <1>8
<1> DEFINE P == {i \in 0 .. n : g[i] \in Int}
<1>10. 0 \in P
  BY <1>9
<1>11. ASSUME NEW i \in 1 .. n, i - 1 \in P PROVE i \in P
  <2>1. i \in 0 .. n /\ i # 0
    OBVIOUS
  <2>2. g[i] = g[i - 1] + s[i]
    BY <1>9, <2>1
  <2>3. g[i - 1] \in Int
    BY <1>11
  <2> QED
    BY <1>1, <2>1, <2>2, <2>3
<1>12. 0 .. n \subseteq P
  <2> HIDE DEF P
  <2> QED
    BY <1>10, <1>11, Steps
<1>13. g[n] \in Int
  BY <1>12
<1> QED
  BY <1>8, <1>13

LEMMA ConcatTyped ==
  ASSUME NEW T, NEW s \in Seq(Seq(T))
  PROVE  Concat(s) \in Seq(T)
<1> PICK S : S = Seq(T)
  OBVIOUS
<1> PICK n \in Nat : n = Len(s)
  OBVIOUS
<1> DEFINE F == [i \in 1 .. n |-> [t \in S |-> t \o s[i]]]
           Body(f) == [i \in 0 .. Len(s) |-> IF i = 0 THEN << >> ELSE f[i - 1] \o s[i]]
<1>0. << >> \in S /\ \A a, b \in S : a \o b \in S
  OBVIOUS
<1>1. \A i \in 1 .. n : s[i] \in S
  OBVIOUS
<1>2. \A i \in 1 .. n, t \in S : F[i][t] = t \o s[i] /\ F[i][t] \in S
  BY <1>0, <1>1
<1>3. Recursive(n, S, << >>, F)
  <2> HIDE DEF F
  <2> QED
    BY <1>0, <1>2 DEF Recursive
<1>4. PICK f : Solves(f, n, S, << >>, F)
  <2> HIDE DEF F
  <2> QED
    BY ONLY <1>3, Recursion
<1>5. f \in [0 .. n -> S] /\ f[0] = << >> /\ \A i \in 1 .. n : f[i] = F[i][f[i - 1]]
  <2> HIDE DEF F
  <2> QED
    BY <1>4 DEF Solves
<1>6. ASSUME NEW i \in 0 .. n PROVE f[i] = IF i = 0 THEN << >> ELSE f[i - 1] \o s[i]
  <2>1. CASE i = 0
    BY <1>5, <2>1
  <2>2. CASE i # 0
    <3>1. i \in 1 .. n /\ i - 1 \in 0 .. n
      BY <2>2
    <3>2. f[i - 1] \in S
      BY <1>5, <3>1
    <3>3. f[i] = F[i][f[i - 1]]
      BY <1>5, <3>1
    <3>4. f[i] = f[i - 1] \o s[i]
      <4> HIDE DEF F
      <4> QED
        BY ONLY <1>2, <3>1, <3>2, <3>3
    <3> QED
      BY <2>2, <3>4
  <2> QED
    BY <2>1, <2>2
<1>7. f = Body(f)
  BY <1>5, <1>6
<1> PICK g : g = CHOOSE h : h = Body(h)
  OBVIOUS
<1>8. g = Body(g) /\ Concat(s) = g[n]
  <2>1. g = Body(g)
    <3> HIDE DEF Body
    <3> QED
      BY <1>7
  <2>2. Concat(s) = g[Len(s)]
    BY DEF Concat
  <2> QED
    BY <2>1, <2>2
<1>9. \A i \in 0 .. n : g[i] = IF i = 0 THEN << >> ELSE g[i - 1] \o s[i]
  BY <1>8
<1> DEFINE P == {i \in 0 .. n : g[i] \in S}
<1>10. 0 \in P
  <2>1. 0 \in 0 .. n
    OBVIOUS
  <2>2. g[0] = << >>
    BY ONLY <1>9, <2>1
  <2> QED
    BY <1>0, <2>1, <2>2, Zenon
<1>11. ASSUME NEW i \in 1 .. n, i - 1 \in P PROVE i \in P
  <2>1. i \in 0 .. n /\ i # 0
    OBVIOUS
  <2>2. g[i] = g[i - 1] \o s[i]
    BY <1>9, <2>1
  <2>3. g[i - 1] \in S /\ s[i] \in S
    BY <1>1, <1>11
  <2> QED
    BY <1>0, <2>1, <2>2, <2>3
<1>12. 0 .. n \subseteq P
  <2> HIDE DEF P
  <2> QED
    BY <1>10, <1>11, Steps
<1>13. g[n] \in S
  <2>1. n \in 0 .. n
    OBVIOUS
  <2> QED
    BY <1>12, <2>1, Zenon
<1>14. Concat(s) = g[n]
  <2> HIDE DEF Body
  <2> QED
    BY <1>8
<1> QED
  BY ONLY <1>13, <1>14, S = Seq(T)

LEMMA BytesNumber ==
  ASSUME NEW b \in Seq(Nat)
  PROVE  NumerifyBytes(b) \in Int
<1> PICK from : from = Larger(0, Len(b) - LongBytes)
  OBVIOUS
<1>0. /\ ByteBase \in Nat /\ LongBytes \in Nat /\ ByteBase ^ LongBytes \in Nat /\ Len(b) \in Nat
      /\ from \in Nat /\ from <= Len(b)
  BY TextAssumption DEF Larger
<1> PICK n \in Nat : n = Len(b) - from
  BY <1>0
<1> DEFINE F == [i \in 1 .. n |-> [t \in Int |-> t * ByteBase + b[Len(b) + 1 - i]]]
           Body(f) == [i \in 0 .. Len(b) - from |-> IF i = 0 THEN 0 ELSE f[i - 1] * ByteBase + b[Len(b) + 1 - i]]
<1>1. \A i \in 1 .. n : b[Len(b) + 1 - i] \in Int
  <2> TAKE i \in 1 .. n
  <2>1. Len(b) + 1 - i \in 1 .. Len(b)
    BY <1>0
  <2> QED
    BY <2>1
<1>2. \A i \in 1 .. n, t \in Int : F[i][t] = t * ByteBase + b[Len(b) + 1 - i] /\ F[i][t] \in Int
  BY SMTT(20), <1>0, <1>1
<1>3. Recursive(n, Int, 0, F)
  <2> HIDE DEF F
  <2> QED
    BY <1>2 DEF Recursive
<1>4. PICK f : Solves(f, n, Int, 0, F)
  <2> HIDE DEF F
  <2> QED
    BY ONLY <1>3, Recursion
<1>5. f \in [0 .. n -> Int] /\ f[0] = 0 /\ \A i \in 1 .. n : f[i] = F[i][f[i - 1]]
  <2> HIDE DEF F
  <2> QED
    BY <1>4 DEF Solves
<1>6. ASSUME NEW i \in 0 .. n PROVE f[i] = IF i = 0 THEN 0 ELSE f[i - 1] * ByteBase + b[Len(b) + 1 - i]
  <2>1. CASE i = 0
    BY <1>5, <2>1
  <2>2. CASE i # 0
    <3>1. i \in 1 .. n /\ i - 1 \in 0 .. n
      BY <2>2
    <3>2. f[i - 1] \in Int
      BY <1>5, <3>1
    <3>3. f[i] = F[i][f[i - 1]]
      BY <1>5, <3>1
    <3>4. f[i] = f[i - 1] * ByteBase + b[Len(b) + 1 - i]
      <4> HIDE DEF F
      <4> QED
        BY ONLY <1>2, <3>1, <3>2, <3>3
    <3> QED
      BY <2>2, <3>4
  <2> QED
    BY <2>1, <2>2
<1>7. f = Body(f)
  BY <1>5, <1>6
<1> PICK g : g = CHOOSE h : h = Body(h)
  OBVIOUS
<1>8. g = Body(g)
  <2> HIDE DEF Body
  <2> QED
    BY <1>7
<1>14. NumerifyBytes(b) = IF 2 * g[n] >= ByteBase ^ LongBytes THEN g[n] - ByteBase ^ LongBytes ELSE g[n]
  BY DEF NumerifyBytes
<1>9. \A i \in 0 .. n : g[i] = IF i = 0 THEN 0 ELSE g[i - 1] * ByteBase + b[Len(b) + 1 - i]
  BY <1>8
<1> DEFINE P == {i \in 0 .. n : g[i] \in Int}
<1>10. 0 \in P
  BY <1>9
<1>11. ASSUME NEW i \in 1 .. n, i - 1 \in P PROVE i \in P
  <2>1. i \in 0 .. n /\ i # 0
    OBVIOUS
  <2>2. g[i] = g[i - 1] * ByteBase + b[Len(b) + 1 - i]
    BY <1>9, <2>1
  <2>3. g[i - 1] \in Int /\ b[Len(b) + 1 - i] \in Int
    BY <1>1, <1>11
  <2>4. g[i - 1] * ByteBase \in Int
    BY SMTT(20), <1>0, <2>3
  <2> QED
    BY <2>1, <2>2, <2>3, <2>4
<1>12. 0 .. n \subseteq P
  <2> HIDE DEF P
  <2> QED
    BY <1>10, <1>11, Steps
<1>13. g[n] \in Int
  BY <1>12
<1> QED
  BY <1>0, <1>13, <1>14

LEMMA DoubleTyped == \A n \in Int : ToDouble(n) \in Int
BY TextAssumption DEF ToDouble

LEMMA ScalarNumber ==
  ASSUME NEW v, v.type = "invalid" \/ (v.type \in Scalars \ Address /\ v.x \in ScalarOf(v.type))
  PROVE  NumerifyScalar(v) \in Int
<1> PICK t, x : t = v.type /\ x = v.x
  OBVIOUS
<1>0. /\ StringNumber \in [String -> Int] /\ AtomString \in Seq(String)
      /\ DOMAIN AtomString \subseteq Int /\ \A a \in DOMAIN AtomString : AtomString[a] \in String
  BY CompareAssumption, TextAssumption
<1>1. CASE t \in {"undefined", "null", "invalid"}
  BY <1>1 DEF NumerifyScalar, OfNumber
<1>2. CASE t \in Scalars \ Address /\ x \in ScalarOf(t)
  <2>1. CASE t \in OfNumber \cup {"boolean", "exception"}
    <3>1. NumerifyScalar(v) = x \/ NumerifyScalar(v) = ToDouble(x)
      BY <2>1 DEF NumerifyScalar, OfNumber
    <3>2. ScalarOf(t) \subseteq Int
      BY <1>0, <1>2, <2>1, ScalarSets DEF Atom
    <3> QED
      BY <1>2, <3>1, <3>2, DoubleTyped
  <2>2. CASE t = "atomstring"
    <3>1. NumerifyScalar(v) = StringNumber[AtomString[x]]
      BY <2>2 DEF NumerifyScalar, OfNumber, ByString
    <3>2. x \in DOMAIN AtomString
      BY <1>2, <2>2, ScalarSets DEF Atom
    <3> QED
      BY <1>0, <3>1, <3>2
  <2>3. CASE t = "string"
    <3>1. NumerifyScalar(v) = StringNumber[x]
      BY <2>3 DEF NumerifyScalar, OfNumber
    <3>2. x \in String
      BY <1>2, <2>3, ScalarSets
    <3> QED
      BY <1>0, <3>1, <3>2
  <2>4. CASE t = "bsequence"
    <3>1. NumerifyScalar(v) = ToDouble(NumerifyBytes(x))
      BY <2>4 DEF NumerifyScalar, OfNumber
    <3>2. x \in Seq(Nat)
      BY <1>2, <2>4, ScalarSets
    <3> QED
      BY <3>1, <3>2, BytesNumber, DoubleTyped
  <2>5. \/ t \in {"undefined", "null", "invalid"} \/ t \in OfNumber \cup {"boolean", "exception"}
        \/ t \in {"atomstring", "string", "bsequence"}
    BY <1>2, TypesAre DEF OfNumber, Address
  <2> QED
    BY <1>1, <2>1, <2>2, <2>3, <2>4, <2>5
<1> QED
  BY <1>1, <1>2

(* What the steps do to a value of each kind.                              *)
LEMMA NumberForm ==
  ASSUME NEW N, NEW v
  PROVE  /\ v.type = "object" => NumerifyStep(N, v) = SumOf([i \in 1 .. Len(v.x) |-> N[v.x[i][2]]])
         /\ v.type \in Listed => NumerifyStep(N, v) = SumOf([i \in 1 .. Len(v.x) |-> N[v.x[i]]])
         /\ v.type \in Address => NumerifyStep(N, v) = NumerifyScalar(Getter[v.x])
         /\ v.type \notin Container \cup Address => NumerifyStep(N, v) = NumerifyScalar(v)
<1> PICK t : t = v.type
  OBVIOUS
<1>0. Container \ {"object"} = Listed /\ "object" \in Container
  BY DEF Listed, Container
<1>1. t = "object" => NumerifyStep(N, v) = SumOf([i \in 1 .. Len(v.x) |-> N[v.x[i][2]]])
  BY DEF NumerifyStep, Address, Container
<1>2. t \in Listed => NumerifyStep(N, v) = SumOf([i \in 1 .. Len(v.x) |-> N[v.x[i]]])
  BY <1>0 DEF NumerifyStep, Address, Container
<1>3. t \in Address => NumerifyStep(N, v) = NumerifyScalar(Getter[v.x])
  BY DEF NumerifyStep, Address, Container
<1>4. t \notin Container \cup Address => NumerifyStep(N, v) = NumerifyScalar(v)
  BY DEF NumerifyStep, Address, Container
<1> QED
  BY <1>1, <1>2, <1>3, <1>4

LEMMA TextForm ==
  ASSUME NEW S, NEW v
  PROVE  /\ v.type = "object" =>
              StringifyStep(S, v) = Concat([i \in 1 .. Len(v.x) |-> KeyValue(v.x[i][1], S[v.x[i][2]])])
         /\ v.type \in Listed => StringifyStep(S, v) = Concat([i \in 1 .. Len(v.x) |-> Line(S[v.x[i]])])
         /\ v.type \notin Container => StringifyStep(S, v) = <<Spell[v.type][v.x]>>
<1> PICK t : t = v.type
  OBVIOUS
<1>0. Container \ {"object"} = Listed /\ "object" \in Container
  BY DEF Listed, Container
<1>1. t = "object" =>
        StringifyStep(S, v) = Concat([i \in 1 .. Len(v.x) |-> KeyValue(v.x[i][1], S[v.x[i][2]])])
  BY DEF StringifyStep, Container
<1>2. t \in Listed => StringifyStep(S, v) = Concat([i \in 1 .. Len(v.x) |-> Line(S[v.x[i]])])
  BY <1>0 DEF StringifyStep, Container
<1>3. t \notin Container => StringifyStep(S, v) = <<Spell[v.type][v.x]>>
  BY DEF StringifyStep, Container
<1> QED
  BY <1>1, <1>2, <1>3

LEMMA NumberTyped ==
  ASSUME NEW N \in [Any -> Int], NEW v \in Any
  PROVE  NumerifyStep(N, v) \in Int
<1>0. v = Invalid \/ v.type \in Types
  BY ClassIs
<1>1. CASE v.type = "object"
  <2>1. \A i \in 1 .. Len(v.x) : v.x[i][2] \in Any
    BY <1>1, MembersAre, KindsApart
  <2>2. Len(v.x) \in Nat
    BY <1>1, ListShape
  <2> PICK s : s = [i \in 1 .. Len(v.x) |-> N[v.x[i][2]]]
    OBVIOUS
  <2>3. s \in Seq(Int)
    <3>1. \A i \in 1 .. Len(v.x) : N[v.x[i][2]] \in Int
      BY <2>1
    <3> QED
      BY <2>2, <3>1
  <2> QED
    BY <1>1, <2>3, NumberForm, SumTyped
<1>2. CASE v.type \in Listed
  <2>1. \A i \in 1 .. Len(v.x) : v.x[i] \in Any
    BY <1>2, MembersAre, KindsApart
  <2>2. Len(v.x) \in Nat
    BY <1>2, ListShape
  <2> PICK s : s = [i \in 1 .. Len(v.x) |-> N[v.x[i]]]
    OBVIOUS
  <2>3. s \in Seq(Int)
    <3>1. \A i \in 1 .. Len(v.x) : N[v.x[i]] \in Int
      BY <2>1
    <3> QED
      BY <2>2, <3>1
  <2> QED
    BY <1>2, <2>3, NumberForm, SumTyped
<1>3. CASE v.type \in Address
  <2>1. v \in Value
    BY <1>3 DEF Any, Undefined, Invalid, Address
  <2> PICK g : g = Getter[v.x]
    OBVIOUS
  <2>2. g = Invalid \/ (g.type \in Scalars \ Address /\ WellFormed(g))
    BY <1>3, <2>1, TextAssumption
  <2>3. g.type = "invalid" \/ (g.type \in Scalars \ Address /\ g.x \in ScalarOf(g.type))
    BY <2>2, KindsApart DEF WellFormed
  <2> QED
    BY <1>3, <2>3, NumberForm, ScalarNumber
<1>4. CASE v.type \notin Container \cup Address
  <2>1. v.type = "invalid" \/ (v.type \in Scalars \ Address /\ v.x \in ScalarOf(v.type))
    BY <1>0, <1>4, KindsApart, ScalarShape
  <2> QED
    BY <1>4, <2>1, NumberForm, ScalarNumber
<1> QED
  BY <1>1, <1>2, <1>3, <1>4, KindsApart

LEMMA NumerifyIs ==
  /\ \A d \in 0 .. Depth : NumerifyAt[d] \in [Any -> Int]
  /\ \A d \in 1 .. Depth : \A v \in Any : NumerifyAt[d][v] = NumerifyStep(NumerifyAt[d - 1], v)
<1>0. Depth \in Nat
  BY CompareAssumption
<1> DEFINE T == [Any -> Int]
           First == [v \in Any |-> 0]
           Row(t) == [v \in Any |-> NumerifyStep(t, v)]
           F == [d \in 1 .. Depth |-> [t \in T |-> Row(t)]]
           Body(f) == [d \in 0 .. Depth |-> [v \in Any |-> IF d = 0 THEN 0 ELSE NumerifyStep(f[d - 1], v)]]
<1>1. First \in T
  OBVIOUS
<1>2. \A t \in T : Row(t) \in T
  BY NumberTyped
<1>3. \A d \in 1 .. Depth, t \in T : F[d][t] = Row(t) /\ F[d][t] \in T
  <2> HIDE DEF T
  <2> QED
    BY <1>2
<1>4. \E f : Solves(f, Depth, T, First, F)
  <2>1. Recursive(Depth, T, First, F)
    <3> HIDE DEF T, First, F
    <3> QED
      BY <1>0, <1>1, <1>3 DEF Recursive
  <2> HIDE DEF F, First, T
  <2> QED
    BY ONLY <2>1, Recursion
<1>5. \E f : f = Body(f)
  <2> PICK f : Solves(f, Depth, T, First, F)
    BY <1>4
  <2>0. f \in [0 .. Depth -> T] /\ f[0] = First /\ \A d \in 1 .. Depth : f[d] = F[d][f[d - 1]]
    <3> HIDE DEF T, First, F
    <3> QED
      BY DEF Solves
  <2>1. ASSUME NEW d \in 0 .. Depth
        PROVE  f[d] = [v \in Any |-> IF d = 0 THEN 0 ELSE NumerifyStep(f[d - 1], v)]
    <3>1. CASE d = 0
      BY <2>0, <3>1
    <3>2. CASE d # 0
      <4>1. d \in 1 .. Depth /\ d - 1 \in 0 .. Depth
        BY <1>0, <3>2
      <4>2. f[d - 1] \in T
        <5> HIDE DEF T
        <5> QED
          BY <2>0, <4>1
      <4>3. f[d] = Row(f[d - 1])
        <5> HIDE DEF F, First, Row, T
        <5> QED
          BY <1>3, <2>0, <4>1, <4>2
      <4> QED
        BY <3>2, <4>3
    <3> QED
      BY <3>1, <3>2
  <2>2. DOMAIN f = 0 .. Depth
    BY <2>0
  <2>3. f = Body(f)
    BY <2>0, <2>1, <2>2
  <2> HIDE DEF Body
  <2> QED
    BY <2>3
<1>6. NumerifyAt = Body(NumerifyAt)
  BY <1>5 DEF NumerifyAt
<1>8. ASSUME NEW d \in 1 .. Depth
      PROVE  d \in 0 .. Depth /\ NumerifyAt[d] = Row(NumerifyAt[d - 1])
  <2>1. d \in 0 .. Depth /\ d # 0
    BY <1>0
  <2>2. NumerifyAt[d] = [v \in Any |-> IF d = 0 THEN 0 ELSE NumerifyStep(NumerifyAt[d - 1], v)]
    BY <1>6, <2>1
  <2> QED
    BY <2>1, <2>2
<1>9. \A d \in 0 .. Depth : NumerifyAt[d] \in T
  <2> DEFINE P == {d \in 0 .. Depth : NumerifyAt[d] \in T}
  <2>1. 0 \in P
    <3>1. NumerifyAt[0] = First
      BY <1>0, <1>6
    <3> QED
      BY <1>0, <1>1, <3>1
  <2>2. ASSUME NEW d \in 1 .. Depth, d - 1 \in P PROVE d \in P
    <3>1. d \in 0 .. Depth /\ NumerifyAt[d] = Row(NumerifyAt[d - 1])
      BY <1>8
    <3>2. NumerifyAt[d - 1] \in T
      BY <2>2
    <3> HIDE DEF T, Row
    <3> QED
      BY <1>2, <3>1, <3>2
  <2>3. 0 .. Depth \subseteq P
    <3> HIDE DEF P
    <3> QED
      BY <1>0, <2>1, <2>2, Steps
  <2> QED
    BY <2>3
<1>10. ASSUME NEW d \in 1 .. Depth, NEW v \in Any
       PROVE  NumerifyAt[d][v] = NumerifyStep(NumerifyAt[d - 1], v)
  BY <1>8
<1> QED
  BY <1>9, <1>10

LEMMA TextTyped ==
  ASSUME NEW R, String \subseteq R, NEW S, NEW v \in Any, v # Invalid, \A m \in Inner : S[m] \in Seq(R)
  PROVE  StringifyStep(S, v) \in Seq(R)
<1>0. Newline \in R /\ Colon \in R
  BY TextAssumption
<1>1. \A t \in Seq(R) : Line(t) \in Seq(R)
  BY <1>0 DEF Line
<1>2. \A k \in R, t \in Seq(R) : KeyValue(k, t) \in Seq(R)
  BY <1>0, <1>1 DEF KeyValue
<1>3. CASE v.type = "object"
  <2>1. ASSUME NEW i \in 1 .. Len(v.x) PROVE KeyValue(v.x[i][1], S[v.x[i][2]]) \in Seq(R)
    <3>1. v.x[i][1] \in R /\ v.x[i][2] \in Inner
      BY <1>3, MembersAre
    <3> QED
      BY <1>2, <3>1
  <2>2. Len(v.x) \in Nat
    BY <1>3, ListShape
  <2> PICK s : s = [i \in 1 .. Len(v.x) |-> KeyValue(v.x[i][1], S[v.x[i][2]])]
    OBVIOUS
  <2>3. s \in Seq(Seq(R))
    BY <2>1, <2>2
  <2> QED
    BY <1>3, <2>3, TextForm, ConcatTyped
<1>4. CASE v.type \in Listed
  <2>1. ASSUME NEW i \in 1 .. Len(v.x) PROVE Line(S[v.x[i]]) \in Seq(R)
    <3>1. v.x[i] \in Inner
      BY <1>4, MembersAre
    <3> QED
      BY <1>1, <3>1
  <2>2. Len(v.x) \in Nat
    BY <1>4, ListShape
  <2> PICK s : s = [i \in 1 .. Len(v.x) |-> Line(S[v.x[i]])]
    OBVIOUS
  <2>3. s \in Seq(Seq(R))
    BY <2>1, <2>2
  <2> QED
    BY <1>4, <2>3, TextForm, ConcatTyped
<1>5. CASE v.type \notin Container
  <2>1. v.type \in Scalars
    BY <1>5, ClassIs, KindsApart
  <2>2. Spell[v.type][v.x] \in R
    BY <2>1, CompareAssumption
  <2>3. <<Spell[v.type][v.x]>> \in Seq(R)
    BY <2>2
  <2> QED
    BY <1>5, <2>3, TextForm
<1> QED
  BY <1>3, <1>4, <1>5, KindsApart

LEMMA StringifyIs ==
  /\ \A d \in 0 .. Depth : \A v \in Any \ {Invalid} : StringifyAt[d][v] \in Seq(String)
  /\ \A d \in 1 .. Depth : \A v \in Any : StringifyAt[d][v] = StringifyStep(StringifyAt[d - 1], v)
<1>0. Depth \in Nat /\ Inner \subseteq Any
  BY CompareAssumption, KindsApart
<1> PICK R : R = String \cup {Spell["invalid"][0]}
  OBVIOUS
<1> DEFINE T == [Any -> Seq(R)]
           First == [v \in Any |-> << >>]
           Row(t) == [v \in Any |-> StringifyStep(t, v)]
           F == [d \in 1 .. Depth |-> [t \in T |-> Row(t)]]
           Body(f) == [d \in 0 .. Depth |-> [v \in Any |-> IF d = 0 THEN << >> ELSE StringifyStep(f[d - 1], v)]]
<1>1. First \in T
  OBVIOUS
<1>2. \A t \in T : Row(t) \in T
  <2> TAKE t \in T
  <2>1. ASSUME NEW v \in Any PROVE StringifyStep(t, v) \in Seq(R)
    <3>1. CASE v = Invalid
      <4>1. Invalid.type \notin Container /\ Invalid.type = "invalid" /\ Invalid.x = 0
        BY DEF Invalid, Container
      <4>2. StringifyStep(t, v) = <<Spell["invalid"][0]>>
        BY <3>1, <4>1, TextForm
      <4>3. Spell["invalid"][0] \in R
        OBVIOUS
      <4>4. <<Spell["invalid"][0]>> \in Seq(R)
        BY <4>3
      <4> QED
        BY <4>2, <4>4
    <3>2. CASE v # Invalid
      <4>1. \A m \in Inner : t[m] \in Seq(R)
        BY <1>0
      <4> QED
        BY <3>2, <4>1, TextTyped
    <3> QED
      BY <3>1, <3>2
  <2> QED
    BY <2>1
<1>3. \A d \in 1 .. Depth, t \in T : F[d][t] = Row(t) /\ F[d][t] \in T
  <2> HIDE DEF T
  <2> QED
    BY <1>2
<1>4. \E f : Solves(f, Depth, T, First, F)
  <2>1. Recursive(Depth, T, First, F)
    <3> HIDE DEF T, First, F
    <3> QED
      BY <1>0, <1>1, <1>3 DEF Recursive
  <2> HIDE DEF F, First, T
  <2> QED
    BY ONLY <2>1, Recursion
<1>5. \E f : f = Body(f)
  <2> PICK f : Solves(f, Depth, T, First, F)
    BY <1>4
  <2>0. f \in [0 .. Depth -> T] /\ f[0] = First /\ \A d \in 1 .. Depth : f[d] = F[d][f[d - 1]]
    <3> HIDE DEF T, First, F
    <3> QED
      BY DEF Solves
  <2>1. ASSUME NEW d \in 0 .. Depth
        PROVE  f[d] = [v \in Any |-> IF d = 0 THEN << >> ELSE StringifyStep(f[d - 1], v)]
    <3>1. CASE d = 0
      BY <2>0, <3>1
    <3>2. CASE d # 0
      <4>1. d \in 1 .. Depth /\ d - 1 \in 0 .. Depth
        BY <1>0, <3>2
      <4>2. f[d - 1] \in T
        <5> HIDE DEF T
        <5> QED
          BY <2>0, <4>1
      <4>3. f[d] = Row(f[d - 1])
        <5> HIDE DEF F, First, Row, T
        <5> QED
          BY <1>3, <2>0, <4>1, <4>2
      <4> QED
        BY <3>2, <4>3
    <3> QED
      BY <3>1, <3>2
  <2>2. DOMAIN f = 0 .. Depth
    BY <2>0
  <2>3. f = Body(f)
    BY <2>0, <2>1, <2>2
  <2> HIDE DEF Body
  <2> QED
    BY <2>3
<1>6. StringifyAt = Body(StringifyAt)
  BY <1>5 DEF StringifyAt
<1>7. ASSUME NEW v \in Any PROVE StringifyAt[0][v] = << >>
  BY <1>0, <1>6
<1>8. ASSUME NEW d \in 1 .. Depth, NEW v \in Any
      PROVE  d \in 0 .. Depth /\ StringifyAt[d][v] = StringifyStep(StringifyAt[d - 1], v)
  <2>1. d \in 0 .. Depth /\ d # 0
    BY <1>0
  <2>2. StringifyAt[d] = [w \in Any |-> IF d = 0 THEN << >> ELSE StringifyStep(StringifyAt[d - 1], w)]
    BY <1>6, <2>1
  <2> QED
    BY <2>1, <2>2
<1> DEFINE P == {d \in 0 .. Depth : \A v \in Any \ {Invalid} : StringifyAt[d][v] \in Seq(String)}
<1>9. 0 \in P
  <2>1. \A v \in Any \ {Invalid} : StringifyAt[0][v] \in Seq(String)
    <3> TAKE v \in Any \ {Invalid}
    <3>1. StringifyAt[0][v] = << >>
      BY <1>7
    <3>2. << >> \in Seq(String)
      OBVIOUS
    <3> QED
      BY <3>1, <3>2, Zenon
  <2> QED
    BY <1>0, <2>1
<1>10. ASSUME NEW d \in 1 .. Depth, d - 1 \in P PROVE d \in P
  <2>1. \A m \in Inner : StringifyAt[d - 1][m] \in Seq(String)
    BY <1>0, <1>10 DEF Inner
  <2>2. ASSUME NEW v \in Any \ {Invalid} PROVE StringifyAt[d][v] \in Seq(String)
    <3>1. StringifyAt[d][v] = StringifyStep(StringifyAt[d - 1], v)
      BY <1>8
    <3> QED
      BY <2>1, <3>1, TextTyped
  <2>3. d \in 0 .. Depth
    BY <1>0
  <2> QED
    BY <2>2, <2>3
<1>11. 0 .. Depth \subseteq P
  <2> HIDE DEF P
  <2> QED
    BY <1>0, <1>9, <1>10, Steps
<1> QED
  BY <1>8, <1>11

LEMMA StringInt == \A s \in Seq(String) : s \in Seq(Int) /\ FoldText(s) \in Seq(Int)
<1> TAKE s \in Seq(String)
<1>1. String \subseteq Int /\ Fold \in [String -> Int]
  BY CompareAssumption
<1> PICK n \in Nat : n = Len(s)
  OBVIOUS
<1>2. DOMAIN s = 1 .. n /\ \A i \in 1 .. n : s[i] \in String
  OBVIOUS
<1>3. s \in Seq(Int)
  <2>1. \A i \in 1 .. n : s[i] \in Int
    BY <1>1, <1>2
  <2> PICK t : t = [i \in 1 .. n |-> s[i]]
    OBVIOUS
  <2>2. t \in Seq(Int)
    BY ONLY <2>1, n \in Nat, t = [i \in 1 .. n |-> s[i]]
  <2>3. t = s
    OBVIOUS
  <2> QED
    BY <2>2, <2>3
<1>4. FoldText(s) = [i \in 1 .. n |-> Fold[s[i]]] /\ \A i \in 1 .. n : Fold[s[i]] \in Int
  BY <1>1, <1>2 DEF FoldText
<1> QED
  BY <1>3, <1>4

(* Swapping the variants swaps every answer that goes by a number or by a  *)
(* text.                                                                   *)
THEOREM SwapsAlways == TextSpec => []Swaps
<1>1. Answered /\ Antisymmetric => Swaps
  <2> SUFFICES ASSUME Answered,
                      \/ op \in {"case", "caseless"}
                      \/ /\ op \in {"number", "auto"} /\ (op = "auto" => SameKind)
                         /\ \A v \in {l, r} : ~IsInfinite(Numerify(v))
               PROVE  CompareBy(r, l, op) = -result
    BY DEF Swaps
  <2>1. /\ l \in Any \ {Invalid} /\ r \in Any \ {Invalid} /\ Depth \in 0 .. Depth
        /\ result = CompareBy(l, r, op)
    BY ValuesAre, CompareAssumption DEF Answered, Methods
  <2>2. ByNumber(l, op) <=> ByNumber(r, op)
    BY DEF ByNumber, SameKind
  <2>3. CASE ByNumber(l, op)
    <3> PICK m \in Int, n \in Int : m = Numerify(l) /\ n = Numerify(r)
      BY <2>1, NumerifyIs DEF Numerify
    <3>1. ~IsInfinite(m) /\ ~IsInfinite(n)
      BY <2>3 DEF ByNumber
    <3>2. /\ result = IF EqualDoubles(m, n) THEN 0 ELSE IF m < n THEN -1 ELSE 1
          /\ CompareBy(r, l, op) = IF EqualDoubles(n, m) THEN 0 ELSE IF n < m THEN -1 ELSE 1
      BY <2>1, <2>2, <2>3 DEF CompareBy, CompareNumbers
    <3>3. (EqualDoubles(m, n) <=> EqualDoubles(n, m)) /\ EqualDoubles(m, m)
      BY <3>1, DoublesFacts
    <3> PICK z : z = CompareBy(r, l, op)
      OBVIOUS
    <3>4. CASE EqualDoubles(m, n)
      <4>1. result = 0 /\ z = 0
        BY <3>2, <3>3, <3>4
      <4> QED
        BY ONLY <4>1, z = CompareBy(r, l, op), ZeroHasNoSign, Zenon
    <3>5. CASE ~EqualDoubles(m, n)
      <4>1. m # n
        BY <3>3, <3>5
      <4>2. result = (IF m < n THEN -1 ELSE 1) /\ z = (IF n < m THEN -1 ELSE 1)
        BY <3>2, <3>3, <3>5
      <4>3. z = -result
        BY ONLY <4>1, <4>2, m \in Int, n \in Int
      <4> QED
        BY <4>3
    <3> QED
      BY <3>4, <3>5
  <2>4. CASE ~ByNumber(l, op)
    <3> PICK s \in Seq(String), t \in Seq(String) : s = Stringify(l) /\ t = Stringify(r)
      BY <2>1, StringifyIs DEF Stringify
    <3> PICK x, y : /\ x = IF op = "caseless" THEN FoldText(s) ELSE s
                    /\ y = IF op = "caseless" THEN FoldText(t) ELSE t
      OBVIOUS
    <3>1. x \in Seq(Int) /\ y \in Seq(Int)
      BY StringInt
    <3>2. result = Decide(ByteDiffs(x, y), x, y) /\ CompareBy(r, l, op) = Decide(ByteDiffs(y, x), y, x)
      BY <2>1, <2>2, <2>4 DEF CompareBy, CompareStrings, CompareTexts
    <3> QED
      BY ONLY <3>1, <3>2, BytesSwap
  <2> QED
    BY <2>3, <2>4
<1> QED
  BY <1>1, AnsweredAlways, MirrorsAlways, PTL

-----------------------------------------------------------------------------
(* Equal values are the same number and the same text.                     *)
Finite(d, v) == \A p \in PartsAt[d][v] : p.type \in OfNumber => ~IsInfinite(p.x)
Alike(d, N, S, E) ==
  /\ \A a, b \in Nests[d] : E[a][b] /\ Finite(d, a) /\ Distinct(d, a, b) => N[a] = N[b] /\ S[a] = S[b]
  /\ \A a \in Nests[d] : a # Invalid => ~E[a][Invalid]

LEMMA FiniteMembers ==
  ASSUME NEW d \in 1 .. Depth, NEW v \in Any, Finite(d, v)
  PROVE  /\ v.type \in OfNumber => ~IsInfinite(v.x)
         /\ \A m \in Members(v) : Finite(d - 1, m)
BY PartsAre DEF Finite

LEMMA EqualScalars ==
  ASSUME NEW v \in Any, NEW w \in Any, NEW E, EqualStep(E, v, w), v.type \notin Container,
         v.type \in OfNumber => ~IsInfinite(v.x),
         v.type \in OfNumber /\ w.type \in OfNumber /\ v.x # w.x => ~EqualDoubles(v.x, w.x)
  PROVE  \/ v = w
         \/ v.type = "atomstring" /\ w.type = "atomstring" /\ AtomString[v.x] = AtomString[w.x]
<1> PICK t : t = v.type
  OBVIOUS
<1>0. w.type = t
  BY DEF EqualStep
<1>1. CASE v = Invalid \/ w = Invalid
  <2>1. t \notin Types
    BY <1>0, <1>1, KindsApart
  <2> QED
    BY <1>0, <2>1, ClassIs
<1>2. CASE v # Invalid /\ w # Invalid
  <2>1. t \in Scalars /\ t # "invalid" /\ t # "object" /\ t \notin Listed
    BY <1>2, ClassIs, KindsApart
  <2>2. v = [type |-> t, x |-> v.x] /\ w = [type |-> t, x |-> w.x]
    BY <1>0, <2>1, ScalarShape
  <2>3. CASE t \in {"undefined", "null"}
    <3>1. v.x = 0 /\ w.x = 0
      BY <1>0, <2>1, <2>3, ScalarShape, ScalarSets
    <3> QED
      BY <2>2, <3>1
  <2>4. CASE t \in Float
    <3>1. EqualDoubles(v.x, w.x)
      BY <1>0, <2>4, EqualForm
    <3>2. v.x = w.x
      BY <1>0, <2>4, <3>1, KindsDiffer
    <3> QED
      BY <2>2, <3>2
  <2>5. CASE t = "atomstring"
    BY <1>0, <2>5, EqualForm
  <2>6. CASE t \notin {"undefined", "null", "atomstring"} \cup Float
    <3>1. t \notin {"invalid", "undefined", "null", "atomstring", "object"} \cup Float \cup Listed
      BY <2>1, <2>6
    <3>2. v.x = w.x
      BY <1>0, <3>1, EqualForm
    <3> QED
      BY <2>2, <3>2
  <2> QED
    BY <2>3, <2>4, <2>5, <2>6
<1> QED
  BY <1>1, <1>2

LEMMA AtomText ==
  ASSUME NEW v \in Any, v.type = "atomstring"
  PROVE  Spell[v.type][v.x] = AtomString[v.x] /\ NumerifyScalar(v) = StringNumber[AtomString[v.x]]
<1>1. v \in Value /\ v.type \in Atom
  BY DEF Any, Undefined, Invalid, Atom
<1>2. Spell[v.type][v.x] = AtomString[v.x]
  BY <1>1, TextAssumption
<1>3. NumerifyScalar(v) = StringNumber[AtomString[v.x]]
  BY DEF NumerifyScalar, OfNumber, ByString
<1> QED
  BY <1>2, <1>3

LEMMA AlikeStep ==
  ASSUME NEW d \in 1 .. Depth, NEW N, NEW S, NEW E, Alike(d - 1, N, S, E),
         NEW v \in Nests[d], NEW w \in Nests[d], EqualStep(E, v, w), Finite(d, v), Distinct(d, v, w)
  PROVE  NumerifyStep(N, v) = NumerifyStep(N, w) /\ StringifyStep(S, v) = StringifyStep(S, w)
<1>0. v \in Any /\ w \in Any /\ Members(v) \subseteq Nests[d - 1] /\ Members(w) \subseteq Nests[d - 1]
  BY NestsAre DEF Any
<1>1. /\ v.type \in OfNumber => ~IsInfinite(v.x)
      /\ v.type \in OfNumber /\ w.type \in OfNumber /\ v.x # w.x => ~EqualDoubles(v.x, w.x)
      /\ \A m \in Members(v) : Finite(d - 1, m)
      /\ \A m \in Members(v), n \in Members(w) : Distinct(d - 1, m, n)
  BY <1>0, FiniteMembers, SoundMembers
<1>2. \A m \in Members(v), n \in Members(w) : E[m][n] => N[m] = N[n] /\ S[m] = S[n]
  BY <1>0, <1>1 DEF Alike
<1> PICK t, x, y : t = v.type /\ x = v.x /\ y = w.x
  OBVIOUS
<1>3. w.type = t
  BY DEF EqualStep
<1>4. CASE t \notin Container
  <2>1. CASE v = w
    BY <2>1
  <2>2. CASE t = "atomstring" /\ AtomString[x] = AtomString[y]
    <3>1. t \notin Container \cup Address
      BY <2>2 DEF Container, Address
    <3>2. NumerifyStep(N, v) = NumerifyScalar(v) /\ NumerifyStep(N, w) = NumerifyScalar(w)
      BY <1>3, <3>1, NumberForm
    <3>3. StringifyStep(S, v) = <<Spell[t][x]>> /\ StringifyStep(S, w) = <<Spell[t][y]>>
      BY <1>3, <1>4, TextForm
    <3>4. /\ Spell[t][x] = AtomString[x] /\ Spell[t][y] = AtomString[y]
          /\ NumerifyScalar(v) = StringNumber[AtomString[x]] /\ NumerifyScalar(w) = StringNumber[AtomString[y]]
      BY <1>0, <1>3, <2>2, AtomText
    <3> QED
      BY <2>2, <3>2, <3>3, <3>4
  <2> QED
    BY <1>0, <1>1, <1>4, <2>1, <2>2, EqualScalars
<1>5. CASE t \in Listed
  <2>1. x \in Seq(Inner) /\ y \in Seq(Inner)
    BY <1>0, <1>3, <1>5, ListShape
  <2>2. Len(x) = Len(y) /\ \A i \in 1 .. Len(x) : E[x[i]][y[i]]
    <3>1. EqualMembers(E, v, w)
      BY <1>3, <1>5, EqualForm
    <3> QED
      BY <3>1 DEF EqualMembers, SameSize
  <2>3. \A i \in 1 .. Len(x) : N[x[i]] = N[y[i]] /\ S[x[i]] = S[y[i]]
    <3> TAKE i \in 1 .. Len(x)
    <3>1. x[i] \in Members(v) /\ y[i] \in Members(w)
      BY <1>0, <1>3, <1>5, <2>2, MembersAre
    <3> QED
      BY <1>2, <2>2, <3>1
  <2>4. [i \in 1 .. Len(x) |-> N[x[i]]] = [i \in 1 .. Len(y) |-> N[y[i]]]
    BY <2>2, <2>3
  <2>5. [i \in 1 .. Len(x) |-> Line(S[x[i]])] = [i \in 1 .. Len(y) |-> Line(S[y[i]])]
    BY <2>2, <2>3
  <2> PICK m, n, s, u : /\ m = [i \in 1 .. Len(x) |-> N[x[i]]] /\ n = [i \in 1 .. Len(y) |-> N[y[i]]]
                        /\ s = [i \in 1 .. Len(x) |-> Line(S[x[i]])]
                        /\ u = [i \in 1 .. Len(y) |-> Line(S[y[i]])]
    OBVIOUS
  <2>6. NumerifyStep(N, v) = SumOf(m) /\ NumerifyStep(N, w) = SumOf(n)
    BY <1>3, <1>5, NumberForm
  <2>7. StringifyStep(S, v) = Concat(s) /\ StringifyStep(S, w) = Concat(u)
    BY <1>3, <1>5, TextForm
  <2> QED
    BY <2>4, <2>5, <2>6, <2>7
<1>6. CASE t = "object"
  <2>1. /\ x \in Seq(String \X Inner) /\ y \in Seq(String \X Inner) /\ KeysSorted(x) /\ KeysSorted(y)
    BY <1>0, <1>3, <1>6, ListShape
  <2>2. Len(x) = Len(y) /\ \A i \in 1 .. Len(x) : E[x[i][2]][Property(w, x[i][1])]
    <3>1. EqualObjects(E, v, w)
      BY <1>3, <1>6, EqualForm
    <3> QED
      BY <3>1 DEF EqualObjects, SameSize
  <2> PICK n \in Nat : n = Len(x) /\ n = Len(y)
    BY <2>1, <2>2
  <2>3. \A i \in 1 .. n : ~E[x[i][2]][Invalid]
    <3> TAKE i \in 1 .. n
    <3>1. x[i][2] \in Members(v)
      BY <1>0, <1>6, MembersAre
    <3>2. x[i][2] \in Nests[d - 1] /\ x[i][2] # Invalid
      BY <1>0, <3>1, MembersAre DEF Inner
    <3> QED
      BY <3>2 DEF Alike
  <2>4. Leads(n, x, w, E)
    BY <2>1, <2>2, <2>3 DEF Leads
  <2>5. \A i \in 1 .. n : x[i][1] = w.x[i][1] /\ E[x[i][2]][w.x[i][2]]
    BY ONLY <2>4, n \in Nat, SameKeys
  <2>6. \A i \in 1 .. n : x[i][1] = y[i][1] /\ N[x[i][2]] = N[y[i][2]] /\ S[x[i][2]] = S[y[i][2]]
    <3> TAKE i \in 1 .. n
    <3>1. x[i][2] \in Members(v) /\ y[i][2] \in Members(w)
      BY <1>0, <1>3, <1>6, MembersAre
    <3>2. E[x[i][2]][y[i][2]] /\ x[i][1] = y[i][1]
      BY <2>5
    <3> QED
      BY <1>2, <3>1, <3>2
  <2>7. [i \in 1 .. Len(x) |-> N[x[i][2]]] = [i \in 1 .. Len(y) |-> N[y[i][2]]]
    BY <2>2, <2>6
  <2>8. [i \in 1 .. Len(x) |-> KeyValue(x[i][1], S[x[i][2]])]
          = [i \in 1 .. Len(y) |-> KeyValue(y[i][1], S[y[i][2]])]
    BY <2>2, <2>6
  <2> PICK m, k, s, u : /\ m = [i \in 1 .. Len(x) |-> N[x[i][2]]] /\ k = [i \in 1 .. Len(y) |-> N[y[i][2]]]
                        /\ s = [i \in 1 .. Len(x) |-> KeyValue(x[i][1], S[x[i][2]])]
                        /\ u = [i \in 1 .. Len(y) |-> KeyValue(y[i][1], S[y[i][2]])]
    OBVIOUS
  <2>9. NumerifyStep(N, v) = SumOf(m) /\ NumerifyStep(N, w) = SumOf(k)
    BY <1>3, <1>6, NumberForm
  <2>10. StringifyStep(S, v) = Concat(s) /\ StringifyStep(S, w) = Concat(u)
    BY <1>3, <1>6, TextForm
  <2> QED
    BY <2>7, <2>8, <2>9, <2>10
<1> QED
  BY <1>4, <1>5, <1>6, KindsApart

LEMMA EqualAlike == Alike(Depth, NumerifyAt[Depth], StringifyAt[Depth], EqualAt[Depth])
<1> PICK N, S, E : N = NumerifyAt /\ S = StringifyAt /\ E = EqualAt
  OBVIOUS
<1>0. Depth \in Nat
  BY CompareAssumption
<1> DEFINE P == {d \in 0 .. Depth : Alike(d, N[d], S[d], E[d])}
<1>1. 0 \in P
  BY <1>0, NestsAre DEF Alike
<1>2. ASSUME NEW d \in 1 .. Depth, d - 1 \in P PROVE d \in P
  <2>1. Alike(d - 1, N[d - 1], S[d - 1], E[d - 1]) /\ d \in 0 .. Depth
    BY <1>0, <1>2
  <2>2. ASSUME NEW a \in Nests[d], NEW b \in Nests[d], E[d][a][b], Finite(d, a), Distinct(d, a, b)
        PROVE  N[d][a] = N[d][b] /\ S[d][a] = S[d][b]
    <3>0. a \in Any /\ b \in Any
      BY NestsAre DEF Any
    <3>1. EqualStep(E[d - 1], a, b)
      BY <2>2, <3>0, EqualIs
    <3>2. /\ N[d][a] = NumerifyStep(N[d - 1], a) /\ N[d][b] = NumerifyStep(N[d - 1], b)
          /\ S[d][a] = StringifyStep(S[d - 1], a) /\ S[d][b] = StringifyStep(S[d - 1], b)
      BY <3>0, NumerifyIs, StringifyIs
    <3> QED
      BY <2>1, <2>2, <3>1, <3>2, AlikeStep
  <2>3. ASSUME NEW a \in Nests[d], a # Invalid PROVE ~E[d][a][Invalid]
    <3>0. a \in Any
      BY NestsAre DEF Any
    <3>1. E[d][a][Invalid] <=> EqualStep(E[d - 1], a, Invalid)
      BY <3>0, EqualIs, KindsApart
    <3>2. a.type # Invalid.type
      BY <2>3, <3>0, ClassIs, KindsApart
    <3> QED
      BY <3>1, <3>2 DEF EqualStep
  <2>4. Alike(d, N[d], S[d], E[d])
    BY <2>2, <2>3 DEF Alike
  <2> QED
    BY <2>1, <2>4
<1>3. 0 .. Depth \subseteq P
  <2> HIDE DEF P
  <2> QED
    BY <1>0, <1>1, <1>2, Steps
<1> QED
  BY <1>0, <1>3

LEMMA ScalarAlike ==
  ASSUME NEW v \in Any, NEW w \in Any,
         v = w \/ (v.type = "atomstring" /\ w.type = "atomstring" /\ AtomString[v.x] = AtomString[w.x])
  PROVE  /\ Booleanize(v) = Booleanize(w) /\ CastToBytes(v) = CastToBytes(w)
         /\ \A force \in BOOLEAN : CastToNumber(v, force) = CastToNumber(w, force)
<1>1. CASE v = w
  BY <1>1
<1>2. CASE v.type = "atomstring" /\ w.type = "atomstring" /\ AtomString[v.x] = AtomString[w.x]
  <2>1. /\ "atomstring" \notin Address /\ "atomstring" \in Atom /\ "atomstring" \notin OfNumber
        /\ "atomstring" \notin {"undefined", "null", "invalid", "boolean", "bsequence"}
    BY DEF Address, Atom, OfNumber
  <2>2. StringOf(v) = StringOf(w)
    BY <1>2 DEF StringOf
  <2>3. Booleanize(v) = Booleanize(w)
    BY <1>2, <2>1, <2>2 DEF Booleanize, BooleanizeScalar
  <2>4. CastToBytes(v) = CastToBytes(w)
    BY <1>2, <2>2 DEF CastToBytes
  <2>5. ASSUME NEW force \in BOOLEAN PROVE CastToNumber(v, force) = CastToNumber(w, force)
    BY <1>2, <2>1, <2>2 DEF CastToNumber
  <2> QED
    BY <2>3, <2>4, <2>5
<1> QED
  BY <1>1, <1>2

LEMMA ContainerAlike ==
  ASSUME NEW v \in Any, NEW w \in Any, v.type \in Container, w.type = v.type,
         v.x = << >> <=> w.x = << >>
  PROVE  /\ Booleanize(v) = Booleanize(w) /\ CastToBytes(v) = CastToBytes(w)
         /\ \A force \in BOOLEAN : CastToNumber(v, force) = CastToNumber(w, force)
<1> PICK t : t = v.type
  OBVIOUS
<1>1. /\ t \notin Address /\ t \notin OfNumber \cup {"boolean"} /\ t \notin Atom \cup {"string"}
      /\ t \notin {"undefined", "null", "invalid"}
      /\ t \notin {"atomstring", "string", "bsequence", "null", "boolean"} /\ t \notin OfNumber
  BY DEF Container, Address, OfNumber, Atom
<1>2. Booleanize(v) = (v.x # << >>) /\ Booleanize(w) = (w.x # << >>)
  BY <1>1 DEF Booleanize, BooleanizeScalar
<1>3. (v.x # << >>) = (w.x # << >>)
  OBVIOUS
<1>4. CastToBytes(v) = <<CastFails, 0>> /\ CastToBytes(w) = <<CastFails, 0>>
  BY <1>1 DEF CastToBytes
<1>5. \A force \in BOOLEAN : CastToNumber(v, force) = CastFails /\ CastToNumber(w, force) = CastFails
  BY <1>1 DEF CastToNumber
<1> QED
  BY <1>2, <1>3, <1>4, <1>5

LEMMA EqualEmpty ==
  ASSUME NEW E, NEW v \in Any, NEW w \in Any, EqualStep(E, v, w), v.type \in Container
  PROVE  v.x = << >> <=> w.x = << >>
<1>0. w.type = v.type
  BY DEF EqualStep
<1>1. Len(v.x) = Len(w.x)
  <2>1. CASE v.type = "object"
    BY <1>0, <2>1, EqualForm DEF EqualObjects, SameSize
  <2>2. CASE v.type \in Listed
    BY <1>0, <2>2, EqualForm DEF EqualMembers, SameSize
  <2> QED
    BY <2>1, <2>2, KindsApart
<1> PICK x, y : x = v.x /\ y = w.x
  OBVIOUS
<1>2. \E R, T : x \in Seq(R) /\ y \in Seq(T)
  BY <1>0, ListShape, KindsApart
<1> QED
  BY <1>1, <1>2

(* pcvariant_diff finds no difference between scalars only when they are   *)
(* spelled the same.                                                       *)
LEMMA DiffZero ==
  ASSUME NEW v \in Any, NEW w \in Any, v # Invalid, w # Invalid,
         v.type \notin Container, w.type \notin Container, ~Short(v), ~Short(w), NEW be, Diff(v, w, be) = 0
  PROVE  Spell[v.type][v.x] = Spell[w.type][w.x]
<1>0. v.type \in Scalars /\ w.type \in Scalars
  BY ClassIs, KindsApart
<1> PICK t, x, y : t = v.type /\ x = v.x /\ y = w.x
  OBVIOUS
<1>1. CASE w.type = t
  <2>1. SameTypeDiff(v, w, be) = 0
    BY <1>1 DEF Diff
  <2>2. CASE t \in {"undefined", "null"}
    <3>1. x = 0 /\ y = 0
      BY <1>0, <1>1, <2>2, ScalarShape, ScalarSets
    <3> QED
      BY <1>1, <3>1
  <2>3. CASE t = "bsequence"
    <3>1. x \in Seq(Nat) /\ y \in Seq(Nat)
      BY <1>0, <1>1, <2>3, ScalarShape, ScalarSets
    <3>2. Decide(ByteDiffs(x, y), x, y) = 0
      BY <1>1, <2>1, <2>3, DiffForm
    <3>3. x = y
      BY ONLY <3>1, <3>2, BytesZero
    <3> QED
      BY <1>1, <3>3
  <2>4. CASE t \in Atom
    <3> PICK a \in Int, b \in Int : a = AtomString[x] /\ b = AtomString[y]
      BY <1>1, <2>4, AtomsAre
    <3>1. Sgn(a, b) = 0
      BY <1>1, <2>1, <2>4, DiffForm
    <3>2. a = b
      BY ONLY <3>1, a \in Int, b \in Int, SgnFacts
    <3>3. v \in Value /\ w \in Value
      BY <1>1, <2>4 DEF Any, Undefined, Invalid, Atom
    <3>4. Spell[t][x] = a /\ Spell[w.type][y] = b
      BY <1>1, <2>4, <3>3, TextAssumption
    <3> QED
      BY <3>2, <3>4
  <2>5. CASE t \notin {"undefined", "null", "bsequence"} \cup Atom
    <3>1. x \in Int /\ y \in Int
      BY <1>1, <2>5, ScalarInts
    <3>2. Sgn(x, y) = 0
      BY <1>1, <2>1, <2>5, DiffForm
    <3>3. x = y
      BY ONLY <3>1, <3>2, SgnFacts
    <3> QED
      BY <1>1, <3>3
  <2> QED
    BY <2>2, <2>3, <2>4, <2>5
<1>2. CASE w.type # t
  <2> PICK a, b : a = Spell[t][x] /\ b = Spell[w.type][y]
    OBVIOUS
  <2>1. a \in Int /\ b \in Int
    BY <1>0, CompareAssumption
  <2>2. Diff(v, w, be) = IF "bsequence" \in {t, w.type} THEN Aborts ELSE Sgn(a, b)
    BY <1>2 DEF Diff
  <2>3. Sgn(a, b) = 0
    BY <2>2 DEF Aborts
  <2>4. a = b
    BY ONLY <2>1, <2>3, SgnFacts
  <2> QED
    BY <2>4
<1> QED
  BY <1>1, <1>2

LEMMA KeyValueIs ==
  ASSUME NEW v \in Any, NEW key
  PROVE  KeyOf(v, key) \in Any \ {Invalid}
<1>1. Undefined \in Any \ {Invalid}
  BY DEF Undefined, Invalid, Any
<1>2. CASE v.type # "object" \/ Property(v, key) = Invalid
  BY <1>1, <1>2 DEF KeyOf
<1>3. CASE v.type = "object" /\ Property(v, key) # Invalid
  <2>1. v.x \in Seq(String \X Inner)
    BY <1>3, ListShape
  <2> PICK x : x = v.x
    OBVIOUS
  <2> PICK i \in 1 .. Len(x) : Property(v, key) = x[i][2]
    <3>1. \E i \in 1 .. Len(x) : x[i][1] = key
      BY <1>3 DEF Property
    <3>2. (CHOOSE i \in 1 .. Len(x) : x[i][1] = key) \in 1 .. Len(x)
      BY <3>1
    <3> QED
      BY <3>1, <3>2 DEF Property
  <2>2. x[i] \in String \X Inner
    BY ONLY <2>1, i \in 1 .. Len(x), x = v.x
  <2>3. Property(v, key) \in Any \ {Invalid}
    BY <2>2, KindsApart DEF Inner
  <2> QED
    BY <1>3, <2>3 DEF KeyOf
<1> QED
  BY <1>2, <1>3

LEMMA TextIs ==
  ASSUME NEW v \in Any \ {Invalid}, Depth \in 1 .. Depth
  PROVE  /\ Stringify(v) \in Seq(String)
         /\ v.type \notin Container => Stringify(v) = <<Spell[v.type][v.x]>>
<1>1. Stringify(v) = StringifyStep(StringifyAt[Depth - 1], v)
  BY StringifyIs DEF Stringify
<1>2. Stringify(v) \in Seq(String)
  BY StringifyIs, CompareAssumption DEF Stringify
<1> QED
  BY <1>1, <1>2, TextForm

LEMMA DigestTyped ==
  ASSUME NEW v \in Any \ {Invalid}, NEW keys \in Seq(String), Depth \in 1 .. Depth
  PROVE  MD5BySet(v, keys) \in Seq(String)
<1>1. Undefined \in Any \ {Invalid}
  BY DEF Undefined, Invalid, Any
<1>2. CASE keys = << >> \/ v.type # "object"
  BY <1>1, <1>2, TextIs DEF MD5BySet
<1>3. CASE keys # << >> /\ v.type = "object"
  <2> PICK n \in Nat : n = Len(keys)
    OBVIOUS
  <2> PICK s : s = [i \in DOMAIN keys |-> KeyValue(keys[i], Stringify(KeyOf(v, keys[i])))]
    OBVIOUS
  <2>1. MD5BySet(v, keys) = Concat(s)
    BY <1>3 DEF MD5BySet
  <2>2. ASSUME NEW i \in 1 .. n PROVE KeyValue(keys[i], Stringify(KeyOf(v, keys[i]))) \in Seq(String)
    <3> PICK k \in String, u \in Seq(String) : k = keys[i] /\ u = Stringify(KeyOf(v, keys[i]))
      BY KeyValueIs, TextIs
    <3>1. Newline \in String /\ Colon \in String
      BY TextAssumption
    <3>2. <<k, Colon>> \o (u \o <<Newline>>) \in Seq(String)
      BY ONLY <3>1, k \in String, u \in Seq(String)
    <3> QED
      BY <3>2 DEF KeyValue, Line
  <2>3. DOMAIN keys = 1 .. n
    OBVIOUS
  <2>4. s \in Seq(Seq(String))
    BY <2>2, <2>3
  <2> QED
    BY <2>1, <2>4, ConcatTyped
<1> QED
  BY <1>2, <1>3

(* No value of a key is a byte sequence in its wrapper.                    *)
LongKeys(v, keys) == \A i \in DOMAIN keys : ~Short(KeyOf(v, keys[i]))

(* Two members no key of which differs have the same text under their      *)
(* MD5, so that it never tells members apart that the keys do not.         *)
LEMMA DigestSame ==
  ASSUME NEW v \in Any \ {Invalid}, NEW w \in Any \ {Invalid}, NEW keys \in Seq(String), keys # << >>,
         Depth \in 1 .. Depth, (v.type = "object") <=> (w.type = "object"),
         ScalarKeys(v, keys), ScalarKeys(w, keys), LongKeys(v, keys), LongKeys(w, keys), NEW be,
         \A i \in DOMAIN keys : Diff(KeyOf(v, keys[i]), KeyOf(w, keys[i]), be) = 0
  PROVE  MD5BySet(v, keys) = MD5BySet(w, keys)
<1>1. CASE v.type # "object"
  BY <1>1 DEF MD5BySet
<1>2. CASE v.type = "object"
  <2>1. \A i \in DOMAIN keys : Stringify(KeyOf(v, keys[i])) = Stringify(KeyOf(w, keys[i]))
    <3> TAKE i \in DOMAIN keys
    <3> PICK a \in Any \ {Invalid}, b \in Any \ {Invalid} : a = KeyOf(v, keys[i]) /\ b = KeyOf(w, keys[i])
      BY KeyValueIs
    <3>1. /\ a.type \notin Container /\ b.type \notin Container /\ Diff(a, b, be) = 0
          /\ ~Short(a) /\ ~Short(b)
      BY DEF ScalarKeys, LongKeys
    <3>2. Spell[a.type][a.x] = Spell[b.type][b.x]
      BY <3>1, DiffZero
    <3>3. Stringify(a) = Stringify(b)
      BY <3>1, <3>2, TextIs
    <3> QED
      BY <3>3
  <2> PICK s, t : /\ s = [i \in DOMAIN keys |-> KeyValue(keys[i], Stringify(KeyOf(v, keys[i])))]
                  /\ t = [i \in DOMAIN keys |-> KeyValue(keys[i], Stringify(KeyOf(w, keys[i])))]
    OBVIOUS
  <2>2. s = t
    BY <2>1
  <2>3. MD5BySet(v, keys) = Concat(s) /\ MD5BySet(w, keys) = Concat(t)
    BY <1>2 DEF MD5BySet
  <2> QED
    BY <2>2, <2>3
<1> QED
  BY <1>1, <1>2

LEMMA SameMember ==
  ASSUME NEW v \in Any \ {Invalid}, NEW w \in Any \ {Invalid}, NEW keys \in Seq(String), keys # << >>,
         Depth \in 1 .. Depth, (v.type = "object") <=> (w.type = "object"),
         ScalarKeys(v, keys), ScalarKeys(w, keys), LongKeys(v, keys), LongKeys(w, keys), NEW be
  PROVE  DiffBySet(v, w, keys, be) = 0
           <=> \A i \in DOMAIN keys : Diff(KeyOf(v, keys[i]), KeyOf(w, keys[i]), be) = 0
<1> PICK s \in Seq(String), t \in Seq(String) : s = MD5BySet(v, keys) /\ t = MD5BySet(w, keys)
  BY DigestTyped
<1> PICK digests : digests = CompareTexts(s, t)
  OBVIOUS
<1> PICK diffs : diffs = [i \in DOMAIN keys |-> Diff(KeyOf(v, keys[i]), KeyOf(w, keys[i]), be)]
  OBVIOUS
<1>1. DiffBySet(v, w, keys, be) = IF digests # 0 THEN digests ELSE Decide(diffs, << >>, << >>)
  BY DEF DiffBySet
<1>2. DOMAIN diffs \subseteq Nat /\ DOMAIN diffs = DOMAIN keys
  OBVIOUS
<1>3. LengthDiff(<< >>, << >>) = 0
  BY DEF LengthDiff, Sgn
<1>4. Decide(diffs, << >>, << >>) = 0 <=> \A i \in DOMAIN diffs : diffs[i] = 0
  <2> PICK e : e = << >>
    OBVIOUS
  <2>1. \/ \E i \in DOMAIN diffs : /\ diffs[i] # 0 /\ Decide(diffs, e, e) = diffs[i]
                                   /\ \A j \in DOMAIN diffs : j < i => diffs[j] = 0
        \/ /\ \A i \in DOMAIN diffs : diffs[i] = 0
           /\ Decide(diffs, e, e) = LengthDiff(e, e)
    BY ONLY <1>2, Decided
  <2> QED
    BY <1>3, <2>1
<1>5. (\A i \in DOMAIN diffs : diffs[i] = 0) => digests = 0
  <2> SUFFICES ASSUME \A i \in DOMAIN diffs : diffs[i] = 0 PROVE digests = 0
    OBVIOUS
  <2>1. \A i \in DOMAIN keys : Diff(KeyOf(v, keys[i]), KeyOf(w, keys[i]), be) = 0
    OBVIOUS
  <2>2. s = t
    BY SMTT(30), <2>1, DigestSame
  <2>3. s \in Seq(Int)
    BY StringInt
  <2>4. Decide(ByteDiffs(s, s), s, s) = 0
    BY ONLY <2>3, BytesSwap
  <2> QED
    BY <2>2, <2>4 DEF CompareTexts
<1>6. (\A i \in DOMAIN diffs : diffs[i] = 0)
        <=> \A i \in DOMAIN keys : Diff(KeyOf(v, keys[i]), KeyOf(w, keys[i]), be) = 0
  BY <1>2
<1> QED
  BY ONLY <1>1, <1>4, <1>5, <1>6

(* What is equal has the same number, truth value, text and bytes, and the *)
(* members of a set are told apart by their unique keys alone.             *)
THEOREM SubstitutesAlways == TextSpec => []EqualSubstitutes
<1>1. ASSUME Answered, op = "is_equal_to", result = 1, l # Invalid, Apart(l, r),
             \A n \in Numbers(l) \cup Numbers(r) : ~IsInfinite(n)
      PROVE  /\ Numerify(l) = Numerify(r) /\ Booleanize(l) = Booleanize(r)
             /\ Stringify(l) = Stringify(r) /\ CastToBytes(l) = CastToBytes(r)
             /\ \A force \in BOOLEAN : CastToNumber(l, force) = CastToNumber(r, force)
  <2>1. /\ l \in Value /\ r \in Value /\ l \in Any /\ r \in Any /\ Depth \in 1 .. Depth
        /\ result = IF Equal(l, r) THEN 1 ELSE 0
    BY <1>1, ValuesAre DEF Answered
  <2>2. Equal(l, r)
    BY <1>1, <2>1
  <2>3. Finite(Depth, l) /\ Distinct(Depth, l, r)
    BY <1>1, ExactIs DEF Finite
  <2>4. l \in Nests[Depth] /\ r \in Nests[Depth]
    BY <2>1, NestsAre
  <2> PICK N, S, E : N = NumerifyAt[Depth] /\ S = StringifyAt[Depth] /\ E = EqualAt[Depth]
    OBVIOUS
  <2>5. Alike(Depth, N, S, E)
    BY EqualAlike
  <2>6. E[l][r]
    BY <2>2 DEF Equal
  <2>7. N[l] = N[r] /\ S[l] = S[r]
    BY <2>3, <2>4, <2>5, <2>6 DEF Alike
  <2>8. EqualStep(EqualAt[Depth - 1], l, r)
    BY <2>1, <2>2, EqualIs DEF Equal
  <2>9. CASE l.type \notin Container
    <3>1. /\ l.type \in OfNumber => ~IsInfinite(l.x)
          /\ l.type \in OfNumber /\ r.type \in OfNumber /\ l.x # r.x => ~EqualDoubles(l.x, r.x)
      BY <2>1, <2>3, FiniteMembers, SoundMembers
    <3>2. l = r \/ (l.type = "atomstring" /\ r.type = "atomstring" /\ AtomString[l.x] = AtomString[r.x])
      BY <2>1, <2>8, <2>9, <3>1, EqualScalars
    <3> QED
      BY <2>1, <2>7, <3>2, ScalarAlike DEF Numerify, Stringify
  <2>10. CASE l.type \in Container
    <3>1. r.type = l.type
      BY <2>8 DEF EqualStep
    <3>2. l.x = << >> <=> r.x = << >>
      BY <2>1, <2>8, <2>10, EqualEmpty
    <3> QED
      BY <2>1, <2>7, <2>10, <3>1, <3>2, ContainerAlike DEF Numerify, Stringify
  <2> QED
    BY <2>9, <2>10
<1>2. ASSUME Answered, op \in DOMAIN UniqueKeys, UniqueKeys[op] # << >>,
             (l.type = "object") = (r.type = "object"),
             \A i \in DOMAIN UniqueKeys[op], v \in {l, r} : ~Short(KeyOf(v, UniqueKeys[op][i]))
      PROVE  (result = 0) =
               \A i \in DOMAIN UniqueKeys[op] :
                 DiffWith(KeyOf(l, UniqueKeys[op][i]), KeyOf(r, UniqueKeys[op][i])) = 0
  <2> PICK keys : keys = UniqueKeys[op]
    OBVIOUS
  <2>1. /\ l \in Any \ {Invalid} /\ r \in Any \ {Invalid} /\ Depth \in 1 .. Depth
        /\ keys \in Seq(String) /\ keys # << >> /\ ScalarKeys(l, keys) /\ ScalarKeys(r, keys)
        /\ result = DiffBySet(l, r, keys, beyond)
    BY <1>2, ValuesAre, TextAssumption DEF Answered
  <2>3. LongKeys(l, keys) /\ LongKeys(r, keys)
    BY <1>2 DEF LongKeys
  <2>2. result = 0 <=> \A i \in DOMAIN keys : DiffWith(KeyOf(l, keys[i]), KeyOf(r, keys[i])) = 0
    BY <1>2, <2>1, <2>3, SameMember DEF DiffWith
  <2> QED
    BY <2>2
<1>3. Answered => EqualSubstitutes
  BY <1>1, <1>2 DEF EqualSubstitutes
<1> QED
  BY <1>3, AnsweredAlways, PTL
=============================================================================
