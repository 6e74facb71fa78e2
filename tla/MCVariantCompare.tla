-------------------------- MODULE MCVariantCompare --------------------------
(* The strings in strcmp order (a newline and a colon follow every string  *)
(* of a container), "a" and "A" equal for strcasecmp.  8 and 9 are as      *)
(* close as equal numbers, and 11 is no double.  Byte sequences of up to   *)
(* two bytes live in the wrapper.  Atoms 1 and 2 are of one string in two *)
(* buckets.                                                                *)
EXTENDS VariantText

Strings == <<"", "\n", "-inf", "00", "0000", "010101", "01010100", "010102", "10", "11",
             "5", "8", "9", ":",
             "<dynamic>", "<native 1>", "<native 2>",
             "A", "a", "false", "inf", "null", "true", "undefined">>
Str(s) == CHOOSE i \in 1 .. Len(Strings) : Strings[i] = s
V(t, X) == {[type |-> t, x |-> x] : x \in X}
One(t, x) == [type |-> t, x |-> x]

MCFold == [i \in 1 .. Len(Strings) |-> IF i = Str("A") THEN Str("a") ELSE i]
MCAtomString == <<Str("A"), Str("A"), Str("a")>>
MCSpelled(t, x) ==
  CASE t = "string" -> x
    [] t = "null" -> Str("null")
    [] t = "boolean" -> Str(<<"false", "true">>[x + 1])
    [] t \in Atom -> MCAtomString[x]
    [] t = "dynamic" -> Str("<dynamic>")
    [] t = "native" -> Str(<<"<native 1>", "<native 2>">>[x])
    [] t = "undefined" -> Str("undefined")
    [] t = "bsequence" -> Str(CASE x = << >> -> "" [] x = <<0>> -> "00" [] x = <<0, 0>> -> "0000"
                                [] x = <<1, 1, 1>> -> "010101" [] x = <<1, 1, 2>> -> "010102"
                                [] x = <<1, 1, 1, 0>> -> "01010100")
    [] x = 99 -> Str("inf")
    [] x = -99 -> Str("-inf")
    [] OTHER -> Str(<<"5", "6", "7", "8", "9", "10", "11">>[x - 4])

MCScalars ==
  UNION {V("undefined", {0}), V("null", {0}), V("boolean", {0, 1}), V("exception", {1, 3}),
         V("number", {-99, 5, 8, 9, 10, 99}), V("longint", {5, 9, 11}), V("ulongint", {10}),
         V("longdouble", {5, 99}), V("atomstring", {1, 2, 3}),
         V("string", {Str(""), Str("5"), Str("A"), Str("a")}), 
         V("bsequence", {<< >>, <<0>>, <<0, 0>>, <<1, 1, 1>>, <<1, 1, 2>>, <<1, 1, 1, 0>>}),
         V("dynamic", {1}), V("native", {1, 2})}

n5 == One("number", 5)
i9 == One("longint", 9)
bytes1 == One("bsequence", <<1, 1, 1>>)
bytes2 == One("bsequence", <<1, 1, 1, 0>>)
KA == Str("A")
Ka == Str("a")
MCContainers ==
  UNION {V("array", {<< >>, <<n5>>, <<i9>>, <<n5, i9>>}),
         V("tuple", {<<One("longint", 5)>>, <<n5, n5>>}),
         V("set", {<<n5>>, <<i9, n5>>}),
         V("object", {<< >>, <<<<KA, n5>>>>, <<<<KA, i9>>>>, <<<<KA, n5>>, <<Ka, i9>>>>,
                      <<<<KA, bytes1>>>>, <<<<KA, bytes2>>>>, <<<<KA, One("bsequence", <<0>>)>>>>,
                      <<<<Ka, n5>>>>, <<<<Ka, One("array", <<n5>>)>>>>})}
(* Digits spell numbers; the native variant 2 has no getter.               *)
MCStringNumber == [i \in 1 .. Len(Strings) |->
  CASE Strings[i] \in {"10", "11", "5", "8", "9"} ->
         (CHOOSE n \in 5 .. 11 : <<"5", "6", "7", "8", "9", "10", "11">>[n - 4] = Strings[i])
    [] Strings[i] = "010101" -> 10101 [] Strings[i] = "01010100" -> 1010100
    [] Strings[i] = "010102" -> 10102
    [] Strings[i] = "inf" -> 99 [] Strings[i] = "-inf" -> -99 [] OTHER -> 0]
MCRounded == [n \in {11} |-> 10]
MCGetter == <<One("string", Str("5")), Invalid>>
MCUniqueKeys == [by_value |-> << >>, by_A |-> <<KA>>, by_a_A |-> <<Ka, KA>>]
MCValue == MCScalars \cup MCContainers \cup {Invalid}
MCSpell ==
  [t \in {v.type : v \in MCScalars} |->
     [x \in {v.x : v \in {u \in MCScalars : u.type = t}} |-> MCSpelled(t, x)]]
=============================================================================
