----------------------------- MODULE MCEquality -----------------------------
(* Instances of Equality for TLC.                                          *)
EXTENDS Equality

\* Two numbers, as what tells them apart, and the bytes they begin with.
LowBytes == [n \in {"1.0", "0.1"} |-> IF n = "0.1" THEN 154 ELSE 0]

\* "a0" and "s0" have a null character after the first one.  The hashes of "a"
\* and "b" are the same number.
Texts == {"a", "b", "a0", "s", "s0"}
CStrings == [t \in Texts |-> CASE t = "a0" -> "a" [] t = "s0" -> "s" [] OTHER -> t]
Hashes == [t \in Texts |-> CASE t = "a0" -> 1 [] t = "s" -> 2 [] t = "s0" -> 3 [] OTHER -> 0]

Num(n) == [kind |-> "num", number |-> n]
Str(s) == [kind |-> "str", string |-> s]
Arr(items) == [kind |-> "arr", items |-> items]
Obj(entries) == [kind |-> "obj", entries |-> entries]
Field(k, v, id) == [key |-> k, value |-> v, id |-> id]

Leaves == {Num("1.0"), Num("0.1"), Str("s"), Str("s0"), [kind |-> "null"],
           [kind |-> "bool", boolean |-> TRUE], [kind |-> "bool", boolean |-> FALSE]}

FewLeaves == {Num("1.0"), Num("0.1")}

\* All arrays of at most two elements of S.
Arrays(S) == {Arr(<<>>)} \cup {Arr(<<x>>) : x \in S} \cup {Arr(<<x, y>>) : x, y \in S}

\* All objects of at most two fields, under different keys, in either order of
\* the slots.
Objects(S) ==
  {Obj(<<>>)} \cup {Obj(<<Field(k, x, 1)>>) : k \in {"a", "b"}, x \in S}
    \cup {Obj(<<Field(k, x, 1), Field(IF k = "a" THEN "b" ELSE "a", y, 2)>>) :
            k \in {"a", "b"}, x, y \in S}

Flat == Arrays(FewLeaves) \cup Objects(FewLeaves)

\* Objects with a null character inside a key, alone or in an array.
NullInside ==
  LET objects == {Obj(<<Field("a0", Num("1.0"), 1)>>),
                  Obj(<<Field("a0", Num("1.0"), 1), Field("a", Num("0.1"), 2)>>),
                  Obj(<<Field("a0", Num("1.0"), 1), Field("b", Num("0.1"), 2)>>)}
  IN  objects \cup {Arr(<<o>>) : o \in objects} \cup {Arr(<<Str("s")>>), Arr(<<Str("s0")>>)}

DistinctKeys ==
  Leaves \cup Flat \cup Arrays({Num("1.0"), Obj(<<Field("a", Num("1.0"), 1)>>),
                                Arr(<<Num("0.1")>>), Arr(<<>>)})
         \cup Objects({Num("1.0"), Arr(<<Num("1.0")>>), Obj(<<>>)}) \cup NullInside

SmallObjects == FewLeaves \cup Objects(FewLeaves)
=============================================================================
