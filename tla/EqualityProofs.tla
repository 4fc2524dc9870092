---------------------------- MODULE EqualityProofs ----------------------------
(***************************************************************************)
(* Theorems about json_are_equal: the answers that it gives are right, for *)
(* values of any size and depth.                                           *)
(*                                                                         *)
(* `Equal` is a recursive function over pairs of values.  That there is    *)
(* one is shown without an induction: the pairs of all relations that are  *)
(* closed under the conditions of its definition satisfy them.             *)
(***************************************************************************)
EXTENDS Equality, FiniteSetTheorems, SequenceTheorems, WellFoundedInduction, TLAPS

-----------------------------------------------------------------------------
(* What equality means.                                                    *)

LEMMA NullIsNoValue == \A v \in Value : v # Null /\ v.kind # Null.kind /\ v.kind # "NULL"
<1> SUFFICES ASSUME NEW v \in Value PROVE v # Null /\ v.kind # Null.kind /\ v.kind # "NULL"
  OBVIOUS
<1>0. v = [kind |-> "null"] => v.kind = "null"
  OBVIOUS
<1>1. v.kind \in {"str", "num", "bool", "null", "arr", "obj"}
  BY Zenon, <1>0, ValueAssumption
<1>2. Null.kind = "NULL"
  BY DEF Null
<1>3. v.kind # "NULL"
  BY Zenon, <1>1
<1> QED BY Zenon, <1>2, <1>3

\* What is in a value.
LEMMA Items_ ==
  ASSUME NEW v \in Value
  PROVE  /\ v.kind = "arr" => v.items \in Seq(Value)
         /\ v.kind = "obj" => /\ Len(v.entries) \in Nat
                              /\ \A n \in 1 .. Len(v.entries) :
                                   /\ v.entries[n].key \in Text /\ v.entries[n].value \in Value
                                   /\ v.entries[n].id \in Nat
<1>1. v = [kind |-> "null"] => v.kind = "null"
  OBVIOUS
<1>2. v.kind = "arr" => v.items \in Seq(Value)
  BY Zenon, <1>1, ValueAssumption
<1>3. v.kind = "obj" => /\ Len(v.entries) \in Nat
                        /\ \A n \in 1 .. Len(v.entries) :
                                   /\ v.entries[n].key \in Text /\ v.entries[n].value \in Value
                                   /\ v.entries[n].id \in Nat
  BY Zenon, <1>1, ValueAssumption
<1> QED BY <1>2, <1>3

\* The conditions that the pair p is equal under, when those in R are.
SameArrays(R, l, r) ==
  Len(l.items) = Len(r.items) /\ \A j \in 1 .. Len(l.items) : <<l.items[j], r.items[j]>> \in R
PairedOff(R, l, r, q) ==
  /\ \A j, k \in 1 .. Len(l.entries) : j # k => q[j] # q[k]
  /\ \A j \in 1 .. Len(l.entries) : /\ l.entries[j].key = r.entries[q[j]].key
                                    /\ <<l.entries[j].value, r.entries[q[j]].value>> \in R
SameObjects(R, l, r) ==
  /\ Len(l.entries) = Len(r.entries)
  /\ \E q \in [1 .. Len(l.entries) -> 1 .. Len(l.entries)] : PairedOff(R, l, r, q)
Same(R, p) ==
  /\ p[1].kind = p[2].kind
  /\ p[1].kind = "arr" => SameArrays(R, p[1], p[2])
  /\ p[1].kind = "obj" => SameObjects(R, p[1], p[2])
  /\ p[1].kind \notin {"arr", "obj"} => p[1] = p[2]

LEMMA SameGrows ==
  ASSUME NEW R, NEW S, R \subseteq S, NEW p, Same(R, p)
  PROVE  Same(S, p)
<1>1. SameArrays(R, p[1], p[2]) => SameArrays(S, p[1], p[2])
  BY DEF SameArrays
<1>2. SameObjects(R, p[1], p[2]) => SameObjects(S, p[1], p[2])
  <2> SUFFICES ASSUME SameObjects(R, p[1], p[2]) PROVE SameObjects(S, p[1], p[2])
    OBVIOUS
  <2>1. PICK q \in [1 .. Len(p[1].entries) -> 1 .. Len(p[1].entries)] : PairedOff(R, p[1], p[2], q)
    BY DEF SameObjects
  <2>2. PairedOff(S, p[1], p[2], q)
    BY Zenon, <2>1 DEF PairedOff
  <2> QED BY Zenon, <2>2 DEF SameObjects
<1> QED BY Zenon, <1>1, <1>2 DEF Same

\* The greatest relation that satisfies the conditions.
Equals == UNION {R \in SUBSET Pairs : \A p \in R : Same(R, p)}

LEMMA EqualsIs == Equals \subseteq Pairs /\ \A p \in Pairs : p \in Equals <=> Same(Equals, p)
<1>1. Equals \subseteq Pairs
  BY DEF Equals
<1>2. ASSUME NEW p \in Equals PROVE Same(Equals, p)
  <2>1. PICK R \in SUBSET Pairs : p \in R /\ \A q \in R : Same(R, q)
    BY DEF Equals
  <2>2. R \subseteq Equals
    BY <2>1 DEF Equals
  <2> QED BY <2>1, <2>2, SameGrows
<1>3. ASSUME NEW p \in Pairs, Same(Equals, p) PROVE p \in Equals
  <2> DEFINE R == Equals \cup {p}
  <2>1. R \subseteq Pairs
    BY <1>1
  <2>2. ASSUME NEW q \in R PROVE Same(R, q)
    <3>1. Same(Equals, q)
      BY <1>2, <1>3
    <3>2. Equals \subseteq R
      OBVIOUS
    <3> HIDE DEF R
    <3> QED BY <3>1, <3>2, SameGrows
  <2> QED BY <2>1, <2>2 DEF Equals
<1> QED BY <1>1, <1>2, <1>3

\* The definition of Equal, with f in its place.
Conditions(f, p) ==
  LET l == p[1]
      r == p[2]
  IN  /\ l.kind = r.kind
      /\ CASE l.kind = "arr" -> /\ Len(l.items) = Len(r.items)
                                /\ \A j \in 1..Len(l.items) : f[<<l.items[j], r.items[j]>>]
           [] l.kind = "obj" ->
                /\ Len(l.entries) = Len(r.entries)
                /\ \E q \in [1..Len(l.entries) -> 1..Len(l.entries)] :
                     /\ \A j, k \in 1..Len(l.entries) : j # k => q[j] # q[k]
                     /\ \A j \in 1..Len(l.entries) :
                          /\ l.entries[j].key = r.entries[q[j]].key
                          /\ f[<<l.entries[j].value, r.entries[q[j]].value>>]
           [] OTHER -> l = r

LEMMA PartsArePairs ==
  ASSUME NEW p \in Pairs, p[1].kind = p[2].kind
  PROVE  /\ p[1].kind = "arr" /\ Len(p[1].items) = Len(p[2].items) =>
              \A j \in 1 .. Len(p[1].items) : <<p[1].items[j], p[2].items[j]>> \in Pairs
         /\ p[1].kind = "obj" /\ Len(p[1].entries) = Len(p[2].entries) =>
              \A j, k \in 1 .. Len(p[1].entries) :
                <<p[1].entries[j].value, p[2].entries[k].value>> \in Pairs
<1> DEFINE l == p[1]
           r == p[2]
<1>1. l \in Value \cup {Null} /\ r \in Value \cup {Null}
  BY DEF Pairs
<1>2. Null.kind # "arr" /\ Null.kind # "obj"
  BY DEF Null
<1>3. ASSUME l.kind = "arr", Len(l.items) = Len(r.items), NEW j \in 1 .. Len(l.items)
      PROVE  <<l.items[j], r.items[j]>> \in Pairs
  <2>1. l \in Value /\ r \in Value
    BY <1>1, <1>2, <1>3
  <2>2. l.items \in Seq(Value) /\ r.items \in Seq(Value)
    BY Zenon, <2>1, <1>3, Items_
  <2>3. l.items[j] \in Value /\ r.items[j] \in Value
    BY <1>3, <2>2
  <2> QED BY <2>3 DEF Pairs
<1>4. ASSUME l.kind = "obj", Len(l.entries) = Len(r.entries),
             NEW j \in 1 .. Len(l.entries), NEW k \in 1 .. Len(l.entries)
      PROVE  <<l.entries[j].value, r.entries[k].value>> \in Pairs
  <2>1. l \in Value /\ r \in Value
    BY <1>1, <1>2, <1>4
  <2>2. l.entries[j].value \in Value /\ r.entries[k].value \in Value
    BY Zenon, <1>4, <2>1, Items_
  <2> QED BY <2>2 DEF Pairs
<1> QED BY <1>3, <1>4

LEMMA SameTruth == \A b, c \in BOOLEAN : (b <=> c) => b = c
BY Zenon

LEMMA ConditionsAre ==
  ASSUME NEW R, NEW p \in Pairs
  PROVE  Conditions([q \in Pairs |-> IF q \in R THEN TRUE ELSE FALSE], p) <=> Same(R, p)
<1> DEFINE f == [q \in Pairs |-> IF q \in R THEN TRUE ELSE FALSE]
           l == p[1]
           r == p[2]
<1>1. ASSUME NEW q \in Pairs PROVE f[q] <=> q \in R
  OBVIOUS
<1> HIDE DEF f
<1>2. CASE l.kind # r.kind
  BY <1>2 DEF Conditions, Same
<1>3. CASE l.kind = r.kind /\ l.kind = "arr"
  <2>1. Len(l.items) = Len(r.items) =>
          \A j \in 1 .. Len(l.items) : f[<<l.items[j], r.items[j]>>] <=> <<l.items[j], r.items[j]>> \in R
    BY Zenon, <1>1, <1>3, PartsArePairs
  <2>2. Conditions(f, p) <=> /\ Len(l.items) = Len(r.items)
                             /\ \A j \in 1 .. Len(l.items) : f[<<l.items[j], r.items[j]>>]
    BY Zenon, <1>3 DEF Conditions
  <2>3. Same(R, p) <=> SameArrays(R, l, r)
    BY Zenon, <1>3 DEF Same
  <2> QED BY Zenon, <2>1, <2>2, <2>3 DEF SameArrays, f
<1>4. CASE l.kind = r.kind /\ l.kind = "obj"
  <2> DEFINE n == Len(l.entries)
             Off(q) == /\ \A j, k \in 1..Len(l.entries) : j # k => q[j] # q[k]
                       /\ \A j \in 1..Len(l.entries) :
                            /\ l.entries[j].key = r.entries[q[j]].key
                            /\ f[<<l.entries[j].value, r.entries[q[j]].value>>]
  <2>1. Len(l.entries) = Len(r.entries) =>
          \A j, k \in 1 .. n : f[<<l.entries[j].value, r.entries[k].value>>]
                                 <=> <<l.entries[j].value, r.entries[k].value>> \in R
    BY Zenon, <1>1, <1>4, PartsArePairs
  <2>2. Conditions(f, p) <=> Len(l.entries) = Len(r.entries) /\ \E q \in [1 .. n -> 1 .. n] : Off(q)
    BY Zenon, <1>4 DEF Conditions
  <2>3. Same(R, p) <=> SameObjects(R, l, r)
    BY Zenon, <1>4 DEF Same
  <2>4. ASSUME Len(l.entries) = Len(r.entries), NEW q \in [1 .. n -> 1 .. n]
        PROVE  Off(q) <=> PairedOff(R, l, r, q)
    <3>1. \A j \in 1 .. n : q[j] \in 1 .. n
      BY Zenon
    <3>2. \A j \in 1 .. n : f[<<l.entries[j].value, r.entries[q[j]].value>>]
                              <=> <<l.entries[j].value, r.entries[q[j]].value>> \in R
      BY Zenon, <2>1, <2>4, <3>1
    <3> QED BY Zenon, <3>2 DEF PairedOff
  <2> HIDE DEF Off
  <2> QED BY Zenon, <2>2, <2>3, <2>4 DEF SameObjects, f
<1>5. CASE l.kind = r.kind /\ l.kind \notin {"arr", "obj"}
  <2>1. Conditions(f, p) <=> l = r
    BY Zenon, <1>5 DEF Conditions
  <2>2. Same(R, p) <=> l = r
    BY Zenon, <1>5 DEF Same
  <2> QED BY Zenon, <2>1, <2>2 DEF f
<1> QED BY <1>2, <1>3, <1>4, <1>5 DEF f

EqualPairs == {p \in Pairs : Equal[p]}

LEMMA EqualIs == \A p \in Pairs : Equal[p] <=> Same(EqualPairs, p)
<1> DEFINE f == [q \in Pairs |-> IF q \in Equals THEN TRUE ELSE FALSE]
<1>1. \A g, p : Conditions(g, p) \in BOOLEAN
  BY Zenon DEF Conditions
<1>2. ASSUME NEW p \in Pairs PROVE f[p] = Conditions(f, p)
  <2>1. Conditions(f, p) <=> Same(Equals, p)
    BY ConditionsAre
  <2>2. p \in Equals <=> Same(Equals, p)
    BY EqualsIs
  <2>3. f[p] = IF p \in Equals THEN TRUE ELSE FALSE
    OBVIOUS
  <2>4. f[p] \in BOOLEAN /\ (f[p] <=> p \in Equals)
    BY <2>3
  <2> HIDE DEF f
  <2>5. Conditions(f, p) \in BOOLEAN /\ (f[p] <=> Conditions(f, p))
    BY <1>1, <2>1, <2>2, <2>4
  <2> QED BY <2>4, <2>5, SameTruth
<1>3. f = [p \in Pairs |-> Conditions(f, p)]
  <2>1. f = [p \in Pairs |-> f[p]]
    OBVIOUS
  <2> HIDE DEF f
  <2> QED BY <1>2, <2>1
<1> HIDE DEF f
<1>4. Equal = CHOOSE g : g = [p \in Pairs |-> Conditions(g, p)]
  BY DEF Equal, Conditions
<1>5. Equal = [p \in Pairs |-> Conditions(Equal, p)]
  BY Zenon, <1>3, <1>4
<1>6. \A p \in Pairs : Equal[p] = Conditions(Equal, p)
  BY Zenon, <1>5
<1> DEFINE R == EqualPairs
<1>7. [p \in Pairs |-> IF p \in R THEN TRUE ELSE FALSE] = Equal
  <2>1. ASSUME NEW p \in Pairs PROVE (IF p \in R THEN TRUE ELSE FALSE) = Equal[p]
    <3>1. Equal[p] \in BOOLEAN
      BY Zenon, <1>1, <1>6
    <3>2. p \in R <=> Equal[p]
      BY Zenon DEF EqualPairs
    <3> HIDE DEF R
    <3> QED BY <3>1, <3>2
  <2>2. Equal = [p \in Pairs |-> Equal[p]]
    BY <1>5
  <2> HIDE DEF R
  <2> QED BY <2>1, <2>2
<1>8. ASSUME NEW p \in Pairs PROVE p \in R <=> Same(R, p)
  <2>1. Conditions([q \in Pairs |-> IF q \in R THEN TRUE ELSE FALSE], p) <=> Same(R, p)
    BY ConditionsAre
  <2>2. Equal[p] <=> Same(R, p)
    BY Zenon, <1>6, <1>7, <2>1
  <2> QED BY <2>2 DEF EqualPairs
<1> QED BY <1>8 DEF EqualPairs

\* A pair of values with something different in it is different.
LEMMA DifferentKinds == \A p \in Pairs : p[1].kind # p[2].kind => ~Equal[p]
BY Zenon, EqualIs DEF Same

LEMMA DifferentElement ==
  ASSUME NEW p \in Pairs, p[1].kind = "arr", Len(p[1].items) = Len(p[2].items),
         NEW j \in 1 .. Len(p[1].items), <<p[1].items[j], p[2].items[j]>> \in Pairs,
         ~Equal[<<p[1].items[j], p[2].items[j]>>]
  PROVE  ~Equal[p]
BY Zenon, EqualIs DEF Same, SameArrays, EqualPairs

LEMMA MissingKey ==
  ASSUME NEW p \in Pairs, p[1].kind = "obj", NEW j \in 1 .. Len(p[1].entries),
         p[1].entries[j].key \notin KeysOf(p[2])
  PROVE  ~Equal[p]
<1> SUFFICES ASSUME Equal[p] PROVE FALSE
  OBVIOUS
<1>1. SameObjects(EqualPairs, p[1], p[2])
  BY Zenon, EqualIs DEF Same
<1>2. PICK q \in [1 .. Len(p[1].entries) -> 1 .. Len(p[1].entries)] :
        PairedOff(EqualPairs, p[1], p[2], q)
  BY Zenon, <1>1 DEF SameObjects
<1>3. q[j] \in 1 .. Len(p[2].entries)
  BY Zenon, <1>1 DEF SameObjects
<1>4. p[1].entries[j].key = p[2].entries[q[j]].key
  BY Zenon, <1>2 DEF PairedOff
<1> QED BY Zenon, <1>3, <1>4 DEF KeysOf

LEMMA DifferentSizes ==
  ASSUME NEW p \in Pairs, p[1].kind = p[2].kind, Container(p[1]), ~SameSize(p[1], p[2])
  PROVE  ~Equal[p]
<1> SUFFICES ASSUME Equal[p] PROVE FALSE
  OBVIOUS
<1> DEFINE l == p[1]
           r == p[2]
<1>1. CASE l.kind = "arr"
  <2>1. Len(l.items) = Len(r.items)
    BY Zenon, <1>1, EqualIs DEF Same, SameArrays
  <2>2. "arr" # "obj"
    OBVIOUS
  <2> QED BY Zenon, <1>1, <2>1, <2>2 DEF SameSize, Items
<1>2. CASE l.kind = "obj"
  <2> DEFINE D == 1 .. Len(l.entries)
  <2>1. SameObjects(EqualPairs, l, r)
    BY Zenon, <1>2, EqualIs DEF Same
  <2>2. PICK q \in [D -> D] : PairedOff(EqualPairs, l, r, q)
    BY Zenon, <2>1 DEF SameObjects
  <2>3. Len(l.entries) = Len(r.entries)
    BY Zenon, <2>1 DEF SameObjects
  <2>4. Len(l.entries) \in Nat
    <3>1. l \in Value
      <4>1. Null.kind # "obj"
        BY DEF Null
      <4> QED BY Zenon, <1>2, <4>1 DEF Pairs
    <3> QED BY Zenon, <1>2, <3>1, Items_
  <2>5. IsFiniteSet(D)
    <3>1. \A n \in Nat : IsFiniteSet(1 .. n)
      BY FS_Interval
    <3> QED BY Zenon, <2>4, <3>1
  <2>6. \A j, k \in D : q[j] = q[k] => j = k
    BY Zenon, <2>2 DEF PairedOff
  <2>7. q \in Injection(D, D)
    BY Zenon, <2>6 DEF Injection, IsInjective
  <2>8. q \in Surjection(D, D)
    BY <2>5, <2>7, FS_Injection
  <2>9. \A k \in D : \E j \in D : q[j] = k
    BY Zenon, <2>8 DEF Surjection
  <2>10. \A j \in D : l.entries[j].key = r.entries[q[j]].key /\ q[j] \in D
    BY Zenon, <2>2 DEF PairedOff
  <2> HIDE DEF D
  <2>11. {l.entries[j].key : j \in D} = {r.entries[j].key : j \in D}
    <3>1. ASSUME NEW j \in D PROVE l.entries[j].key \in {r.entries[k].key : k \in D}
      BY Zenon, <2>10
    <3>2. ASSUME NEW k \in D PROVE r.entries[k].key \in {l.entries[j].key : j \in D}
      <4>1. PICK j \in D : q[j] = k
        BY Zenon, <2>9
      <4> QED BY Zenon, <2>10, <4>1
    <3> QED BY Zenon, <3>1, <3>2
  <2>12. KeysOf(l) = KeysOf(r)
    BY Zenon, <2>3, <2>11 DEF KeysOf, D
  <2>13. "arr" # "obj"
    OBVIOUS
  <2>14. Items(l) = l.entries /\ Items(r) = r.entries
    BY Zenon, <1>2, <2>13 DEF Items
  <2> QED BY Zenon, <2>3, <2>12, <2>14 DEF SameSize, UniqueSize
<1> QED BY <1>1, <1>2 DEF Container

LEMMA Scalars ==
  ASSUME NEW p \in Pairs, p[1] \in Value, p[2] \in Value, p[1].kind = p[2].kind, ~Container(p[1])
  PROVE  /\ Equal[p] <=> p[1] = p[2]
         /\ p[1] = p[2] => SameScalar(p[1], p[2])
<1>1. p[1].kind # "arr" /\ p[1].kind # "obj"
  BY DEF Container
<1>2. Equal[p] <=> p[1] = p[2]
  BY Zenon, <1>1, EqualIs DEF Same
<1>3. p[1].kind \in {"str", "num", "bool", "null"}
  <2>1. ASSUME NEW v \in Value PROVE v.kind \in {"str", "num", "bool", "null", "arr", "obj"}
    <3>1. v = [kind |-> "null"] => v.kind = "null"
      OBVIOUS
    <3> QED BY Zenon, <3>1, ValueAssumption
  <2> QED BY <1>1, <2>1
<1>4. p[1] = p[2] => SameScalar(p[1], p[2])
  BY Zenon, <1>3 DEF SameScalar
<1> QED BY <1>2, <1>4

-----------------------------------------------------------------------------
(* Values in which no string or key has a null character inside.  There is  *)
(* one function that the definition of Plain defines for the same reason.   *)

PlainIn(R, v) ==
  /\ v.kind = "str" => CString[v.string] = v.string
  /\ v.kind = "arr" => \A j \in 1 .. Len(v.items) : v.items[j] \in R
  /\ v.kind = "obj" => \A j \in 1 .. Len(v.entries) : /\ CString[v.entries[j].key] = v.entries[j].key
                                                     /\ v.entries[j].value \in R

\* The greatest set that is closed under the conditions.
Plains == UNION {R \in SUBSET (Value \cup {Null}) : \A v \in R : PlainIn(R, v)}

LEMMA PlainsAre == \A v \in Value \cup {Null} : v \in Plains <=> PlainIn(Plains, v)
<1>1. ASSUME NEW R, NEW S, R \subseteq S, NEW v, PlainIn(R, v) PROVE PlainIn(S, v)
  BY <1>1 DEF PlainIn
<1>2. ASSUME NEW v \in Plains PROVE PlainIn(Plains, v)
  <2>1. PICK R \in SUBSET (Value \cup {Null}) : v \in R /\ \A u \in R : PlainIn(R, u)
    BY DEF Plains
  <2>2. R \subseteq Plains
    BY <2>1 DEF Plains
  <2> QED BY <1>1, <2>1, <2>2
<1>3. ASSUME NEW v \in Value \cup {Null}, PlainIn(Plains, v) PROVE v \in Plains
  <2> DEFINE R == Plains \cup {v}
  <2>1. R \subseteq Value \cup {Null}
    BY DEF Plains
  <2>2. ASSUME NEW u \in R PROVE PlainIn(R, u)
    <3>1. PlainIn(Plains, u)
      BY <1>2, <1>3
    <3>2. Plains \subseteq R
      OBVIOUS
    <3> HIDE DEF R
    <3> QED BY <1>1, <3>1, <3>2
  <2> QED BY <2>1, <2>2 DEF Plains
<1> QED BY <1>2, <1>3

\* The definition of Plain, with f in its place.
PlainWhen(f, v) ==
  /\ v.kind = "str" => CString[v.string] = v.string
  /\ v.kind = "arr" => \A j \in 1..Len(v.items) : f[v.items[j]]
  /\ v.kind = "obj" => \A j \in 1..Len(v.entries) :
                         /\ CString[v.entries[j].key] = v.entries[j].key
                         /\ f[v.entries[j].value]

LEMMA PlainWhenIs ==
  ASSUME NEW v \in Value \cup {Null}, NEW f, \A u \in Value : f[u] <=> u \in Plains
  PROVE  PlainWhen(f, v) <=> PlainIn(Plains, v)
<1>1. Null.kind # "arr" /\ Null.kind # "obj"
  BY DEF Null
<1>2. "str" # "arr" /\ "str" # "obj" /\ "arr" # "obj"
  OBVIOUS
<1>3. CASE v.kind = "str"
  BY Zenon, <1>2, <1>3 DEF PlainWhen, PlainIn
<1>4. CASE v.kind = "arr"
  <2>1. v.items \in Seq(Value)
    BY Zenon, <1>1, <1>4, Items_
  <2>2. \A j \in 1 .. Len(v.items) : f[v.items[j]] <=> v.items[j] \in Plains
    BY <2>1
  <2> QED BY Zenon, <1>2, <1>4, <2>2 DEF PlainWhen, PlainIn
<1>5. CASE v.kind = "obj"
  <2>1. \A j \in 1 .. Len(v.entries) : v.entries[j].value \in Value
    BY Zenon, <1>1, <1>5, Items_
  <2> QED BY Zenon, <1>2, <1>5, <2>1 DEF PlainWhen, PlainIn
<1>6. CASE v.kind \notin {"str", "arr", "obj"}
  BY Zenon, <1>6 DEF PlainWhen, PlainIn
<1> QED BY <1>3, <1>4, <1>5, <1>6

LEMMA PlainIs == \A v \in Value \cup {Null} : Plain[v] <=> PlainWhen(Plain, v)
<1> DEFINE U == Value \cup {Null}
           f == [v \in U |-> IF v \in Plains THEN TRUE ELSE FALSE]
<1>1. \A v \in U : f[v] \in BOOLEAN /\ (f[v] <=> v \in Plains)
  OBVIOUS
<1>2. \A g, v : PlainWhen(g, v) \in BOOLEAN
  BY Zenon DEF PlainWhen
<1>3. f = [v \in U |-> PlainWhen(f, v)]
  <2>1. f = [v \in U |-> f[v]]
    OBVIOUS
  <2> HIDE DEF f
  <2>2. ASSUME NEW v \in U PROVE f[v] = PlainWhen(f, v)
    <3>1. PlainWhen(f, v) <=> PlainIn(Plains, v)
      BY Zenon, <1>1, PlainWhenIs
    <3>2. f[v] <=> PlainWhen(f, v)
      BY Zenon, <1>1, <3>1, PlainsAre
    <3>3. f[v] \in BOOLEAN /\ PlainWhen(f, v) \in BOOLEAN
      BY Zenon, <1>1, <1>2
    <3> QED BY Zenon, <3>2, <3>3, SameTruth
  <2> HIDE DEF U
  <2> QED BY <2>1, <2>2
<1> HIDE DEF f
<1>4. Plain = CHOOSE g : g = [v \in Value \cup {Null} |-> PlainWhen(g, v)]
  BY DEF Plain, PlainWhen
<1>5. Plain = [v \in U |-> PlainWhen(Plain, v)]
  BY Zenon, <1>3, <1>4
<1>6. \A v \in U : Plain[v] = PlainWhen(Plain, v)
  BY Zenon, <1>5
<1> QED BY Zenon, <1>6

\* What is in such a value is such a value.
LEMMA PlainParts ==
  ASSUME NEW v \in Value, Plain[v]
  PROVE  /\ v.kind = "str" => CString[v.string] = v.string
         /\ v.kind = "arr" => \A j \in 1 .. Len(v.items) : Plain[v.items[j]]
         /\ v.kind = "obj" => \A j \in 1 .. Len(v.entries) :
              CString[v.entries[j].key] = v.entries[j].key /\ Plain[v.entries[j].value]
<1>1. PlainWhen(Plain, v)
  BY Zenon, PlainIs
<1>2. "str" # "arr" /\ "str" # "obj" /\ "arr" # "obj"
  OBVIOUS
<1> QED BY Zenon, <1>1, <1>2 DEF PlainWhen

-----------------------------------------------------------------------------
(* The entry that a lookup finds.                                          *)

LEMMA LeastNatural ==
  ASSUME NEW S, S \subseteq Nat, S # {}
  PROVE  \E m \in S : \A k \in S : m <= k
<1>1. PICK m \in S : \A k \in S : ~(<<k, m>> \in OpToRel(<, Nat))
  BY NatLessThanWellFounded, WFMin
<1>2. \A k \in S : ~(k < m)
  BY <1>1 DEF OpToRel
<1> QED BY <1>2

\* Of numbers 1 to n those in U have one with the greatest id.
LEMMA GreatestId ==
  ASSUME NEW n \in Nat, NEW U, U \subseteq 1 .. n, U # {}, NEW id, \A k \in U : id[k] \in Nat
  PROVE  \E k \in U : \A j \in U : id[j] <= id[k]
<1> DEFINE Upto(m) == {k \in U : k <= m}
           Best(m) == \E k \in Upto(m) : \A j \in Upto(m) : id[j] <= id[k]
           S == {m \in 0 .. n : Upto(m) # {} /\ ~Best(m)}
<1>1. S = {}
  <2> SUFFICES ASSUME S # {} PROVE FALSE
    OBVIOUS
  <2>1. PICK m \in S : \A k \in S : m <= k
    <3>1. S \subseteq Nat
      OBVIOUS
    <3> HIDE DEF S
    <3> QED BY <3>1, LeastNatural
  <2>2. m \in 0 .. n /\ Upto(m) # {} /\ ~Best(m)
    OBVIOUS
  <2>3. m # 0
    <3>1. PICK k \in U : k <= m
      BY <2>2
    <3>2. k \in 1 .. n
      OBVIOUS
    <3> QED BY <3>1, <3>2
  <2>4. m - 1 \in 0 .. n /\ m - 1 \notin S
    BY <2>1, <2>2, <2>3
  <2>5. Upto(m - 1) = {} \/ Best(m - 1)
    BY <2>4
  <2>6. \A k \in U : k <= m <=> k <= m - 1 \/ k = m
    BY <2>2
  <2>7. m \in U
    <3> SUFFICES ASSUME m \notin U PROVE FALSE
      OBVIOUS
    <3>1. Upto(m) = Upto(m - 1)
      BY <2>6
    <3> QED BY <2>2, <2>5, <3>1
  <2>8. \A k \in Upto(m) : k = m \/ k \in Upto(m - 1)
    BY <2>6
  <2>9. m \in Upto(m) /\ \A k \in Upto(m - 1) : k \in Upto(m)
    BY <2>2, <2>7, <2>6
  <2>10. CASE Upto(m - 1) = {}
    <3>1. \A j \in Upto(m) : id[j] <= id[m]
      BY <2>7, <2>8, <2>10
    <3> QED BY <2>2, <2>9, <3>1
  <2>11. CASE Best(m - 1)
    <3>1. PICK k \in Upto(m - 1) : \A j \in Upto(m - 1) : id[j] <= id[k]
      BY <2>11
    <3>2. id[k] \in Nat /\ id[m] \in Nat /\ \A j \in Upto(m) : id[j] \in Nat
      BY <2>7
    <3> HIDE DEF Upto
    <3>3. CASE id[k] <= id[m]
      <4>1. \A j \in Upto(m) : id[j] <= id[m]
        <5>1. ASSUME NEW j \in Upto(m - 1) PROVE id[j] <= id[m]
          <6>1. id[j] \in Nat /\ id[j] <= id[k]
            BY <2>9, <3>1, <3>2
          <6> QED BY <3>2, <3>3, <6>1
        <5> QED BY <2>8, <3>2, <5>1
      <4> QED BY <2>2, <2>9, <4>1
    <3>4. CASE ~(id[k] <= id[m])
      <4>1. \A j \in Upto(m) : id[j] <= id[k]
        BY <2>8, <3>1, <3>2, <3>4
      <4> QED BY <2>2, <2>9, <3>1, <4>1
    <3> QED BY <3>3, <3>4
  <2> QED BY <2>5, <2>10, <2>11
<1>2. Upto(n) = U
  <2>1. \A k \in U : k \in 1 .. n
    OBVIOUS
  <2>2. \A k \in U : k <= n
    BY <2>1
  <2> QED BY <2>2
<1>3. n \in 0 .. n
  OBVIOUS
<1> QED BY <1>1, <1>2, <1>3

Has(o, s) == \E n \in 1 .. Len(o.entries) : Under(o.entries[n].key, s)

LEMMA NewestIs ==
  ASSUME NEW o \in Value, o.kind = "obj", NEW s
  PROVE  IF Has(o, s)
         THEN \E n \in 1 .. Len(o.entries) :
                Under(o.entries[n].key, s) /\ Newest(o, s) = o.entries[n].value
         ELSE Newest(o, s) = Null
<1> DEFINE under == {n \in 1 .. Len(o.entries) : Under(o.entries[n].key, s)}
           Best(n) == \A j \in under : o.entries[j].id <= o.entries[n].id
<1>1. Newest(o, s) = IF under = {} THEN Null ELSE o.entries[CHOOSE n \in under : Best(n)].value
  BY DEF Newest
<1>2. Has(o, s) <=> under # {}
  BY DEF Has
<1>3. CASE under # {}
  <2> DEFINE id == [n \in under |-> o.entries[n].id]
  <2>1. Len(o.entries) \in Nat /\ \A n \in under : o.entries[n].id \in Nat
    BY Zenon, Items_
  <2>2. under \subseteq 1 .. Len(o.entries) /\ \A n \in under : id[n] \in Nat /\ id[n] = o.entries[n].id
    BY <2>1
  <2> HIDE DEF under, id
  <2>3. PICK n \in under : \A j \in under : id[j] <= id[n]
    BY <1>3, <2>1, <2>2, GreatestId
  <2>4. Best(n)
    BY <2>2, <2>3
  <2> HIDE DEF Best
  <2>5. (CHOOSE m \in under : Best(m)) \in under
    BY Zenon, <2>3, <2>4
  <2> DEFINE m == CHOOSE m \in under : Best(m)
  <2>6. m \in 1 .. Len(o.entries) /\ Under(o.entries[m].key, s)
    BY Zenon, <2>5 DEF under
  <2> HIDE DEF m
  <2>7. Newest(o, s) = o.entries[m].value
    BY Zenon, <1>1, <1>3 DEF m
  <2> QED BY Zenon, <1>2, <1>3, <2>6, <2>7
<1> HIDE DEF under, Best
<1> QED BY Zenon, <1>1, <1>2, <1>3

\* Without null characters an entry is found under its own key only.
LEMMA PlainUnder ==
  ASSUME NEW k, NEW c, CString[k] = k, CString[c] = c
  PROVE  Under(c, CString[k]) <=> c = k
BY Zenon DEF Under

\* What the loop of f compares.
FrameOK(f) ==
  /\ f.l \in Value /\ f.r \in Value
  /\ Container(f.l) /\ f.l.kind = f.r.kind /\ SameSize(f.l, f.r)

LEMMA PairIs ==
  ASSUME NEW f, FrameOK(f), f.i \in 1 .. Len(Items(f.l))
  PROVE  /\ Pair(f) \in Pairs /\ Pair(f)[1] \in Value
         /\ <<f.l, f.r>> \in Pairs
         /\ Pair(f)[2] # Null => Pair(f)[2] \in Value
         /\ f.l.kind = "arr" /\ ~Equal[Pair(f)] => ~Equal[<<f.l, f.r>>]
<1> DEFINE l == f.l
           r == f.r
           i == f.i
<1>1. l \in Value /\ r \in Value /\ l.kind = r.kind
  BY DEF FrameOK
<1>2. <<l, r>> \in Pairs
  BY <1>1 DEF Pairs
<1>3. Len(Items(l)) = Len(Items(r))
  BY DEF FrameOK, SameSize
<1>n. "arr" # "obj"
  OBVIOUS
<1>4. CASE l.kind = "arr"
  <2>1. Items(l) = l.items /\ Items(r) = r.items
    BY Zenon, <1>1, <1>4 DEF Items
  <2>2. l.items \in Seq(Value) /\ r.items \in Seq(Value)
    BY Zenon, <1>1, <1>4, Items_
  <2>3. l.items[i] \in Value /\ r.items[i] \in Value
    BY <1>3, <2>1, <2>2
  <2>4. Pair(f) = <<l.items[i], r.items[i]>>
    BY Zenon, <1>4 DEF Pair
  <2>5. r.items[i] # Null
    BY Zenon, <2>3, NullIsNoValue
  <2>6. Pair(f) \in Pairs
    BY <2>3, <2>4 DEF Pairs
  <2>7. Pair(f)[1] = l.items[i] /\ Pair(f)[2] = r.items[i]
    BY <2>4
  <2>8. ~Equal[Pair(f)] => ~Equal[<<l, r>>]
    <3> DEFINE p == <<l, r>>
    <3>1. p[1] = l /\ p[2] = r /\ p \in Pairs
      BY <1>2
    <3>2. i \in 1 .. Len(l.items)
      BY <2>1
    <3> HIDE DEF p
    <3> QED BY Zenon, <1>3, <1>4, <2>1, <2>4, <2>6, <3>1, <3>2, DifferentElement DEF p
  <2> QED BY Zenon, <1>2, <2>3, <2>5, <2>6, <2>7, <2>8
<1>5. CASE l.kind = "obj"
  <2> DEFINE s == CString[l.entries[i].key]
  <2>1. Items(l) = l.entries /\ Items(r) = r.entries
    BY Zenon, <1>1, <1>5, <1>n DEF Items
  <2>2. l.entries[i].value \in Value /\ i \in 1 .. Len(l.entries)
    BY Zenon, <1>1, <1>5, <2>1, Items_
  <2>3. Pair(f) = <<l.entries[i].value, Newest(r, s)>>
    BY Zenon, <1>5, <1>n DEF Pair
  <2>4. Has(r, s) => Newest(r, s) \in Value
    <3>1. \A n \in 1 .. Len(r.entries) : r.entries[n].value \in Value
      BY Zenon, <1>1, <1>5, Items_
    <3> QED BY Zenon, <1>1, <1>5, <3>1, NewestIs
  <2>5. ~Has(r, s) => Newest(r, s) = Null
    BY Zenon, <1>1, <1>5, NewestIs
  <2>6. Pair(f)[1] = l.entries[i].value /\ Pair(f)[2] = Newest(r, s)
    BY <2>3
  <2>7. Pair(f) \in Pairs
    BY <2>2, <2>3, <2>4, <2>5 DEF Pairs
  <2> HIDE DEF s
  <2> QED BY Zenon, <1>2, <1>5, <1>n, <2>2, <2>4, <2>5, <2>6, <2>7
<1> QED BY <1>4, <1>5 DEF FrameOK, Container

PlainFrame(f) == Plain[f.l] /\ Plain[f.r]

\* The lookup of a key without a null character inside.
LEMMA PlainNewest ==
  ASSUME NEW l \in Value, NEW r \in Value, l.kind = "obj", r.kind = "obj", Plain[l], Plain[r],
         NEW j \in 1 .. Len(l.entries)
  PROVE  LET k == l.entries[j].key
         IN  IF k \in KeysOf(r)
             THEN \E n \in 1 .. Len(r.entries) :
                    r.entries[n].key = k /\ Newest(r, CString[k]) = r.entries[n].value
             ELSE Newest(r, CString[k]) = Null
<1> DEFINE k == l.entries[j].key
<1>1. CString[k] = k
  BY Zenon, PlainParts
<1>2. \A n \in 1 .. Len(r.entries) : CString[r.entries[n].key] = r.entries[n].key
  BY Zenon, PlainParts
<1> HIDE DEF k
<1>3. \A n \in 1 .. Len(r.entries) : Under(r.entries[n].key, CString[k]) <=> r.entries[n].key = k
  BY Zenon, <1>1, <1>2, PlainUnder
<1>4. k \in KeysOf(r) <=> Has(r, CString[k])
  BY Zenon, <1>3 DEF KeysOf, Has
<1> QED BY Zenon, <1>3, <1>4, NewestIs DEF k

LEMMA PlainPair ==
  ASSUME NEW f, FrameOK(f), PlainFrame(f), f.i \in 1 .. Len(Items(f.l))
  PROVE  /\ Plain[Pair(f)[1]]
         /\ Pair(f)[2] # Null => Plain[Pair(f)[2]]
         /\ Pair(f)[2] = Null => ~Equal[<<f.l, f.r>>]
<1> DEFINE l == f.l
           r == f.r
           i == f.i
<1>1. l \in Value /\ r \in Value /\ l.kind = r.kind /\ Plain[l] /\ Plain[r]
  BY DEF FrameOK, PlainFrame
<1>2. Len(Items(l)) = Len(Items(r))
  BY DEF FrameOK, SameSize
<1>n. "arr" # "obj"
  OBVIOUS
<1>3. CASE l.kind = "arr"
  <2>1. Items(l) = l.items /\ Items(r) = r.items
    BY Zenon, <1>1, <1>3 DEF Items
  <2>2. Plain[l.items[i]] /\ Plain[r.items[i]]
    BY Zenon, <1>1, <1>2, <1>3, <2>1, PlainParts
  <2>3. Pair(f) = <<l.items[i], r.items[i]>>
    BY Zenon, <1>3 DEF Pair
  <2>4. Pair(f)[1] = l.items[i] /\ Pair(f)[2] = r.items[i]
    BY <2>3
  <2>5. r.items[i] \in Value
    <3>1. r.items \in Seq(Value)
      BY Zenon, <1>1, <1>3, Items_
    <3> QED BY <1>2, <2>1, <3>1
  <2>6. r.items[i] # Null
    BY Zenon, <2>5, NullIsNoValue
  <2> QED BY Zenon, <2>2, <2>4, <2>6
<1>4. CASE l.kind = "obj"
  <2> DEFINE k == l.entries[i].key
  <2>1. i \in 1 .. Len(l.entries)
    BY Zenon, <1>4, <1>n DEF Items
  <2>2. Pair(f) = <<l.entries[i].value, Newest(r, CString[k])>>
    BY Zenon, <1>4, <1>n DEF Pair
  <2>3. Pair(f)[1] = l.entries[i].value /\ Pair(f)[2] = Newest(r, CString[k])
    BY <2>2
  <2>4. Plain[l.entries[i].value]
    BY Zenon, <1>1, <1>4, <2>1, PlainParts
  <2>5. IF k \in KeysOf(r)
        THEN \E n \in 1 .. Len(r.entries) :
               r.entries[n].key = k /\ Newest(r, CString[k]) = r.entries[n].value
        ELSE Newest(r, CString[k]) = Null
    BY Zenon, <1>1, <1>4, <2>1, PlainNewest
  <2>6. \A n \in 1 .. Len(r.entries) : r.entries[n].value \in Value /\ Plain[r.entries[n].value]
    BY Zenon, <1>1, <1>4, Items_, PlainParts
  <2>7. k \notin KeysOf(r) => ~Equal[<<l, r>>]
    <3> DEFINE p == <<l, r>>
    <3>1. p[1] = l /\ p[2] = r /\ p \in Pairs
      BY <1>1 DEF Pairs
    <3> HIDE DEF p
    <3> QED BY Zenon, <1>4, <2>1, <3>1, MissingKey DEF p
  <2>8. k \in KeysOf(r) => Newest(r, CString[k]) # Null /\ Plain[Newest(r, CString[k])]
    BY Zenon, <2>5, <2>6, NullIsNoValue
  <2> HIDE DEF k
  <2> QED BY Zenon, <2>3, <2>4, <2>5, <2>7, <2>8
<1> QED BY <1>3, <1>4 DEF FrameOK, Container

-----------------------------------------------------------------------------
(* The calls under way.  The call of frame n is about the pair Asked(n), and *)
(* the innermost call, or its answer, about Question.                       *)

Frames == [l : Value, r : Value, i : Nat]
Asked(n) == IF n = 1 THEN <<left, right>> ELSE Pair(stack[n - 1])
Question == Asked(Len(stack) + 1)

CallOf(n) ==
  /\ FrameOK(stack[n]) /\ <<stack[n].l, stack[n].r>> = Asked(n)
  /\ stack[n].i \in 1 .. Len(Items(stack[n].l)) + 1
Waits(f) == f.i \in 1 .. Len(Items(f.l)) /\ Pair(f)[2] # Null

Calls ==
  /\ <<left, right>> \in Pairs
  /\ stack \in Seq(Frames)
  /\ \A n \in 1 .. Len(stack) : CallOf(n)
  /\ \A n \in 1 .. Len(stack) : n < Len(stack) \/ mode # "loop" => Waits(stack[n])
  /\ mode = "loop" => stack # <<>>
  /\ mode = "done" => stack = <<>>
  /\ mode = "call" => at = Question

\* The pair that is returned with false.
DiffOK ==
  /\ ~Equal[diff]
  /\ Container(diff[1]) /\ diff[1].kind = diff[2].kind => ~SameSize(diff[1], diff[2])

Refuted ==
  mode \in {"answer", "done"} /\ ~result => DiffOK /\ (PlainArguments => ~Equal[Question])

\* No null character turns up inside of arguments that have none.
PlainCalls == PlainArguments => \A n \in 1 .. Len(stack) : PlainFrame(stack[n])

LEMMA QuestionIs ==
  ASSUME Calls
  PROVE  /\ Len(stack) \in Nat /\ (stack = <<>> <=> Len(stack) = 0)
         /\ stack = <<>> => Question = <<left, right>>
         /\ stack # <<>> => /\ Question = Pair(Top) /\ CallOf(Len(stack))
                            /\ Len(stack) \in 1 .. Len(stack)
         /\ mode # "loop" => Question \in Pairs
<1>1. Len(stack) \in Nat /\ (stack = <<>> <=> Len(stack) = 0)
  BY DEF Calls
<1>2. stack = <<>> => Question = <<left, right>>
  BY <1>1 DEF Question, Asked
<1>3. stack # <<>> => Question = Pair(Top)
  BY <1>1 DEF Question, Asked, Top
<1>4. stack # <<>> => CallOf(Len(stack)) /\ Len(stack) \in 1 .. Len(stack)
  BY <1>1 DEF Calls
<1>5. stack # <<>> /\ mode # "loop" => Pair(Top) \in Pairs
  <2> SUFFICES ASSUME stack # <<>>, mode # "loop" PROVE Pair(Top) \in Pairs
    OBVIOUS
  <2>1. FrameOK(Top) /\ Waits(Top)
    BY Zenon, <1>4 DEF Calls, CallOf, Top
  <2> QED BY <2>1, PairIs DEF Waits
<1>6. <<left, right>> \in Pairs
  BY DEF Calls
<1> QED BY Zenon, <1>1, <1>2, <1>3, <1>4, <1>5, <1>6

LEMMA PlainQuestion ==
  ASSUME Calls, PlainCalls, PlainArguments, mode # "loop"
  PROVE  Plain[Question[1]] /\ (Question[2] # Null => Plain[Question[2]])
<1>1. CASE stack = <<>>
  <2>1. Question = <<left, right>>
    BY <1>1, QuestionIs
  <2>2. Question[1] = left /\ Question[2] = right
    BY <2>1
  <2> QED BY Zenon, <2>2 DEF PlainArguments
<1>2. CASE stack # <<>>
  <2>1. Question = Pair(Top) /\ FrameOK(Top) /\ Waits(Top) /\ PlainFrame(Top)
    BY Zenon, <1>2, QuestionIs DEF Calls, CallOf, Top, PlainCalls
  <2> QED BY Zenon, <2>1, PlainPair DEF Waits
<1> QED BY <1>1, <1>2

LEMMA InitCalls == Init => Calls /\ Refuted
<1> SUFFICES ASSUME Init PROVE Calls /\ Refuted
  OBVIOUS
<1>1. mode = "call" /\ stack = <<>> /\ at = <<left, right>> /\ <<left, right>> \in Pairs
  BY DEF Init, Pairs
<1>2. Len(stack) = 0 /\ stack \in Seq(Frames)
  BY <1>1
<1>3. Question = <<left, right>>
  BY <1>2 DEF Question, Asked
<1>4. \A n \in 1 .. Len(stack) : FALSE
  BY <1>2
<1>5. mode # "loop" /\ mode # "done" /\ mode \notin {"answer", "done"}
  BY <1>1
<1> QED BY Zenon, <1>1, <1>2, <1>3, <1>4, <1>5 DEF Calls, Refuted

\* are_equal answers without a call.
LEMMA AnswerCalls ==
  ASSUME Calls, mode = "call", NEW b, Answer(b)
  PROVE  Calls' /\ Question' = Question /\ at = Question
<1>1. UNCHANGED <<left, right, at, stack>> /\ mode' = "answer"
  BY DEF Answer
<1>2. Question' = Question /\ \A n : Asked(n)' = Asked(n)
  BY <1>1 DEF Question, Asked
<1>3. \A n : CallOf(n)' <=> CallOf(n)
  BY Zenon, <1>1, <1>2 DEF CallOf
<1>4. mode # "loop" /\ mode' # "loop" /\ mode' # "done" /\ mode' # "call"
  BY <1>1
<1> QED BY Zenon, <1>1, <1>2, <1>3, <1>4 DEF Calls

LEMMA AnswerRefuted ==
  Calls /\ (CompareNulls \/ CompareKinds \/ CompareScalars \/ CompareSizes) => Calls' /\ Refuted'
<1> SUFFICES ASSUME Calls, CompareNulls \/ CompareKinds \/ CompareScalars \/ CompareSizes
             PROVE  Calls' /\ Refuted'
  OBVIOUS
<1>1. PICK b : Answer(b)
  BY Zenon DEF CompareNulls, CompareKinds, CompareScalars, CompareSizes
<1>2. mode = "call" /\ mode # "loop"
  BY DEF CompareNulls, CompareKinds, CompareScalars, CompareSizes, SameKind
<1>3. Calls' /\ Question' = Question /\ at = Question
  BY <1>1, <1>2, AnswerCalls
<1>4. at \in Pairs
  BY <1>2, <1>3, QuestionIs
<1>5. at[1] \in Value \cup {Null} /\ at[2] \in Value \cup {Null}
  BY <1>4 DEF Pairs
<1>6. ~result' => /\ diff' = at /\ ~Equal[at]
                  /\ Container(at[1]) /\ at[1].kind = at[2].kind => ~SameSize(at[1], at[2])
  <2> SUFFICES ASSUME ~result'
               PROVE  /\ diff' = at /\ ~Equal[at]
                      /\ Container(at[1]) /\ at[1].kind = at[2].kind => ~SameSize(at[1], at[2])
    OBVIOUS
  <2>1. CASE CompareNulls
    <3>1. Null \in {at[1], at[2]} /\ at[1] # at[2] /\ diff' = at
      BY Zenon, <2>1 DEF CompareNulls, Answer
    <3>2. at[1].kind # at[2].kind
      BY Zenon, <1>5, <3>1, NullIsNoValue
    <3> QED BY Zenon, <1>4, <3>1, <3>2, DifferentKinds
  <2>2. CASE CompareKinds
    <3>1. at[1].kind # at[2].kind /\ diff' = at
      BY Zenon, <2>2 DEF CompareKinds, Answer
    <3> QED BY Zenon, <1>4, <3>1, DifferentKinds
  <2>3. CASE CompareScalars
    <3>1. /\ ~SameScalar(at[1], at[2]) /\ diff' = at /\ ~Container(at[1])
          /\ Null \notin {at[1], at[2]} /\ at[1].kind = at[2].kind
      BY Zenon, <2>3 DEF CompareScalars, SameKind, Answer
    <3>2. at[1] \in Value /\ at[2] \in Value
      BY Zenon, <1>5, <3>1
    <3> QED BY Zenon, <1>4, <3>1, <3>2, Scalars
  <2>4. CASE CompareSizes
    <3>1. diff' = at /\ Container(at[1]) /\ at[1].kind = at[2].kind /\ ~SameSize(at[1], at[2])
      BY Zenon, <2>4 DEF CompareSizes, SameKind, Answer
    <3> QED BY Zenon, <1>4, <3>1, DifferentSizes
  <2> QED BY <2>1, <2>2, <2>3, <2>4
<1> QED BY Zenon, <1>3, <1>6 DEF Refuted, DiffOK

LEMMA EnterCalls == Calls /\ Enter => Calls' /\ Refuted'
<1> SUFFICES ASSUME Calls, Enter PROVE Calls' /\ Refuted'
  OBVIOUS
<1>n. PICK n : n = Len(stack)
  OBVIOUS
<1>p. PICK f : f = [l |-> at[1], r |-> at[2], i |-> 1]
  OBVIOUS
<1>1. /\ mode = "call" /\ Null \notin {at[1], at[2]} /\ at[1].kind = at[2].kind
      /\ Container(at[1]) /\ SameSize(at[1], at[2])
      /\ stack' = Append(stack, f) /\ mode' = "loop" /\ UNCHANGED <<left, right>>
  BY <1>p DEF Enter, SameKind
<1>2. mode # "loop" /\ mode' \notin {"call", "answer", "done"}
  BY <1>1
<1>3. at = Question /\ at \in Pairs /\ n \in Nat
  BY <1>n, <1>1, <1>2, QuestionIs DEF Calls
<1>4. at[1] \in Value /\ at[2] \in Value /\ at = <<at[1], at[2]>>
  BY <1>1, <1>3 DEF Pairs
<1>5. f \in Frames /\ f.l = at[1] /\ f.r = at[2] /\ f.i = 1
  BY <1>p, <1>4 DEF Frames
<1>6. stack \in Seq(Frames)
  BY DEF Calls
<1>7. /\ stack' \in Seq(Frames) /\ Len(stack') = n + 1 /\ stack'[n + 1] = f
      /\ \A k \in 1 .. n : stack'[k] = stack[k]
  BY <1>n, <1>1, <1>5, <1>6
<1>8. \A k \in 1 .. n + 1 : Asked(k)' = Asked(k)
  <2> SUFFICES ASSUME NEW k \in 1 .. n + 1 PROVE Asked(k)' = Asked(k)
    OBVIOUS
  <2>1. k = 1 \/ k - 1 \in 1 .. n
    BY <1>3
  <2> QED BY Zenon, <1>1, <1>7, <2>1 DEF Asked
<1>9. Len(Items(f.l)) \in Nat
  <2>1. "arr" # "obj"
    OBVIOUS
  <2>2. at[1].kind = "arr" => Len(at[1].items) \in Nat
    <3>1. at[1].kind = "arr" => at[1].items \in Seq(Value)
      BY Zenon, <1>4, Items_
    <3> QED BY <3>1
  <2> QED BY Zenon, <1>1, <1>4, <1>5, <2>1, <2>2, Items_ DEF Items, Container
<1>10. \A k \in 1 .. n + 1 : CallOf(k)'
  <2>1. ASSUME NEW k \in 1 .. n PROVE CallOf(k)'
    <3>1. CallOf(k) /\ k \in 1 .. n + 1
      BY <1>n, <1>3 DEF Calls
    <3> QED BY Zenon, <1>7, <1>8, <3>1 DEF CallOf
  <2>2. CallOf(n + 1)'
    <3>1. n + 1 \in 1 .. n + 1 /\ 1 \in 1 .. Len(Items(f.l)) + 1
      BY <1>3, <1>9
    <3>2. FrameOK(f)
      BY Zenon, <1>1, <1>4, <1>5 DEF FrameOK
    <3>3. <<f.l, f.r>> = Asked(n + 1)
      BY Zenon, <1>n, <1>3, <1>4, <1>5 DEF Question
    <3> QED BY Zenon, <1>5, <1>7, <1>8, <3>1, <3>2, <3>3 DEF CallOf
  <2>3. \A k \in 1 .. n + 1 : k \in 1 .. n \/ k = n + 1
    BY <1>3
  <2> QED BY Zenon, <2>1, <2>2, <2>3
<1>11. \A k \in 1 .. n + 1 : k < n + 1 => k \in 1 .. n
  BY <1>3
<1>12. stack' # <<>>
  BY <1>3, <1>7
<1>13. \A k \in 1 .. n : Waits(stack[k])
  BY Zenon, <1>n, <1>2 DEF Calls
<1>14. <<left, right>>' \in Pairs
  BY <1>1 DEF Calls
<1> QED BY Zenon, <1>1, <1>2, <1>7, <1>10, <1>11, <1>12, <1>13, <1>14 DEF Calls, Refuted

\* A call returns to the one before it.
LEMMA PopCalls ==
  ASSUME Calls, stack # <<>>, stack' = Below, mode' = "answer", UNCHANGED <<left, right>>
  PROVE  Calls' /\ Question' = <<Top.l, Top.r>>
<1>n. PICK n : n = Len(stack)
  OBVIOUS
<1>1. stack \in Seq(Frames) /\ n \in Nat \ {0}
  BY <1>n, QuestionIs DEF Calls
<1>2. stack' \in Seq(Frames) /\ Len(stack') = n - 1 /\ \A k \in 1 .. n - 1 : stack'[k] = stack[k]
  BY SMT, <1>n, <1>1 DEF Below
<1>3. \A k \in 1 .. n : Asked(k)' = Asked(k)
  <2> SUFFICES ASSUME NEW k \in 1 .. n PROVE Asked(k)' = Asked(k)
    OBVIOUS
  <2>1. k = 1 \/ k - 1 \in 1 .. n - 1
    BY <1>1
  <2> QED BY Zenon, <1>2, <2>1 DEF Asked
<1>4. Question' = Asked(n)
  <2>1. Len(stack') + 1 = n /\ n \in 1 .. n
    BY <1>1, <1>2
  <2> QED BY Zenon, <1>3, <2>1 DEF Question
<1>5. Asked(n) = <<Top.l, Top.r>>
  BY Zenon, <1>n, QuestionIs DEF CallOf, Top
<1>6. \A k \in 1 .. n - 1 : CallOf(k)' /\ Waits(stack'[k])
  <2> SUFFICES ASSUME NEW k \in 1 .. n - 1 PROVE CallOf(k)' /\ Waits(stack'[k])
    OBVIOUS
  <2>1. k \in 1 .. n /\ k < n
    BY <1>1
  <2>2. CallOf(k) /\ Waits(stack[k])
    BY Zenon, <1>n, <2>1 DEF Calls
  <2> QED BY Zenon, <1>2, <1>3, <2>1, <2>2 DEF CallOf
<1>7. mode' # "loop" /\ mode' # "done" /\ mode' # "call"
  OBVIOUS
<1>8. <<left, right>>' \in Pairs
  BY DEF Calls
<1> QED BY Zenon, <1>2, <1>4, <1>5, <1>6, <1>7, <1>8 DEF Calls

LEMMA LoopCalls ==
  Calls /\ PlainCalls /\ (CompareNext \/ NoSuchKey \/ AllEqual) => Calls' /\ Refuted'
<1> SUFFICES ASSUME Calls, PlainCalls, CompareNext \/ NoSuchKey \/ AllEqual PROVE Calls' /\ Refuted'
  OBVIOUS
<1>1. mode = "loop" /\ stack # <<>> /\ UNCHANGED <<left, right>>
  BY DEF CompareNext, NoSuchKey, AllEqual, Calls
<1>2. FrameOK(Top) /\ Top.i \in 1 .. Len(Items(Top.l)) + 1 /\ Question = Pair(Top)
  BY Zenon, <1>1, QuestionIs DEF CallOf, Top
<1>3. CASE CompareNext
  <2>1. /\ Top.i <= Len(Items(Top.l)) /\ Pair(Top)[2] # Null
        /\ at' = Pair(Top) /\ mode' = "call" /\ stack' = stack
    BY <1>3 DEF CompareNext, HasNext
  <2>2. \A k : Asked(k)' = Asked(k)
    BY Zenon, <1>1, <2>1 DEF Asked
  <2>3. Question' = Question
    BY Zenon, <2>1, <2>2 DEF Question
  <2>4. \A k : CallOf(k)' <=> CallOf(k)
    BY Zenon, <2>1, <2>2 DEF CallOf
  <2>5. Waits(Top)
    BY <1>2, <2>1 DEF Waits
  <2>6. \A k \in 1 .. Len(stack) : k < Len(stack) \/ k = Len(stack)
    BY QuestionIs
  <2>7. \A k \in 1 .. Len(stack) : Waits(stack[k])
    BY Zenon, <2>5, <2>6 DEF Calls, Top
  <2>8. mode' # "loop" /\ mode' # "done" /\ mode' \notin {"answer", "done"}
    BY <2>1
  <2> QED BY Zenon, <1>1, <1>2, <2>1, <2>3, <2>4, <2>7, <2>8 DEF Calls, Refuted
<1>4. CASE NoSuchKey
  <2>1. /\ Top.i <= Len(Items(Top.l)) /\ Pair(Top)[2] = Null
        /\ diff' = Pair(Top) /\ mode' = "answer" /\ stack' = Below
    BY <1>4 DEF NoSuchKey, HasNext
  <2>2. Calls' /\ Question' = <<Top.l, Top.r>>
    BY <1>1, <2>1, PopCalls
  <2>3. Top.i \in 1 .. Len(Items(Top.l))
    BY <1>2, <2>1
  <2>4. Pair(Top) \in Pairs /\ Pair(Top)[1] \in Value
    BY Zenon, <1>2, <2>1, <2>3, PairIs
  <2>5. Pair(Top)[1].kind # Pair(Top)[2].kind
    BY Zenon, <2>1, <2>4, NullIsNoValue
  <2>6. ~Equal[Pair(Top)]
    BY Zenon, <2>4, <2>5, DifferentKinds
  <2>7. PlainArguments' => ~Equal[<<Top.l, Top.r>>]
    <3> SUFFICES ASSUME PlainArguments' PROVE ~Equal[<<Top.l, Top.r>>]
      OBVIOUS
    <3>1. PlainArguments
      BY Zenon, <1>1 DEF PlainArguments
    <3>2. PlainFrame(Top)
      BY Zenon, <1>1, <3>1, QuestionIs DEF PlainCalls, Top
    <3> QED BY Zenon, <1>2, <2>1, <2>3, <3>2, PlainPair
  <2> QED BY Zenon, <2>1, <2>2, <2>5, <2>6, <2>7 DEF Refuted, DiffOK
<1>5. CASE AllEqual
  <2>1. result' = TRUE /\ mode' = "answer" /\ stack' = Below
    BY <1>5 DEF AllEqual, Leave
  <2>2. Calls'
    BY <1>1, <2>1, PopCalls
  <2> QED BY Zenon, <2>1, <2>2 DEF Refuted
<1> QED BY <1>3, <1>4, <1>5

\* The stack stays as it is, but for the index at its top.
LEMMA ElementEqualCalls ==
  ASSUME Calls, ElementEqual
  PROVE  /\ Calls' /\ mode' = "loop" /\ Len(stack') = Len(stack)
         /\ \A k \in 1 .. Len(stack) :
              /\ stack'[k].l = stack[k].l /\ stack'[k].r = stack[k].r
              /\ k < Len(stack) => stack'[k] = stack[k]
              /\ k = Len(stack) => stack'[k].i = stack[k].i + 1
<1>n. PICK n : n = Len(stack)
  OBVIOUS
<1>1. /\ mode = "answer" /\ stack # <<>> /\ mode' = "loop" /\ UNCHANGED <<left, right>>
      /\ stack' = [stack EXCEPT ![n].i = @ + 1]
  BY <1>n DEF ElementEqual
<1>2. stack \in Seq(Frames) /\ n \in Nat \ {0} /\ n \in 1 .. n
  BY <1>n, <1>1, QuestionIs DEF Calls
<1>3. stack[n] \in Frames
  BY <1>n, <1>2
<1>4. PICK f : f = [stack[n] EXCEPT !.i = @ + 1]
  OBVIOUS
<1>5. f.l = stack[n].l /\ f.r = stack[n].r /\ f.i = stack[n].i + 1 /\ f \in Frames
  BY <1>3, <1>4 DEF Frames
<1>6. stack' = [stack EXCEPT ![n] = f]
  BY <1>1, <1>4
<1>7. /\ stack' \in Seq(Frames) /\ Len(stack') = n /\ stack'[n] = f
      /\ \A k \in 1 .. n : k # n => stack'[k] = stack[k]
  BY SMT, <1>n, <1>2, <1>5, <1>6
<1>8. \A k \in 1 .. n : k < n <=> k # n
  BY <1>2
<1>9. mode # "loop" /\ mode' # "answer" /\ mode' # "call" /\ mode' # "done"
  BY <1>1
<1>10. \A k \in 1 .. n : Asked(k)' = Asked(k)
  <2> SUFFICES ASSUME NEW k \in 1 .. n PROVE Asked(k)' = Asked(k)
    OBVIOUS
  <2>1. k = 1 \/ (k - 1 \in 1 .. n /\ k - 1 # n)
    BY <1>2
  <2>2. k = 1 \/ stack'[k - 1] = stack[k - 1]
    BY Zenon, <1>7, <2>1
  <2>3. left' = left /\ right' = right
    BY <1>1
  <2> QED BY Zenon, <2>2, <2>3 DEF Asked
<1>11. ASSUME NEW k \in 1 .. n PROVE CallOf(k)'
  <2>1. CallOf(k) /\ Waits(stack[k])
    BY Zenon, <1>n, <1>9 DEF Calls
  <2>2. FrameOK(stack[k])' /\ <<stack[k].l, stack[k].r>>' = Asked(k)' /\ stack'[k].l = stack[k].l
    <3>1. CASE k = n
      BY Zenon, <1>5, <1>7, <1>10, <2>1, <3>1 DEF CallOf, FrameOK
    <3>2. CASE k # n
      BY Zenon, <1>7, <1>10, <2>1, <3>2 DEF CallOf, FrameOK
    <3> QED BY <3>1, <3>2
  <2>3. stack'[k].i \in 1 .. Len(Items(stack[k].l)) + 1
    <3>1. CASE k = n
      <4>1. stack[k].i + 1 \in 1 .. Len(Items(stack[k].l)) + 1
        BY <2>1 DEF Waits, CallOf
      <4> QED BY Zenon, <1>5, <1>7, <3>1, <4>1
    <3>2. CASE k # n
      BY Zenon, <1>7, <2>1, <3>2 DEF CallOf
    <3> QED BY <3>1, <3>2
  <2> QED BY Zenon, <2>2, <2>3 DEF CallOf
<1>12. ASSUME NEW k \in 1 .. n, k < n PROVE Waits(stack'[k])
  BY Zenon, <1>n, <1>7, <1>8, <1>9, <1>12 DEF Calls
<1>13. stack' # <<>>
  BY <1>2, <1>7
<1>14. <<left, right>>' \in Pairs
  BY Zenon, <1>1 DEF Calls
<1>15. Calls'
  BY Zenon, <1>1, <1>7, <1>9, <1>11, <1>12, <1>13, <1>14 DEF Calls
<1> QED BY Zenon, <1>n, <1>1, <1>5, <1>7, <1>8, <1>15

\* Nothing changes but the mode.
LEMMA SameCalls ==
  ASSUME Calls, UNCHANGED <<left, right, stack>>, mode # "loop", mode' # "call",
         mode' = "loop" => stack # <<>>, mode' = "done" => stack = <<>>
  PROVE  Calls' /\ Question' = Question
<1>1. \A k : Asked(k)' = Asked(k)
  BY Zenon DEF Asked
<1>2. \A k : CallOf(k)' <=> CallOf(k)
  BY Zenon, <1>1 DEF CallOf
<1>3. Question' = Question
  BY Zenon, <1>1 DEF Question
<1> QED BY Zenon, <1>2, <1>3 DEF Calls

LEMMA ReturnCalls ==
  Calls /\ Refuted /\ (ElementEqual \/ ElementDiffers \/ TryAgain \/ Done) => Calls' /\ Refuted'
<1> SUFFICES ASSUME Calls, Refuted, ElementEqual \/ ElementDiffers \/ TryAgain \/ Done
             PROVE  Calls' /\ Refuted'
  OBVIOUS
<1>1. mode = "answer" /\ mode # "loop"
  BY DEF ElementEqual, ElementDiffers, TryAgain, Done
<1>2. CASE ElementEqual
  <2>1. Calls' /\ mode' = "loop"
    BY <1>2, ElementEqualCalls
  <2> QED BY <2>1 DEF Refuted
<1>3. CASE ElementDiffers
  <2>1. /\ stack # <<>> /\ ~result /\ Top.l.kind = "arr" /\ stack' = Below /\ mode' = "answer"
        /\ UNCHANGED <<left, right, diff>>
    BY <1>3 DEF ElementDiffers, Leave
  <2>2. Calls' /\ Question' = <<Top.l, Top.r>>
    BY <2>1, PopCalls
  <2>3. DiffOK /\ (PlainArguments' => ~Equal[Question])
    BY Zenon, <1>1, <2>1 DEF Refuted, PlainArguments
  <2>4. FrameOK(Top) /\ Top.i \in 1 .. Len(Items(Top.l)) /\ Question = Pair(Top)
    BY Zenon, <1>1, <2>1, QuestionIs DEF CallOf, Top, Calls, Waits
  <2>5. PlainArguments' => ~Equal[<<Top.l, Top.r>>]
    BY Zenon, <2>1, <2>3, <2>4, PairIs
  <2> QED BY Zenon, <2>1, <2>2, <2>3, <2>5 DEF Refuted, DiffOK
<1>4. CASE TryAgain
  <2>1. stack # <<>> /\ mode' = "loop" /\ UNCHANGED <<left, right, stack>>
    BY <1>4 DEF TryAgain
  <2>2. mode' # "call" /\ mode' # "done" /\ mode' # "answer"
    BY <2>1
  <2>3. Calls'
    BY Zenon, <1>1, <2>1, <2>2, SameCalls
  <2> QED BY Zenon, <2>2, <2>3 DEF Refuted
<1>5. CASE Done
  <2>1. stack = <<>> /\ mode' = "done" /\ UNCHANGED <<left, right, stack, result, diff>>
    BY <1>5 DEF Done
  <2>2. mode' # "call" /\ mode' # "loop"
    BY <2>1
  <2>3. Calls' /\ Question' = Question
    BY Zenon, <1>1, <2>1, <2>2, SameCalls
  <2> QED BY Zenon, <1>1, <2>1, <2>3 DEF Refuted, DiffOK, PlainArguments
<1> QED BY <1>2, <1>3, <1>4, <1>5

LEMMA StutterCalls == Calls /\ Refuted /\ UNCHANGED vars => Calls' /\ Refuted'
<1> SUFFICES ASSUME Calls, Refuted, UNCHANGED vars PROVE Calls' /\ Refuted'
  OBVIOUS
<1>1. UNCHANGED <<left, right, at, mode, result, diff, stack>>
  BY DEF vars
<1>2. \A k : Asked(k)' = Asked(k)
  BY Zenon, <1>1 DEF Asked
<1>3. \A k : CallOf(k)' <=> CallOf(k)
  BY Zenon, <1>1, <1>2 DEF CallOf
<1>4. Question' = Question
  BY Zenon, <1>1, <1>2 DEF Question
<1> QED BY Zenon, <1>1, <1>3, <1>4 DEF Calls, Refuted, DiffOK, PlainArguments

LEMMA PlainStep == Calls /\ PlainCalls /\ [Next]_vars => PlainCalls'
<1> SUFFICES ASSUME Calls, PlainCalls, [Next]_vars, PlainArguments'
             PROVE  \A n \in 1 .. Len(stack') : PlainFrame(stack'[n])
  BY DEF PlainCalls, PlainFrame
<1>1. UNCHANGED <<left, right>>
  BY Zenon DEF Next, vars, CompareNulls, CompareKinds, CompareScalars, CompareSizes, Answer, Enter,
     CompareNext, NoSuchKey, AllEqual, ElementEqual, ElementDiffers, TryAgain, Done
<1>2. PlainArguments
  BY Zenon, <1>1 DEF PlainArguments
<1>3. \A n \in 1 .. Len(stack) : PlainFrame(stack[n])
  BY Zenon, <1>2 DEF PlainCalls
<1>4. \/ stack' = stack \/ Enter \/ ElementEqual
      \/ stack' = Below /\ stack # <<>>
  <2>1. mode = "loop" => stack # <<>>
    BY DEF Calls
  <2> QED BY Zenon, <2>1 DEF Next, vars, CompareNulls, CompareKinds, CompareScalars, CompareSizes, Answer,
          CompareNext, NoSuchKey, AllEqual, Leave, ElementDiffers, TryAgain, Done
<1>5. stack \in Seq(Frames)
  BY DEF Calls
<1>6. CASE stack' = stack
  BY <1>3, <1>6
<1>7. CASE Enter
  <2>n. PICK n : n = Len(stack)
    OBVIOUS
  <2>p. PICK f : f = [l |-> at[1], r |-> at[2], i |-> 1]
    OBVIOUS
  <2>1. mode = "call" /\ Null \notin {at[1], at[2]} /\ stack' = Append(stack, f)
    BY <1>7, <2>p DEF Enter, SameKind
  <2>2. mode # "loop" /\ at = Question /\ at \in Pairs
    BY <2>1, QuestionIs DEF Calls
  <2>3. Plain[at[1]] /\ Plain[at[2]]
    BY Zenon, <1>2, <2>1, <2>2, PlainQuestion
  <2>4. f.l = at[1] /\ f.r = at[2]
    BY <2>p
  <2>5. PlainFrame(f)
    BY Zenon, <2>3, <2>4 DEF PlainFrame
  <2>6. f \in Frames
    <3>1. at[1] \in Value /\ at[2] \in Value
      BY <2>1, <2>2 DEF Pairs
    <3> QED BY <2>p, <3>1 DEF Frames
  <2>7. n \in Nat /\ Len(stack') = n + 1 /\ stack'[n + 1] = f /\ \A k \in 1 .. n : stack'[k] = stack[k]
    BY <1>5, <2>n, <2>1, <2>6
  <2>8. \A k \in 1 .. n + 1 : k \in 1 .. n \/ k = n + 1
    BY <2>7
  <2> QED BY Zenon, <1>3, <2>n, <2>5, <2>7, <2>8
<1>8. CASE ElementEqual
  <2>1. Len(stack') = Len(stack) /\ \A k \in 1 .. Len(stack) : stack'[k].l = stack[k].l /\ stack'[k].r = stack[k].r
    BY Zenon, <1>8, ElementEqualCalls
  <2> QED BY Zenon, <1>3, <2>1 DEF PlainFrame
<1>9. CASE stack' = Below /\ stack # <<>>
  <2>1. \A k \in 1 .. Len(stack') : k \in 1 .. Len(stack) /\ stack'[k] = stack[k]
    BY SMT, <1>5, <1>9 DEF Below
  <2> QED BY Zenon, <1>3, <2>1
<1> QED BY <1>4, <1>6, <1>7, <1>8, <1>9

LEMMA CallsAlways == Spec => [](Calls /\ Refuted /\ PlainCalls)
<1>1. Calls /\ Refuted /\ PlainCalls /\ [Next]_vars => Calls' /\ Refuted'
  BY AnswerRefuted, EnterCalls, LoopCalls, ReturnCalls, StutterCalls DEF Next
<1>2. Init => PlainCalls
  <2> SUFFICES ASSUME Init PROVE PlainCalls
    OBVIOUS
  <2>1. stack = <<>>
    BY DEF Init
  <2>2. 1 .. Len(stack) = {}
    BY <2>1
  <2> QED BY Zenon, <2>2 DEF PlainCalls
<1> QED BY <1>1, <1>2, InitCalls, PlainStep, PTL DEF Spec

\* json.h:331: the answer false is given for different values only, also when a
\* key occurs twice, and whatever the bytes of numbers are, where no string or
\* key has a null character inside.
THEOREM FalseAnswersAreRight == Spec => []FalseIsRight
<1>1. Calls /\ Refuted => FalseIsRight
  BY Zenon, QuestionIs DEF Calls, Refuted, FalseIsRight
<1> QED BY <1>1, CallsAlways, PTL

\* json.c:579: the nodes that json_are_equal returns beside false do differ, and
\* not merely because of something inside of them.
THEOREM DifferenceIsInnermost == Spec => []DiffIsInnermost
<1>1. Calls /\ Refuted => DiffIsInnermost
  BY Zenon DEF Refuted, DiffIsInnermost, DiffOK
<1> QED BY <1>1, CallsAlways, PTL

-----------------------------------------------------------------------------
(* The answer true.  It is wrong for objects with a key that occurs twice,  *)
(* and for numbers whose doubles begin with the same byte.                  *)

KeysOnce ==
  \A o \in Value : o.kind = "obj" =>
    \A j, k \in 1 .. Len(o.entries) : o.entries[j].key = o.entries[k].key => j = k
BytesTell ==
  \A v, w \in Value :
    v.kind = "num" /\ w.kind = "num" /\ LowByte[v.number] = LowByte[w.number] => v.number = w.number

LEMMA SameScalars ==
  ASSUME BytesTell, NEW v \in Value, NEW w \in Value, Plain[v], Plain[w],
         v.kind = w.kind, ~Container(v), SameScalar(v, w)
  PROVE  v = w
<1>1. v.kind # "arr" /\ v.kind # "obj"
  BY DEF Container
<1>2. \A u \in Value : \/ u.kind = "str" /\ u = [kind |-> "str", string |-> u.string]
                       \/ u.kind = "num" /\ u = [kind |-> "num", number |-> u.number]
                       \/ u.kind = "bool" /\ u = [kind |-> "bool", boolean |-> u.boolean]
                       \/ u.kind = "null" /\ u = [kind |-> "null"]
                       \/ u.kind = "arr" \/ u.kind = "obj"
  <2>1. \A u : u = [kind |-> "null"] => u.kind = "null"
    OBVIOUS
  <2> QED BY Zenon, <2>1, ValueAssumption
<1>3. CASE v.kind = "str"
  <2>1. v.string = w.string
    <3>1. CString[v.string] = CString[w.string]
      BY Zenon, <1>3 DEF SameScalar
    <3> QED BY Zenon, <1>3, <3>1, PlainParts
  <2>2. v = [kind |-> "str", string |-> v.string] /\ w = [kind |-> "str", string |-> w.string]
    BY Zenon, <1>2, <1>3
  <2> QED BY Zenon, <2>1, <2>2
<1>4. CASE v.kind = "num"
  <2>1. LowByte[v.number] = LowByte[w.number]
    BY Zenon, <1>4 DEF SameScalar
  <2>2. v = [kind |-> "num", number |-> v.number] /\ w = [kind |-> "num", number |-> w.number]
    BY Zenon, <1>2, <1>4
  <2> QED BY Zenon, <1>4, <2>1, <2>2 DEF BytesTell
<1>5. CASE v.kind = "bool"
  <2>1. v.boolean = w.boolean
    BY Zenon, <1>5 DEF SameScalar
  <2>2. v = [kind |-> "bool", boolean |-> v.boolean] /\ w = [kind |-> "bool", boolean |-> w.boolean]
    BY Zenon, <1>2, <1>5
  <2> QED BY Zenon, <2>1, <2>2
<1>6. CASE v.kind = "null"
  <2>1. v = [kind |-> "null"] /\ w = [kind |-> "null"]
    BY Zenon, <1>2, <1>6
  <2> QED BY Zenon, <2>1
<1> QED BY Zenon, <1>1, <1>2, <1>3, <1>4, <1>5, <1>6

\* What the loop of f compares in its turn j.
Turn(f, j) == [l |-> f.l, r |-> f.r, i |-> j]

LEMMA AllTurnsEqual ==
  ASSUME KeysOnce, NEW f, FrameOK(f), PlainFrame(f),
         \A j \in 1 .. Len(Items(f.l)) : Equal[Pair(Turn(f, j))]
  PROVE  Equal[<<f.l, f.r>>]
<1> DEFINE l == f.l
           r == f.r
<1>1. l \in Value /\ r \in Value /\ l.kind = r.kind /\ Plain[l] /\ Plain[r]
  BY DEF FrameOK, PlainFrame
<1>2. Len(Items(l)) = Len(Items(r))
  BY DEF FrameOK, SameSize
<1>3. ASSUME NEW j \in 1 .. Len(Items(l))
      PROVE  Pair(Turn(f, j)) \in EqualPairs
  <2>1. FrameOK(Turn(f, j)) /\ Turn(f, j).i = j /\ Turn(f, j).l = l /\ Turn(f, j).r = r
    BY DEF FrameOK, Turn
  <2>2. Pair(Turn(f, j)) \in Pairs
    BY Zenon, <2>1, PairIs
  <2> QED BY Zenon, <2>2 DEF EqualPairs
<1> DEFINE p == <<l, r>>
<1>4. p \in Pairs /\ p[1] = l /\ p[2] = r
  BY <1>1 DEF Pairs
<1> HIDE DEF p
<1>n. "arr" # "obj"
  OBVIOUS
<1>5. CASE l.kind = "arr"
  <2>1. Items(l) = l.items /\ Items(r) = r.items
    BY Zenon, <1>1, <1>5 DEF Items
  <2>2. \A j : Pair(Turn(f, j)) = <<l.items[j], r.items[j]>>
    <3>1. \A j : Turn(f, j).i = j /\ Turn(f, j).l = l /\ Turn(f, j).r = r
      BY DEF Turn
    <3> QED BY Zenon, <1>5, <3>1 DEF Pair
  <2>3. SameArrays(EqualPairs, l, r)
    BY Zenon, <1>2, <1>3, <2>1, <2>2 DEF SameArrays
  <2>4. Same(EqualPairs, p)
    BY Zenon, <1>1, <1>4, <1>5, <1>n, <2>3 DEF Same
  <2> QED BY Zenon, <1>4, <2>4, EqualIs DEF p
<1>6. CASE l.kind = "obj"
  <2> DEFINE D == 1 .. Len(l.entries)
             Match(j, n) == /\ l.entries[j].key = r.entries[n].key
                            /\ <<l.entries[j].value, r.entries[n].value>> \in EqualPairs
  <2>1. Items(l) = l.entries /\ Items(r) = r.entries
    BY Zenon, <1>1, <1>6, <1>n DEF Items
  <2>2. ASSUME NEW j \in D PROVE \E n \in D : Match(j, n)
    <3> DEFINE k == l.entries[j].key
    <3>1. Pair(Turn(f, j)) = <<l.entries[j].value, Newest(r, CString[k])>>
      <4>1. Turn(f, j).i = j /\ Turn(f, j).l = l /\ Turn(f, j).r = r
        BY DEF Turn
      <4> QED BY Zenon, <1>6, <1>n, <4>1 DEF Pair
    <3>2. <<l.entries[j].value, Newest(r, CString[k])>> \in EqualPairs
      BY Zenon, <1>3, <2>1, <3>1
    <3>3. l.entries[j].value \in Value
      BY Zenon, <1>1, <1>6, Items_
    <3>4. Newest(r, CString[k]) # Null
      <4> SUFFICES ASSUME Newest(r, CString[k]) = Null PROVE FALSE
        OBVIOUS
      <4> DEFINE q == <<l.entries[j].value, Newest(r, CString[k])>>
      <4>1. q[1] = l.entries[j].value /\ q[2] = Newest(r, CString[k])
        OBVIOUS
      <4> HIDE DEF q
      <4>2. q[1].kind # q[2].kind
        BY Zenon, <3>3, <4>1, NullIsNoValue
      <4> QED BY Zenon, <3>2, <4>2, DifferentKinds DEF EqualPairs, q
    <3>5. k \in KeysOf(r)
      BY Zenon, <1>1, <1>6, <3>4, PlainNewest
    <3>6. PICK n \in 1 .. Len(r.entries) : r.entries[n].key = k /\ Newest(r, CString[k]) = r.entries[n].value
      BY Zenon, <1>1, <1>6, <3>5, PlainNewest
    <3>7. n \in D
      BY Zenon, <1>2, <2>1
    <3> QED BY Zenon, <3>2, <3>6, <3>7
  <2> DEFINE q == [j \in D |-> CHOOSE n \in D : Match(j, n)]
  <2> HIDE DEF Match
  <2>3. q \in [D -> D] /\ \A j \in D : Match(j, q[j])
    BY Zenon, <2>2
  <2> HIDE DEF q
  <2>4. ASSUME NEW j \in D, NEW k \in D, q[j] = q[k] PROVE j = k
    <3>1. l.entries[j].key = l.entries[k].key
      BY Zenon, <2>3, <2>4 DEF Match
    <3> QED BY Zenon, <1>1, <1>6, <3>1 DEF KeysOnce
  <2>5. PairedOff(EqualPairs, l, r, q)
    BY Zenon, <2>3, <2>4 DEF PairedOff, Match
  <2>6. SameObjects(EqualPairs, l, r)
    BY Zenon, <1>2, <2>1, <2>3, <2>5 DEF SameObjects
  <2>7. Same(EqualPairs, p)
    BY Zenon, <1>1, <1>4, <1>6, <1>n, <2>6 DEF Same
  <2> QED BY Zenon, <1>4, <2>7, EqualIs DEF p
<1> QED BY <1>5, <1>6 DEF FrameOK, Container

\* The turns that the calls under way have behind them were about equal pairs, when
\* there is no null character inside of the arguments.
Agreed ==
  /\ \A k \in 1 .. Len(stack) : \A j \in 1 .. stack[k].i - 1 : Equal[Pair(Turn(stack[k], j))]
  /\ mode \in {"answer", "done"} /\ result => Equal[Question]

LEMMA AnswerAgreed ==
  BytesTell /\ Calls /\ PlainCalls /\ PlainArguments /\ Agreed
            /\ (CompareNulls \/ CompareKinds \/ CompareScalars \/ CompareSizes)
    => Agreed'
<1> SUFFICES ASSUME BytesTell, Calls, PlainCalls, PlainArguments, Agreed,
                    CompareNulls \/ CompareKinds \/ CompareScalars \/ CompareSizes
             PROVE  Agreed'
  OBVIOUS
<1>1. PICK b : Answer(b)
  BY Zenon DEF CompareNulls, CompareKinds, CompareScalars, CompareSizes
<1>2. mode = "call" /\ mode # "loop" /\ stack' = stack
  BY <1>1 DEF CompareNulls, CompareKinds, CompareScalars, CompareSizes, SameKind, Answer
<1>3. Question' = Question /\ at = Question
  BY <1>1, <1>2, AnswerCalls
<1>4. at \in Pairs
  BY <1>2, <1>3, QuestionIs
<1>5. at[1] \in Value \cup {Null} /\ at[2] \in Value \cup {Null}
  BY <1>4 DEF Pairs
<1>6. result' => Equal[at]
  <2> SUFFICES ASSUME result' PROVE Equal[at]
    OBVIOUS
  <2>1. CASE CompareNulls
    <3>1. at[1] = Null /\ at[2] = Null
      BY Zenon, <2>1 DEF CompareNulls, Answer
    <3>2. Null.kind \notin {"arr", "obj"}
      BY DEF Null
    <3>3. Same(EqualPairs, at)
      BY Zenon, <3>1, <3>2 DEF Same
    <3> QED BY Zenon, <1>4, <3>3, EqualIs
  <2>2. CASE CompareKinds
    BY Zenon, <2>2 DEF CompareKinds, Answer
  <2>3. CASE CompareScalars
    <3>1. /\ SameScalar(at[1], at[2]) /\ ~Container(at[1])
          /\ Null \notin {at[1], at[2]} /\ at[1].kind = at[2].kind
      BY Zenon, <2>3 DEF CompareScalars, SameKind, Answer
    <3>2. at[1] \in Value /\ at[2] \in Value
      BY Zenon, <1>5, <3>1
    <3>p. Plain[at[1]] /\ Plain[at[2]]
      BY Zenon, <1>2, <1>3, <3>1, PlainQuestion
    <3>3. at[1] = at[2]
      BY Zenon, <3>1, <3>2, <3>p, SameScalars
    <3> QED BY Zenon, <1>4, <3>1, <3>2, <3>3, Scalars
  <2>4. CASE CompareSizes
    BY Zenon, <2>4 DEF CompareSizes, Answer
  <2> QED BY <2>1, <2>2, <2>3, <2>4
<1> QED BY Zenon, <1>2, <1>3, <1>6 DEF Agreed

LEMMA EnterAgreed == Calls /\ Agreed /\ Enter => Agreed'
<1> SUFFICES ASSUME Calls, Agreed, Enter PROVE Agreed'
  OBVIOUS
<1>n. PICK n : n = Len(stack)
  OBVIOUS
<1>p. PICK f : f = [l |-> at[1], r |-> at[2], i |-> 1]
  OBVIOUS
<1>1. stack' = Append(stack, f) /\ mode' = "loop" /\ mode = "call"
  BY <1>p DEF Enter, SameKind
<1>2. stack \in Seq(Frames) /\ n \in Nat
  BY <1>n, QuestionIs DEF Calls
<1>3. /\ Len(stack') = n + 1 /\ stack'[n + 1] = f
      /\ \A k \in 1 .. n : stack'[k] = stack[k]
  <2>1. at[1] \in Value /\ at[2] \in Value
    <3>1. at \in Pairs /\ Null \notin {at[1], at[2]}
      BY <1>1, QuestionIs DEF Calls, Enter, SameKind
    <3> QED BY <3>1 DEF Pairs
  <2>2. f \in Frames
    BY <1>p, <2>1 DEF Frames
  <2> QED BY <1>n, <1>1, <1>2, <2>2
<1>4. \A k \in 1 .. n + 1 : k \in 1 .. n \/ k = n + 1
  BY <1>2
<1>5. 1 .. f.i - 1 = {}
  BY <1>p
<1>6. mode' \notin {"answer", "done"}
  BY <1>1
<1> QED BY Zenon, <1>n, <1>3, <1>4, <1>5, <1>6 DEF Agreed

LEMMA PopAgreed ==
  ASSUME Calls, Agreed, stack # <<>>, stack' = Below, mode' = "answer", UNCHANGED <<left, right>>,
         result' => Equal[<<Top.l, Top.r>>]
  PROVE  Agreed'
<1>n. PICK n : n = Len(stack)
  OBVIOUS
<1>1. stack \in Seq(Frames) /\ n \in Nat \ {0}
  BY <1>n, QuestionIs DEF Calls
<1>2. Len(stack') = n - 1 /\ \A k \in 1 .. n - 1 : stack'[k] = stack[k] /\ k \in 1 .. n
  BY SMT, <1>n, <1>1 DEF Below
<1>3. Question' = <<Top.l, Top.r>>
  BY PopCalls
<1> QED BY Zenon, <1>n, <1>2, <1>3 DEF Agreed

LEMMA LoopAgreed ==
  KeysOnce /\ Calls /\ PlainCalls /\ PlainArguments /\ Agreed
           /\ (CompareNext \/ NoSuchKey \/ AllEqual) => Agreed'
<1> SUFFICES ASSUME KeysOnce, Calls, PlainCalls, PlainArguments, Agreed, CompareNext \/ NoSuchKey \/ AllEqual PROVE Agreed'
  OBVIOUS
<1>1. mode = "loop" /\ stack # <<>> /\ UNCHANGED <<left, right>>
  BY DEF CompareNext, NoSuchKey, AllEqual, Calls
<1>2. CASE CompareNext
  <2>1. stack' = stack /\ mode' \notin {"answer", "done"}
    BY <1>2 DEF CompareNext
  <2> QED BY Zenon, <2>1 DEF Agreed
<1>3. CASE NoSuchKey
  <2>1. stack' = Below /\ mode' = "answer" /\ result' = FALSE
    BY <1>3 DEF NoSuchKey
  <2> QED BY Zenon, <1>1, <2>1, PopAgreed
<1>4. CASE AllEqual
  <2>1. stack' = Below /\ mode' = "answer" /\ ~(Top.i <= Len(Items(Top.l)))
    BY <1>4 DEF AllEqual, Leave, HasNext
  <2>2. FrameOK(Top) /\ Top.i \in 1 .. Len(Items(Top.l)) + 1 /\ Len(stack) \in 1 .. Len(stack)
    BY Zenon, <1>1, QuestionIs DEF CallOf, Top
  <2>3. 1 .. Len(Items(Top.l)) = 1 .. Top.i - 1
    <3>1. Top \in Frames
      BY <1>1, <2>2 DEF Calls, Top
    <3>2. Top.i \in Nat
      BY Zenon, <3>1 DEF Frames
    <3>3. Len(Items(Top.l)) \in Int
      <4>1. "arr" # "obj"
        OBVIOUS
      <4>2. Top.l.kind = "arr" => Len(Top.l.items) \in Nat
        <5>1. Top.l \in Value
          BY <2>2 DEF FrameOK
        <5>2. Top.l.kind = "arr" => Top.l.items \in Seq(Value)
          BY Zenon, <5>1, Items_
        <5> QED BY <5>2
      <4>3. Top.l.kind = "obj" => Len(Top.l.entries) \in Nat
        BY Zenon, <2>2, Items_ DEF FrameOK
      <4>4. Len(Items(Top.l)) \in Nat
        BY Zenon, <2>2, <4>1, <4>2, <4>3 DEF FrameOK, Container, Items
      <4> QED BY <4>4
    <3> QED BY <2>1, <2>2, <3>2, <3>3
  <2>4. \A j \in 1 .. Len(Items(Top.l)) : Equal[Pair(Turn(Top, j))]
    BY Zenon, <2>2, <2>3 DEF Agreed, Top
  <2>p. PlainFrame(Top)
    BY Zenon, <2>2 DEF PlainCalls, Top
  <2>5. Equal[<<Top.l, Top.r>>]
    BY Zenon, <2>2, <2>4, <2>p, AllTurnsEqual
  <2> QED BY Zenon, <1>1, <2>1, <2>5, PopAgreed
<1> QED BY <1>2, <1>3, <1>4

LEMMA ReturnAgreed ==
  Calls /\ Agreed /\ (ElementEqual \/ ElementDiffers \/ TryAgain \/ Done) => Agreed'
<1> SUFFICES ASSUME Calls, Agreed, ElementEqual \/ ElementDiffers \/ TryAgain \/ Done PROVE Agreed'
  OBVIOUS
<1>1. mode = "answer" /\ mode # "loop"
  BY DEF ElementEqual, ElementDiffers, TryAgain, Done
<1>2. CASE ElementEqual
  <2>n. PICK n : n = Len(stack)
    OBVIOUS
  <2>1. /\ mode' \notin {"answer", "done"} /\ Len(stack') = n
        /\ \A k \in 1 .. n :
             /\ stack'[k].l = stack[k].l /\ stack'[k].r = stack[k].r
             /\ k < n => stack'[k] = stack[k]
             /\ k = n => stack'[k].i = stack[k].i + 1
    BY <1>2, <2>n, ElementEqualCalls
  <2>2. stack # <<>> /\ result
    BY <1>2 DEF ElementEqual
  <2>3. n \in Nat /\ Question = Pair(stack[n]) /\ CallOf(n) /\ n \in 1 .. n /\ stack \in Seq(Frames)
    BY <2>n, <2>2, QuestionIs DEF Top, Calls
  <2>4. Equal[Pair(stack[n])]
    BY Zenon, <1>1, <2>2, <2>3 DEF Agreed
  <2>5. stack[n] \in Frames
    BY <2>n, <2>3
  <2>6. Turn(stack[n], stack[n].i) = stack[n]
    BY <2>5 DEF Turn, Frames
  <2>7. ASSUME NEW k \in 1 .. n, NEW j \in 1 .. stack'[k].i - 1
        PROVE  Equal[Pair(Turn(stack'[k], j))]
    <3>1. Turn(stack'[k], j) = Turn(stack[k], j)
      BY Zenon, <2>1 DEF Turn
    <3>2. CASE k < n
      BY Zenon, <2>n, <2>1, <2>7, <3>1, <3>2 DEF Agreed
    <3>3. CASE k = n
      <4>1. stack[n].i \in Nat /\ stack'[n].i = stack[n].i + 1
        <5>1. stack[n].i \in Nat
          BY Zenon, <2>5 DEF Frames
        <5> QED BY Zenon, <2>1, <2>3, <5>1
      <4>2. j \in 1 .. stack[n].i - 1 \/ j = stack[n].i
        BY <2>7, <3>3, <4>1
      <4>3. CASE j = stack[n].i
        BY Zenon, <2>4, <2>6, <3>1, <3>3, <4>3
      <4>4. CASE j \in 1 .. stack[n].i - 1
        BY Zenon, <2>n, <2>3, <3>1, <3>3, <4>4 DEF Agreed
      <4> QED BY <4>2, <4>3, <4>4
    <3>4. k < n \/ k = n
      BY <2>3
    <3> QED BY <3>2, <3>3, <3>4
  <2> QED BY Zenon, <2>1, <2>7 DEF Agreed
<1>3. CASE ElementDiffers
  <2>1. stack # <<>> /\ stack' = Below /\ mode' = "answer" /\ UNCHANGED <<left, right>> /\ result' = FALSE
    BY <1>3 DEF ElementDiffers, Leave
  <2> QED BY Zenon, <2>1, PopAgreed
<1>4. CASE TryAgain
  <2>1. stack' = stack /\ mode' \notin {"answer", "done"}
    BY <1>4 DEF TryAgain
  <2> QED BY Zenon, <2>1 DEF Agreed
<1>5. CASE Done
  <2>1. stack = <<>> /\ mode' = "done" /\ UNCHANGED <<left, right, stack, result>>
    BY <1>5 DEF Done
  <2>2. mode' # "call" /\ mode' # "loop"
    BY <2>1
  <2>3. Question' = Question
    BY Zenon, <1>1, <2>1, <2>2, SameCalls
  <2> QED BY Zenon, <1>1, <2>1, <2>3 DEF Agreed
<1> QED BY <1>2, <1>3, <1>4, <1>5

LEMMA StutterAgreed == Agreed /\ UNCHANGED vars => Agreed'
<1> SUFFICES ASSUME Agreed, UNCHANGED vars PROVE Agreed'
  OBVIOUS
<1>1. UNCHANGED <<left, right, mode, result, stack>>
  BY DEF vars
<1>2. \A k : Asked(k)' = Asked(k)
  BY Zenon, <1>1 DEF Asked
<1>3. Question' = Question
  BY Zenon, <1>1, <1>2 DEF Question
<1> QED BY Zenon, <1>1, <1>3 DEF Agreed

\* json.h:324: the answer true is given for equal values only, if no object has a
\* key twice and no two numbers begin with the same byte, where no string or key
\* has a null character inside.  (All three conditions are needed: README, "Where
\* the code does something else".)
THEOREM TrueAnswersAreRight == KeysOnce /\ BytesTell => (Spec => []TrueIsRight)
<1> SUFFICES ASSUME KeysOnce, BytesTell PROVE Spec => []TrueIsRight
  OBVIOUS
<1>1. Init => (PlainArguments => Agreed)
  <2> SUFFICES ASSUME Init PROVE Agreed
    OBVIOUS
  <2>1. stack = <<>> /\ mode \notin {"answer", "done"}
    BY DEF Init
  <2>2. 1 .. Len(stack) = {}
    BY <2>1
  <2> QED BY Zenon, <2>1, <2>2 DEF Agreed
<1>2. Calls /\ PlainCalls /\ (PlainArguments => Agreed) /\ [Next]_vars => (PlainArguments => Agreed)'
  <2> SUFFICES ASSUME Calls, PlainCalls, PlainArguments => Agreed, [Next]_vars, PlainArguments'
               PROVE  Agreed'
    OBVIOUS
  <2>1. PlainArguments
    <3>1. UNCHANGED <<left, right>>
      BY Zenon DEF Next, vars, CompareNulls, CompareKinds, CompareScalars, CompareSizes, Answer, Enter,
         CompareNext, NoSuchKey, AllEqual, ElementEqual, ElementDiffers, TryAgain, Done
    <3> QED BY Zenon, <3>1 DEF PlainArguments
  <2> QED BY Zenon, <2>1, AnswerAgreed, EnterAgreed, LoopAgreed, ReturnAgreed, StutterAgreed DEF Next
<1>3. Calls /\ (PlainArguments => Agreed) => TrueIsRight
  BY Zenon, QuestionIs DEF Calls, Agreed, TrueIsRight
<1> QED BY <1>1, <1>2, <1>3, CallsAlways, PTL DEF Spec
===============================================================================
