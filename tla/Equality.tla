------------------------------ MODULE Equality ------------------------------
(***************************************************************************)
(* json_are_equal (src/src/json.c:500-594): the comparison of two values,  *)
(* one step per call, per element and per answer of a recursive call, with *)
(* the C stack as a sequence of frames.                                    *)
(*                                                                         *)
(* A value is a record.  The entries of an object are listed in the order  *)
(* of their slots, without the empty ones; `id` is the age of an entry.    *)
(* That object_next(o, k, NULL) finds the entry of k with the greatest id  *)
(* is what ObjectTable shows.                                              *)
(*                                                                         *)
(* A parsed string or key may have a null character inside.  strcmp,       *)
(* string_hash and the argument of object_next end at the first of them,   *)
(* and the hash that is kept with a parsed key is that of all its bytes.   *)
(*                                                                         *)
(* An operator named Bad... is a plausible mistake in the definition after *)
(* it: the property it breaks is named in PROJECT.json.                    *)
(***************************************************************************)
EXTENDS Integers, Sequences, FiniteSets

CONSTANTS
  Value,     \* the values that are compared
  Text,      \* strings and keys
  CString,   \* CString[s]: s up to its first null character
  Hash,      \* Hash[s]: the hash of all bytes of s
  LowByte    \* LowByte[n]: the first byte of the double n in memory

\* The null pointer.
Null == [kind |-> "NULL"]

ASSUME TextAssumption ==
  /\ CString \in [Text -> Text] /\ Hash \in [Text -> Nat]
  /\ \A s \in Text : CString[CString[s]] = CString[s]

\* What is in a value is a value.
ASSUME ValueAssumption ==
  \A v \in Value :
    \/ v.kind = "str" /\ v = [kind |-> "str", string |-> v.string] /\ v.string \in Text
    \/ v.kind = "num" /\ v = [kind |-> "num", number |-> v.number]
    \/ v.kind = "bool" /\ v = [kind |-> "bool", boolean |-> v.boolean]
    \/ v = [kind |-> "null"]
    \/ v.kind = "arr" /\ v.items \in Seq(Value)
    \/ /\ v.kind = "obj"
       /\ Len(v.entries) \in Nat
       /\ \A n \in 1 .. Len(v.entries) :
            /\ v.entries[n].key \in Text /\ v.entries[n].value \in Value
            /\ v.entries[n].id \in Nat

VARIABLES
  left, right,   \* arguments of json_are_equal
  at,            \* the pair that are_equal is called for
  mode,          \* "call", "loop" (inside a container), "answer" or "done"
  result,        \* the last answer of are_equal
  diff,          \* <<*left_diff, *right_diff>>
  stack          \* calls of arrays_are_equal and objects_are_equal

vars == <<left, right, at, mode, result, diff, stack>>

Top == stack[Len(stack)]
Below == SubSeq(stack, 1, Len(stack) - 1)

-----------------------------------------------------------------------------
Items(v) == IF v.kind = "arr" THEN v.items ELSE v.entries
KeysOf(o) == {o.entries[n].key : n \in 1..Len(o.entries)}

\* object_next takes an entry with the key k for one under s.
Under(k, s) == Hash[k] = Hash[s] /\ CString[k] = s

\* object_next(o, s, NULL), for a string s without a null character inside.
Newest(o, s) ==
  LET under == {n \in 1..Len(o.entries) : Under(o.entries[n].key, s)}
  IN  IF under = {} THEN Null
      ELSE o.entries[CHOOSE n \in under :
                       \A j \in under : o.entries[j].id <= o.entries[n].id].value

Container(v) == v.kind \in {"arr", "obj"}

\* The keys that object_add tells apart.
UniqueSize(o) == Cardinality({<<Hash[k], CString[k]>> : k \in KeysOf(o)})

\* The size of an array; size and unique_size of an object.
BadSameSize(l, r) == l.kind = "obj" \/ Len(Items(l)) <= Len(Items(r))
SameSize(l, r) ==
  /\ Len(Items(l)) = Len(Items(r))
  /\ l.kind = "obj" => UniqueSize(l) = UniqueSize(r)

\* Numbers are compared as if they were booleans: by the first byte of the
\* double.  (Undefined for a byte other than 0 and 1; builds compare the bytes.)
SameScalar(l, r) ==
  CASE l.kind = "num"  -> LowByte[l.number] = LowByte[r.number]
    [] l.kind = "bool" -> l.boolean = r.boolean
    [] l.kind = "str"  -> CString[l.string] = CString[r.string]
    [] l.kind = "null" -> TRUE

-----------------------------------------------------------------------------
Init ==
  /\ left \in Value \cup {Null} /\ right \in Value \cup {Null}
  /\ at = <<left, right>>
  /\ mode = "call"
  /\ result = TRUE
  /\ diff = <<Null, Null>>
  /\ stack = <<>>

(* are_equal(at[1], at[2]) answers b by itself.                            *)
Answer(b) ==
  /\ result' = b
  /\ diff' = IF b THEN diff ELSE at
  /\ mode' = "answer"
  /\ UNCHANGED <<left, right, at, stack>>

CompareNulls ==
  /\ mode = "call"
  /\ Null \in {at[1], at[2]}
  /\ Answer(at[1] = at[2])

CompareKinds ==
  /\ mode = "call"
  /\ Null \notin {at[1], at[2]}
  /\ at[1].kind # at[2].kind
  /\ Answer(FALSE)

SameKind == mode = "call" /\ Null \notin {at[1], at[2]} /\ at[1].kind = at[2].kind

CompareScalars ==
  /\ SameKind /\ ~Container(at[1])
  /\ Answer(SameScalar(at[1], at[2]))

CompareSizes ==
  /\ SameKind /\ Container(at[1]) /\ ~SameSize(at[1], at[2])
  /\ Answer(FALSE)

(* The call of arrays_are_equal or objects_are_equal.                      *)
Enter ==
  /\ SameKind /\ Container(at[1]) /\ SameSize(at[1], at[2])
  /\ stack' = Append(stack, [l |-> at[1], r |-> at[2], i |-> 1])
  /\ mode' = "loop"
  /\ UNCHANGED <<left, right, at, result, diff>>

\* A container answers b; are_equal passes the answer on and leaves diff alone.
BadLeave(b) ==
  /\ result' = b
  /\ diff' = IF b THEN diff ELSE <<Top.l, Top.r>>
  /\ mode' = "answer"
  /\ stack' = Below
Leave(b) ==
  /\ result' = b
  /\ UNCHANGED diff
  /\ mode' = "answer"
  /\ stack' = Below

\* The values the loop compares: elements at the same index, or the value of an
\* entry with the newest one of that key on the right.
BadPair(f) ==
  IF f.l.kind = "arr" THEN <<f.l.items[f.i], f.r.items[1]>>
  ELSE <<f.l.entries[f.i].value, Newest(f.r, CString[f.l.entries[f.i].key])>>
Pair(f) ==
  IF f.l.kind = "arr" THEN <<f.l.items[f.i], f.r.items[f.i]>>
  ELSE <<f.l.entries[f.i].value, Newest(f.r, CString[f.l.entries[f.i].key])>>

HasNext(f) == f.i <= Len(Items(f.l))

CompareNext ==
  /\ mode = "loop" /\ HasNext(Top)
  /\ Pair(Top)[2] # Null
  /\ at' = Pair(Top)
  /\ mode' = "call"
  /\ UNCHANGED <<left, right, result, diff, stack>>

\* The object on the right has no value under the key.
NoSuchKey ==
  /\ mode = "loop" /\ HasNext(Top)
  /\ Pair(Top)[2] = Null
  /\ result' = FALSE /\ diff' = Pair(Top)
  /\ mode' = "answer" /\ stack' = Below
  /\ UNCHANGED <<left, right, at>>

AllEqual ==
  /\ mode = "loop" /\ ~HasNext(Top)
  /\ Leave(TRUE)
  /\ UNCHANGED <<left, right, at>>

\* An element was equal: the loop goes on.
BadElementEqual ==
  /\ mode = "answer" /\ stack # <<>> /\ result
  /\ mode' = "loop"
  /\ UNCHANGED <<left, right, at, result, diff, stack>>
ElementEqual ==
  /\ mode = "answer" /\ stack # <<>> /\ result
  /\ stack' = [stack EXCEPT ![Len(stack)].i = @ + 1]
  /\ mode' = "loop"
  /\ UNCHANGED <<left, right, at, result, diff>>

ElementDiffers ==
  /\ mode = "answer" /\ stack # <<>> /\ ~result
  /\ Top.l.kind = "arr"
  /\ Leave(FALSE)
  /\ UNCHANGED <<left, right, at>>

\* `while (right_value && !are_equal(...))`: look for another value of the key,
\* from the beginning.
TryAgain ==
  /\ mode = "answer" /\ stack # <<>> /\ ~result
  /\ Top.l.kind = "obj"
  /\ mode' = "loop"
  /\ UNCHANGED <<left, right, at, result, diff, stack>>

Done ==
  /\ mode = "answer" /\ stack = <<>>
  /\ mode' = "done"
  /\ UNCHANGED <<left, right, at, result, diff, stack>>

Next ==
  \/ CompareNulls \/ CompareKinds \/ CompareScalars \/ CompareSizes \/ Enter
  \/ CompareNext \/ NoSuchKey \/ AllEqual
  \/ ElementEqual \/ ElementDiffers \/ TryAgain
  \/ Done

(* The call is sequential and nothing blocks it: it always goes on.        *)
Spec == Init /\ [][Next]_vars /\ WF_vars(Next)

-----------------------------------------------------------------------------
(* What equality means.  Nothing here is translated from the code.         *)

Pairs == (Value \cup {Null}) \X (Value \cup {Null})

\* Objects are equal when their entries can be paired off, key by key.
Equal[p \in Pairs] ==
  LET l == p[1]
      r == p[2]
  IN  /\ l.kind = r.kind
      /\ CASE l.kind = "arr" -> /\ Len(l.items) = Len(r.items)
                                /\ \A j \in 1..Len(l.items) : Equal[<<l.items[j], r.items[j]>>]
           [] l.kind = "obj" ->
                /\ Len(l.entries) = Len(r.entries)
                /\ \E q \in [1..Len(l.entries) -> 1..Len(l.entries)] :
                     /\ \A j, k \in 1..Len(l.entries) : j # k => q[j] # q[k]
                     /\ \A j \in 1..Len(l.entries) :
                          /\ l.entries[j].key = r.entries[q[j]].key
                          /\ Equal[<<l.entries[j].value, r.entries[q[j]].value>>]
           [] OTHER -> l = r

\* No string or key in v has a null character inside.
Plain[v \in Value \cup {Null}] ==
  /\ v.kind = "str" => CString[v.string] = v.string
  /\ v.kind = "arr" => \A j \in 1..Len(v.items) : Plain[v.items[j]]
  /\ v.kind = "obj" => \A j \in 1..Len(v.entries) :
                         /\ CString[v.entries[j].key] = v.entries[j].key
                         /\ Plain[v.entries[j].value]

PlainArguments == Plain[left] /\ Plain[right]

-----------------------------------------------------------------------------
TypeOK ==
  /\ mode \in {"call", "loop", "answer", "done"}
  /\ result \in BOOLEAN
  /\ \A n \in 1..Len(stack) :
       /\ Container(stack[n].l) /\ stack[n].l.kind = stack[n].r.kind
       /\ stack[n].i \in 1 .. Len(Items(stack[n].l)) + 1

\* (TrueIsRight) "Checks whether two json values are semantically equal"
\* (includes/json.h:324): the answer true is given for equal values only, where
\* no string or key has a null character inside.
TrueIsRight == PlainArguments /\ mode = "done" /\ result => Equal[<<left, right>>]

\* (FalseIsRight) The answer false is given for different values only.  (With a
\* null character inside a key, an object is not even equal to itself.)
FalseIsRight == PlainArguments /\ mode = "done" /\ ~result => ~Equal[<<left, right>>]

\* (DiffIsInnermost) What json_are_equal returns beside false is a pair of nodes
\* that do differ, and not merely because of something inside of them: were
\* both arrays or both objects, then of different sizes.
DiffIsInnermost ==
  mode = "done" /\ ~result =>
    /\ ~Equal[diff]
    /\ Container(diff[1]) /\ diff[1].kind = diff[2].kind => ~SameSize(diff[1], diff[2])

\* (EqualEnds) Of equal values, the comparison ends, where no object has a key
\* twice and no string or key has a null character inside.
EqualEnds == PlainArguments /\ Equal[<<left, right>>] ~> mode = "done"

\* (ComparisonEnds) json_are_equal returns "Whether left semantically equal to
\* right" (includes/json.h:331).  Not kept: objects_are_equal looks for another
\* value under the key with object_next(right, key, NULL), which is the same one
\* each time.
ComparisonEnds == <>(mode = "done")
=============================================================================
