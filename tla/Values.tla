-------------------------------- MODULE Values --------------------------------
(***************************************************************************)
(* A user's values and the memory they own: the functions of src/src/json.c *)
(* that create, change, copy and free them, on top of src/src/array.c,     *)
(* src/src/string.c and src/src/object.c, when allocations may fail.       *)
(*                                                                         *)
(* `heap` has what a struct jsonValue says, by its address; `live` counts  *)
(* all blocks that are allocated, also those that nobody can free any more *)
(* (which are taken out of `heap`).  A call is one step, but json_copy has *)
(* one step for each turn of its loops, with the C stack in `stack`.       *)
(*                                                                         *)
(* The user plays by the rules: he uses a value only as long as it is not  *)
(* freed, gives it to one array or object, and to none inside of it.       *)
(* Numbers, booleans and null are "scalar"s.  The entries of an object are *)
(* in the order of its table, which ObjectTable.tla models: here a new one *)
(* gets any place.                                                         *)
(*                                                                         *)
(* An operator named Bad... is a plausible mistake in the definition after *)
(* it: the property it breaks is named in PROJECT.json.                    *)
(***************************************************************************)
EXTENDS Integers, Sequences, FiniteSets, SequencesExt, FiniteSetsExt, Functions, TLC

CONSTANTS
  Node,             \* addresses of struct jsonValue, twice MaxValues are enough
  NULL,             \* the null pointer
  Junk,             \* the text of a key that string_create_str leaves without
                    \* data: a null pointer, with a hash that is not initialised
  Scalar, Zero,     \* contents of scalars; 0 and false
  Text,             \* contents of strings
  PrimeCapacities,  \* of object.c, as a sequence; the last is enough for any
                    \* object there is memory for
  InitialCapacity,  \* of array.c
  Capacity,         \* what the user estimates for a new array or object
  MaxValues,        \* bound: values the user makes; when copies make them more
                    \* he only frees
  MaxRoots,         \* bound: values he holds at once
  MaxFailures,      \* bound: allocations that fail
  MaxLost           \* bound: no more calls once as many blocks are lost

ASSUME ValuesAssumption ==
  /\ Zero \in Scalar /\ {NULL, Junk} \cap Text = {} /\ NULL \notin Node
  /\ InitialCapacity \in Nat \ {0} /\ Capacity \subseteq Nat
  /\ {MaxValues, MaxRoots, MaxFailures, MaxLost} \subseteq Nat
  /\ Cardinality(Node) >= 2 * MaxValues
  /\ PrimeCapacities \in Seq(Nat) /\ PrimeCapacities # <<>>
  /\ PrimeCapacities[Len(PrimeCapacities)] >= 2 * MaxValues

VARIABLES
  heap,      \* heap[n]: the value at address n
  live,      \* blocks allocated
  roots,     \* values that are the user's to free
  result,    \* whether the last call succeeded
  pc,        \* "idle"; in json_copy "copy", "loop" or "return"; "aborted"
  at,        \* argument of the innermost json_copy
  ret,       \* what a call of json_copy returned
  stack,     \* duplicate_object and duplicate_array under way
  source,    \* argument of the user's json_copy; NULL when it is another call
  failures,  \* history: allocations that failed
  before     \* history: failures, and blocks lost, before the last json_copy

memory == <<heap, live>>
copying == <<at, ret, stack>>
vars == <<memory, roots, result, pc, copying, source, failures, before>>

-----------------------------------------------------------------------------
(* Values in memory.                                                       *)

ScalarOf(s) == [kind |-> "scalar", value |-> s]
StringOf(t) == [kind |-> "str", data |-> t]
ArrayOf(c, s) == [kind |-> "arr", capacity |-> c, values |-> s]
ObjectOf(c, s) == [kind |-> "obj", capacity |-> c, entries |-> s]

Dataless == {NULL, Junk}
KeyBlocks(k) == IF k \in Dataless THEN 1 ELSE 2

\* How many blocks a value is made of, without those of the values in it.
Blocks(v) ==
  CASE v.kind = "scalar" -> 1
    [] v.kind = "str" -> IF v.data = NULL THEN 1 ELSE 2
    [] v.kind = "arr" -> IF v.capacity = 0 THEN 1 ELSE 2
    [] v.kind = "obj" -> (IF v.capacity = 0 THEN 1 ELSE 2)
                           + FoldLeft(LAMBDA n, e : n + KeyBlocks(e.key), 0, v.entries)

Children(v) ==
  CASE v.kind = "arr" -> {v.values[n] : n \in DOMAIN v.values}
    [] v.kind = "obj" -> {v.entries[n].value : n \in DOMAIN v.entries}
    [] OTHER -> {}

\* Value n with all that is in it.
Below(n) ==
  LET below[m \in DOMAIN heap] == {m} \cup UNION {below[c] : c \in Children(heap[m])}
  IN  below[n]
Reachable(S) == UNION {Below(n) : n \in S}
BlocksOf(S) == MapThenSumSet(LAMBDA n : Blocks(heap[n]), S)

Unused == Node \ DOMAIN heap
NewNode == CHOOSE n \in Unused : TRUE

\* A constructor that finds all the memory it needs.
Make(v) ==
  /\ Unused # {}
  /\ heap' = [n \in DOMAIN heap \cup {NewNode} |-> IF n = NewNode THEN v ELSE heap[n]]
  /\ live' = live + Blocks(v)

\* json_value_free
FreeTree(n) ==
  /\ heap' = Restrict(heap, DOMAIN heap \ Below(n))
  /\ live' = live - BlocksOf(Below(n))

Fail == failures < MaxFailures /\ failures' = failures + 1

\* object_reserve: the capacity for n entries
TableFor(n) ==
  IF n = 0 THEN 0
  ELSE LET enough == {m \in DOMAIN PrimeCapacities : 2 * n <= PrimeCapacities[m]}
       IN  PrimeCapacities[IF enough = {} THEN Len(PrimeCapacities) ELSE Min(enough)]
Grows(o) == 2 * (Len(o.entries) + 1) > o.capacity

\* Of two keys of the same hash object_add compares the contents, which is
\* undefined behaviour when one has none: a key of json_object_add without data
\* has the hash that no text has, one of json_copy may have any.
MeetsNull(o, key) ==
  \E n \in DOMAIN o.entries :
    LET other == o.entries[n].key
    IN  Junk \in {key, other} \/ {key, other} = {NULL}

\* Object o after object_add
WithEntry(o, key, n, place) ==
  [o EXCEPT !.entries = InsertAt(@, place, [key |-> key, value |-> n]),
            !.capacity = IF Grows(o) THEN TableFor(Len(o.entries) + 1) ELSE @]
Places(o) == 1 .. Len(o.entries) + 1

-----------------------------------------------------------------------------
(* Calls.                                                                  *)

Lost == live - BlocksOf(Reachable(roots))

Call == pc = "idle" /\ Lost <= MaxLost /\ Cardinality(DOMAIN heap) <= MaxValues
NewRoot == Cardinality(roots) < MaxRoots
None == [failures |-> 0, lost |-> 0]
Done(r) ==
  /\ result' = r /\ pc' = "idle"
  /\ source' = NULL /\ at' = NULL /\ ret' = NULL /\ before' = None
  /\ UNCHANGED stack
Abort == pc' = "aborted" /\ UNCHANGED <<memory, roots, result, copying, source, before>>

Init ==
  /\ heap = <<>> /\ live = 0 /\ roots = {}
  /\ result = TRUE /\ pc = "idle" /\ source = NULL
  /\ at = NULL /\ ret = NULL /\ stack = <<>>
  /\ failures = 0 /\ before = None

(* json_create_number, json_create_boolean, json_create_null,              *)
(* json_create_string, json_create_array and json_create_object            *)
NewValues ==
  {ScalarOf(s) : s \in Scalar} \cup {StringOf(t) : t \in Text}
    \cup {ArrayOf(c, <<>>) : c \in Capacity} \cup {ObjectOf(TableFor(c), <<>>) : c \in Capacity}

Create(v) ==
  /\ Call /\ NewRoot /\ Cardinality(DOMAIN heap) < MaxValues
  /\ Make(v)
  /\ roots' = roots \cup {NewNode}
  /\ Done(TRUE)
  /\ UNCHANGED failures

\* The struct is freed again when what it points to cannot be allocated.
CreateFails == Call /\ Fail /\ Done(FALSE) /\ UNCHANGED <<memory, roots>>

(* json_set_number and json_set_boolean, which refuse 0 and false.         *)
SetScalar(n, s) ==
  /\ Call
  /\ heap[n].kind = "scalar"
  /\ heap' = IF s = Zero THEN heap ELSE [heap EXCEPT ![n].value = s]
  /\ Done(s # Zero)
  /\ UNCHANGED <<live, roots, failures>>

(* json_set_string                                                         *)
BadSetString(n, t) ==
  /\ Call
  /\ heap[n].kind = "str"
  /\ \/ /\ heap' = [heap EXCEPT ![n].data = t] /\ live' = live + 1
        /\ Done(TRUE) /\ UNCHANGED failures
     \/ /\ Fail /\ Done(FALSE) /\ UNCHANGED memory
  /\ UNCHANGED roots
SetString(n, t) ==
  /\ Call
  /\ heap[n].kind = "str"
  /\ LET freed == IF heap[n].data = NULL THEN 0 ELSE 1
     IN  \/ /\ heap' = [heap EXCEPT ![n].data = t] /\ live' = live - freed + 1
            /\ Done(TRUE) /\ UNCHANGED failures
         \/ /\ heap' = [heap EXCEPT ![n].data = NULL] /\ live' = live - freed
            /\ Fail /\ Done(FALSE)
  /\ UNCHANGED roots

(* json_array_append: array_append, array_double, array_reserve            *)
Doubled(c) == IF c = 0 THEN InitialCapacity ELSE 2 * c

ArrayAppend(a, n) ==
  /\ Call
  /\ heap[a].kind = "arr"
  /\ LET full == Len(heap[a].values) = heap[a].capacity
         first == full /\ heap[a].capacity = 0
     IN  \/ /\ heap' = [heap EXCEPT ![a].values = Append(@, n),
                                    ![a].capacity = IF full THEN Doubled(@) ELSE @]
            /\ live' = IF first THEN live + 1 ELSE live
            /\ roots' = roots \ {n}
            /\ Done(TRUE) /\ UNCHANGED failures
         \/ /\ full
            /\ Fail /\ Done(FALSE) /\ UNCHANGED <<memory, roots>>

(* json_object_add.  A key that string_init_str finds no memory for is     *)
(* added without data; one that is not added is lost.                      *)
Add(o, text, n) ==
  /\ Call
  /\ heap[o].kind = "obj"
  /\ \E key \in {text, NULL} :
       /\ IF key = NULL THEN Fail ELSE UNCHANGED failures
       /\ \/ /\ \E place \in Places(heap[o]) :
                  heap' = [heap EXCEPT ![o] = WithEntry(@, key, n, place)]
             /\ live' = live + KeyBlocks(key) + IF heap[o].capacity = 0 THEN 1 ELSE 0
             /\ roots' = roots \ {n}
             /\ Done(TRUE)
          \/ MeetsNull(heap[o], key) /\ Abort

\* There is no memory for the larger table.
AddFails(o, text) ==
  /\ Call
  /\ heap[o].kind = "obj" /\ Grows(heap[o])
  /\ \E key \in {text, NULL} :
       /\ failures' = failures + (IF key = NULL THEN 2 ELSE 1) /\ failures' <= MaxFailures
       /\ live' = live + KeyBlocks(key)
  /\ Done(FALSE)
  /\ UNCHANGED <<heap, roots>>

\* string_create returns a null pointer, which string_init_str dereferences.
AddAborts(o) == Call /\ heap[o].kind = "obj" /\ Fail /\ Abort

(* json_value_free                                                         *)
Free(n) ==
  /\ pc = "idle"
  /\ FreeTree(n)
  /\ roots' = roots \ {n}
  /\ Done(TRUE)
  /\ UNCHANGED failures

-----------------------------------------------------------------------------
(* json_copy                                                               *)

Copy(n) ==
  /\ Call /\ NewRoot
  /\ before' = [failures |-> failures, lost |-> Lost]
  /\ pc' = "copy" /\ at' = n /\ source' = n
  /\ UNCHANGED <<memory, roots, result, ret, stack, failures>>

Top == stack[Len(stack)]
SetTop(frame) == stack' = [stack EXCEPT ![Len(stack)] = frame]
Pop == stack' = SubSeq(stack, 1, Len(stack) - 1)
Push(frame) == stack' = Append(stack, frame)
Return(n) == pc' = "return" /\ ret' = n

CopyLeaf ==
  /\ pc = "copy" /\ heap[at].kind \in {"scalar", "str"}
  /\ \/ /\ heap[at] # StringOf(NULL)
        /\ \/ Make(heap[at]) /\ Return(NewNode) /\ UNCHANGED failures
           \/ Fail /\ Return(NULL) /\ UNCHANGED memory
     \/ /\ heap[at] = StringOf(NULL)  \* json_create_string(NULL)
        /\ Return(NULL) /\ UNCHANGED <<memory, failures>>
  /\ UNCHANGED <<at, stack, roots, result, source, before>>

\* duplicate_array gives up when the new array was created, and loses it.
\* Otherwise it goes on without one.
BadCopyArray ==
  /\ pc = "copy" /\ heap[at].kind = "arr"
  /\ heap' = (NewNode :> ArrayOf(0, <<>>)) @@ heap /\ live' = live + 1
  /\ Return(NewNode)
  /\ UNCHANGED <<at, stack, roots, result, source, failures, before>>
CopyArray ==
  /\ pc = "copy" /\ heap[at].kind = "arr"
  /\ LET n == Len(heap[at].values)
     IN  \/ /\ live' = live + Blocks(ArrayOf(n, <<>>))
            /\ Return(NULL)
            /\ UNCHANGED <<at, stack, failures>>
         \/ /\ Fail
            /\ n = 0 /\ Return(NULL)
            /\ UNCHANGED <<at, stack, live>>
         \/ /\ Fail
            /\ n > 0
            /\ Push([kind |-> "arr"])
            /\ at' = heap[at].values[1]
            /\ UNCHANGED <<pc, ret, live>>
  /\ UNCHANGED <<heap, roots, result, source, before>>

\* json_array_append(NULL, value_copy) fails, and json_free(value_copy) frees
\* no more than the struct.
EndArray ==
  /\ pc = "return" /\ stack # <<>> /\ Top.kind = "arr"
  /\ Pop
  /\ IF ret = NULL THEN UNCHANGED memory
     ELSE heap' = Restrict(heap, DOMAIN heap \ Below(ret)) /\ live' = live - 1
  /\ Return(NULL)
  /\ UNCHANGED <<at, roots, result, source, failures, before>>

\* duplicate_object up to its loop
BadCopyTable(v) == 0
CopyTable(v) == TableFor(Len(v.entries))

CopyObject ==
  /\ pc = "copy" /\ heap[at].kind = "obj"
  /\ \/ /\ Make(ObjectOf(CopyTable(heap[at]), <<>>))
        /\ Push([kind |-> "obj", object |-> at, copy |-> NewNode, i |-> 0, key |-> NULL])
        /\ pc' = "loop"
        /\ UNCHANGED <<ret, failures>>
     \/ Fail /\ Return(NULL) /\ UNCHANGED <<memory, stack>>
  /\ UNCHANGED <<at, roots, result, source, before>>

Looping == pc = "loop" /\ Top.i < Len(heap[Top.object].entries)
Upcoming == heap[Top.object].entries[Top.i + 1]

\* key_copy = string_create_str(key->data), which may have no data
CopyKey ==
  /\ Looping /\ Upcoming.key \notin Dataless
  /\ \E key \in {Upcoming.key, Junk} :
       /\ IF key = Junk THEN Fail ELSE UNCHANGED failures
       /\ live' = live + KeyBlocks(key)
       /\ SetTop([Top EXCEPT !.key = key])
  /\ at' = Upcoming.value /\ pc' = "copy"
  /\ UNCHANGED <<heap, ret, roots, result, source, before>>

\* string_init_str(string, NULL)
CopyKeyAborts == Looping /\ Upcoming.key \in Dataless /\ Abort /\ UNCHANGED failures

\* `fail`: the data of key_copy and the struct of copy are freed, what else
\* they own is lost.
GiveUp(keyData) ==
  /\ heap' = Restrict(heap, DOMAIN heap \ Below(Top.copy))
  /\ live' = live - keyData - 1
  /\ Pop /\ Return(NULL)

\* string_create_str has no memory for its struct, before it looks at the data.
CopyKeyFails ==
  /\ Looping
  /\ Fail /\ GiveUp(0)
  /\ UNCHANGED <<at, roots, result, source, before>>

EntryFails ==
  /\ pc = "return" /\ stack # <<>> /\ Top.kind = "obj" /\ ret = NULL
  /\ GiveUp(KeyBlocks(Top.key) - 1)
  /\ UNCHANGED <<at, roots, result, source, failures, before>>

\* object_add(&copy->v.object, key_copy, value_copy), which finds the table
\* large enough (RoomForCopy)
BadAddCopy ==
  /\ pc = "return" /\ stack # <<>> /\ Top.kind = "obj" /\ ret # NULL
  /\ \E place \in Places(heap[Top.copy]) :
       heap' = [heap EXCEPT ![Top.copy] = WithEntry(@, Top.key, Upcoming.value, place)]
  /\ SetTop([Top EXCEPT !.i = @ + 1, !.key = NULL])
  /\ pc' = "loop"
  /\ UNCHANGED <<live, at, ret, roots, result, source, failures, before>>
AddCopy ==
  /\ pc = "return" /\ stack # <<>> /\ Top.kind = "obj" /\ ret # NULL
  /\ \/ /\ \E place \in Places(heap[Top.copy]) :
             heap' = [heap EXCEPT ![Top.copy] = WithEntry(@, Top.key, ret, place)]
        /\ SetTop([Top EXCEPT !.i = @ + 1, !.key = NULL])
        /\ pc' = "loop"
        /\ UNCHANGED <<live, at, ret, roots, result, source, before>>
     \/ MeetsNull(heap[Top.copy], Top.key) /\ Abort
  /\ UNCHANGED failures

EndObject ==
  /\ pc = "loop" /\ Top.i = Len(heap[Top.object].entries)
  /\ Pop /\ Return(Top.copy)
  /\ UNCHANGED <<memory, at, roots, result, source, failures, before>>

EndCopy ==
  /\ pc = "return" /\ stack = <<>>
  /\ roots' = roots \cup ({ret} \ {NULL})
  /\ result' = (ret # NULL)
  /\ pc' = "idle" /\ at' = NULL
  /\ UNCHANGED <<memory, ret, stack, source, failures, before>>

CopyStep ==
  \/ CopyLeaf \/ CopyArray \/ EndArray \/ CopyObject \/ CopyKey \/ CopyKeyAborts
  \/ CopyKeyFails \/ EntryFails \/ AddCopy \/ EndObject \/ EndCopy

-----------------------------------------------------------------------------
Next ==
  \/ \E v \in NewValues : Create(v)
  \/ CreateFails
  \/ \E n \in Reachable(roots) :
       \/ \E s \in Scalar : SetScalar(n, s)
       \/ \E t \in Text : SetString(n, t)
       \/ \E m \in roots : n \notin Below(m) /\ (ArrayAppend(n, m) \/ \E t \in Text : Add(n, t, m))
       \/ \E m \in roots : n \notin Below(m) /\ (AddAborts(n) \/ \E t \in Text : AddFails(n, t))
       \/ Copy(n)
  \/ \E n \in roots : Free(n)
  \/ CopyStep

Spec == Init /\ [][Next]_vars

-----------------------------------------------------------------------------
Frame(f) ==
  \/ f = [kind |-> "arr"]
  \/ /\ DOMAIN f = {"kind", "object", "copy", "i", "key"}
     /\ f.kind = "obj" /\ {f.object, f.copy} \subseteq DOMAIN heap
     /\ f.i \in 0 .. Len(heap[f.object].entries) /\ f.key \in Text \cup Dataless

TypeOK ==
  /\ DOMAIN heap \subseteq Node
  /\ \A n \in DOMAIN heap :
       \/ heap[n] \in {ScalarOf(s) : s \in Scalar} \cup {StringOf(t) : t \in Text \cup {NULL}}
       \/ /\ heap[n].kind \in {"arr", "obj"}
          /\ heap[n].capacity >= IF heap[n].kind = "arr" THEN Len(heap[n].values)
                                                        ELSE 2 * Len(heap[n].entries)
          /\ Children(heap[n]) \subseteq DOMAIN heap
  /\ live \in Nat /\ roots \subseteq DOMAIN heap
  /\ result \in BOOLEAN
  /\ pc \in {"idle", "copy", "loop", "return", "aborted"}
  /\ {at, ret, source} \subseteq Node \cup {NULL}
  /\ \A n \in DOMAIN stack : Frame(stack[n])
  /\ failures \in 0 .. MaxFailures
  /\ before.failures \in 0 .. failures /\ before.lost \in Nat

\* Where a value belongs to: the user, a call of json_copy, or a place in
\* another value.
Owners(n) ==
  (IF n \in roots THEN {<<"user">>} ELSE {})
    \cup {<<"copy", f>> : f \in {g \in DOMAIN stack : stack[g].kind = "obj" /\ stack[g].copy = n}}
    \cup (IF pc = "return" /\ ret = n THEN {<<"ret">>} ELSE {})
    \cup UNION {LET v == heap[m] IN
                  CASE v.kind = "arr" -> {<<m, k>> : k \in {j \in DOMAIN v.values : v.values[j] = n}}
                    [] v.kind = "obj" -> {<<m, k>> : k \in {j \in DOMAIN v.entries : v.entries[j].value = n}}
                    [] OTHER -> {} : m \in DOMAIN heap}

\* (OneOwner) Whatever calls have failed, every value has one owner, who will
\* free it once, and none refers to a value that is freed: a copy shares
\* nothing with what it is a copy of (json.c:411-468), an append or add that
\* fails leaves the value to the user.
OneOwner ==
  pc # "aborted" =>
    \A n \in DOMAIN heap : Children(heap[n]) \subseteq DOMAIN heap /\ Cardinality(Owners(n)) = 1

\* (SuccessLosesNothing) A call that succeeds leaves no block behind that
\* nobody owns, even when an allocation failed in the middle of it.
SuccessLosesNothing ==
  [][pc' = "idle" /\ result' => Lost' = IF pc = "idle" THEN Lost ELSE before.lost]_vars

\* A sequence as a bag.
Counted(fields) == [f \in ToSet(fields) |-> Cardinality({k \in DOMAIN fields : fields[k] = f})]

\* What v says, when a value n in it says g[n]: an object is a bag of keys and
\* values.
Content(v, g) ==
  CASE v.kind = "scalar" -> <<"scalar", v.value>>
    [] v.kind = "str" -> <<"str", v.data>>
    [] v.kind = "arr" -> <<"arr", [k \in DOMAIN v.values |-> g[v.values[k]]]>>
    [] v.kind = "obj" ->
         <<"obj", Counted([k \in DOMAIN v.entries |-> <<v.entries[k].key, g[v.entries[k].value]>>])>>

Meaning(n) ==
  LET meaning[m \in DOMAIN heap] == Content(heap[m], meaning)
  IN  meaning[n]

Copied == pc = "idle" /\ source # NULL

\* (CopyIsFaithful) A copy that json_copy returns when no allocation failed in
\* it says the same as its source.
CopyIsFaithful ==
  Copied /\ ret # NULL /\ failures = before.failures => Meaning(ret) = Meaning(source)

\* (RoomForCopy) duplicate_object never has to look for a larger table, so that
\* object_add cannot fail in it, and a value_copy get lost there (json.c:433).
RoomForCopy == pc = "return" /\ stack # <<>> /\ Top.kind = "obj" => ~Grows(heap[Top.copy])

-----------------------------------------------------------------------------
\* (ReturnsACopy) "\returns A copy of \p value." (json.h:318), when no
\* allocation fails.  Not kept: json_copy of an array, or of an object with one
\* in it, returns a null pointer.
ReturnsACopy == Copied /\ failures = 0 => ret # NULL
=============================================================================
