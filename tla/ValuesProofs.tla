---------------------------- MODULE ValuesProofs ----------------------------
(***************************************************************************)
(* Theorems about the memory of values (module Values), for every set of   *)
(* addresses, scalars and texts, and all bounds.                           *)
(*                                                                         *)
(* OneOwner counts owners; what is inductive is the shape of the memory.   *)
(* Forest says that it is a forest: the tops are what the user, a call of  *)
(* json_copy or its return value own, every other value has one place in   *)
(* another, and nothing is inside of itself.  The last is stated as an     *)
(* induction principle (every set of values has one with no child in it),  *)
(* from which follows what the recursive definition of Below computes.     *)
(*                                                                         *)
(* SuccessLosesNothing compares sums.  A sum is a cardinality here         *)
(* (Weight), so that the folds of the model are shown to be one, and what  *)
(* a step changes is said by the library's theorems; Ledger has what is    *)
(* allocated while json_copy is at work.                                   *)
(*                                                                         *)
(* CopyIsFaithful compares what values say.  That there is a function as   *)
(* the definition of Meaning asks for is shown first, as nothing is inside *)
(* of itself (SaysIsSaid), and that it does not depend on what a value     *)
(* does not have in it (SaysTheSame).  GoesRight has what json_copy has    *)
(* made at each moment: in every call of duplicate_object the first        *)
(* entries, in some order.                                                 *)
(***************************************************************************)
EXTENDS Values, FiniteSetTheorems, SequenceTheorems, WellFoundedInduction, TLAPS

-----------------------------------------------------------------------------
(* Forests.                                                                *)

\* The values in a value, in their places.
Slots(v) == CASE v.kind = "arr" -> v.values
              [] v.kind = "obj" -> [k \in DOMAIN v.entries |-> v.entries[k].value]
              [] OTHER -> <<>>
Kids(h) == [m \in DOMAIN h |-> Slots(h[m])]

Closed(kids, S) == \A m \in S : \A k \in DOMAIN kids[m] : kids[m][k] \in S

\* Nothing points into S from outside.
Apart(kids, S) == \A m \in DOMAIN kids : \A k \in DOMAIN kids[m] : kids[m][k] \in S => m \in S

\* n and what is below it.
Tree(kids, n) == {x \in DOMAIN kids : \A S \in SUBSET DOMAIN kids : n \in S /\ Closed(kids, S) => x \in S}

Inside(kids, tops) ==
  /\ tops \subseteq DOMAIN kids
  /\ \A m \in DOMAIN kids : \A k \in DOMAIN kids[m] : kids[m][k] \in DOMAIN kids \ tops

Placed(kids, tops) ==
  \A n \in DOMAIN kids \ tops : \E m \in DOMAIN kids : \E k \in DOMAIN kids[m] : kids[m][k] = n

PlacedOnce(kids) ==
  \A m1, m2 \in DOMAIN kids : \A k1 \in DOMAIN kids[m1], k2 \in DOMAIN kids[m2] :
    kids[m1][k1] = kids[m2][k2] => m1 = m2 /\ k1 = k2

Acyclic(kids) ==
  \A S \in SUBSET DOMAIN kids :
    S # {} => \E m \in S : \A k \in DOMAIN kids[m] : kids[m][k] \notin S

Forest(kids, tops) ==
  Inside(kids, tops) /\ Placed(kids, tops) /\ PlacedOnce(kids) /\ Acyclic(kids)

-----------------------------------------------------------------------------
(* The inductive invariant.                                                *)

Entry == [key : Text \cup Dataless, value : Node]
ScalarSet == [kind : {"scalar"}, value : Scalar]
StringSet == [kind : {"str"}, data : Text \cup {NULL}]
ArraySet == [kind : {"arr"}, capacity : Nat, values : Seq(Node)]
ObjectSet == [kind : {"obj"}, capacity : Nat, entries : Seq(Entry)]
ValueSet == ScalarSet \cup StringSet \cup ArraySet \cup ObjectSet

ArrayFrame == [kind : {"arr"}]
ObjectFrame == [kind : {"obj"}, object : Node, copy : Node, i : Nat, key : Text \cup Dataless]

CopyFrames == {f \in DOMAIN stack : stack[f].kind = "obj"}
Copies == {stack[f].copy : f \in CopyFrames}
Returned == IF pc = "return" THEN {ret} \ {NULL} ELSE {}
Tops == roots \cup Copies \cup Returned

\* A table of capacity c has room for n entries, and n are not too many for
\* any table.
Largest == PrimeCapacities[Len(PrimeCapacities)]
HasRoom(c, n) == 2 * n <= c /\ (n = 0 \/ 2 * n <= Largest)
Value(v) == v \in ValueSet /\ (v.kind = "obj" => HasRoom(v.capacity, Len(v.entries)))

Memory(h) ==
  /\ DOMAIN h \subseteq Node /\ IsFiniteSet(DOMAIN h)
  /\ \A n \in DOMAIN h : Value(h[n])

Shape ==
  /\ stack \in Seq(ArrayFrame \cup ObjectFrame)
  /\ pc \in {"idle", "copy", "loop", "return", "aborted"}
  /\ ret \in Node \cup {NULL}

Control ==
  /\ pc = "idle" => stack = <<>>
  /\ pc = "loop" => stack # <<>> /\ Top.kind = "obj"

\* Nobody owns what another owns.
Distinct ==
  /\ roots \cap Copies = {} /\ roots \cap Returned = {} /\ Copies \cap Returned = {}
  /\ \A f, g \in CopyFrames : stack[f].copy = stack[g].copy => f = g

\* S is closed in both directions.
Separate(h, S) == S \subseteq DOMAIN h /\ Closed(Kids(h), S) /\ Apart(Kids(h), S)

\* What json_copy reads, S, is not what it makes.
Source(S) ==
  /\ Separate(heap, S)
  /\ S \cap (Copies \cup Returned) = {}
  /\ \A f \in CopyFrames : stack[f].object \in S
  /\ pc = "copy" => at \in S

\* A call of duplicate_object has copied i entries of its object.
Progress(f) ==
  LET object == heap[stack[f].object]
      copy == heap[stack[f].copy]
  IN  /\ object.kind = "obj" /\ copy.kind = "obj"
      /\ Len(copy.entries) = stack[f].i
      /\ stack[f].i <= Len(object.entries)
      /\ f < Len(stack) \/ pc # "loop" => stack[f].i < Len(object.entries)
      /\ 2 * Len(object.entries) <= copy.capacity

Inv ==
  /\ Memory(heap) /\ Shape /\ Control /\ Distinct
  /\ Forest(Kids(heap), Tops)
  /\ \E S \in SUBSET DOMAIN heap : Source(S)
  /\ \A f \in CopyFrames : Progress(f)

IInv == pc # "aborted" => Inv

-----------------------------------------------------------------------------
(* Trees.                                                                  *)

LEMMA TreeProperties ==
  ASSUME NEW kids, NEW tops, Inside(kids, tops), NEW n \in DOMAIN kids
  PROVE  /\ n \in Tree(kids, n)
         /\ Closed(kids, Tree(kids, n))
         /\ \A S \in SUBSET DOMAIN kids : n \in S /\ Closed(kids, S) => Tree(kids, n) \subseteq S
<1>1. n \in Tree(kids, n)
  BY DEF Tree
<1>2. ASSUME NEW m \in Tree(kids, n), NEW k \in DOMAIN kids[m] PROVE kids[m][k] \in Tree(kids, n)
  <2>1. m \in DOMAIN kids /\ kids[m][k] \in DOMAIN kids
    BY DEF Tree, Inside
  <2>2. ASSUME NEW S \in SUBSET DOMAIN kids, n \in S, Closed(kids, S) PROVE kids[m][k] \in S
    BY <2>2 DEF Tree, Closed
  <2> QED BY <2>1, <2>2 DEF Tree
<1>3. ASSUME NEW S \in SUBSET DOMAIN kids, n \in S, Closed(kids, S) PROVE Tree(kids, n) \subseteq S
  BY <1>3 DEF Tree
<1> QED BY <1>1, <1>2, <1>3 DEF Closed

\* A tree is its root and the trees of its children.
LEMMA TreeUnfolds ==
  ASSUME NEW kids, NEW tops, Inside(kids, tops), NEW n \in DOMAIN kids
  PROVE  Tree(kids, n) = {n} \cup UNION {Tree(kids, kids[n][k]) : k \in DOMAIN kids[n]}
<1> DEFINE U == {n} \cup UNION {Tree(kids, kids[n][k]) : k \in DOMAIN kids[n]}
<1>1. \A k \in DOMAIN kids[n] : kids[n][k] \in DOMAIN kids
  BY DEF Inside
<1>2. U \subseteq DOMAIN kids
  BY DEF Tree
<1>3. Closed(kids, U)
  <2> SUFFICES ASSUME NEW m \in U, NEW k \in DOMAIN kids[m] PROVE kids[m][k] \in U
    BY DEF Closed
  <2>1. CASE m = n
    <3>1. kids[m][k] \in Tree(kids, kids[m][k])
      BY <1>1, <2>1, TreeProperties
    <3> QED BY <2>1, <3>1
  <2>2. CASE m # n
    <3>1. PICK j \in DOMAIN kids[n] : m \in Tree(kids, kids[n][j])
      BY <2>2
    <3>2. kids[m][k] \in Tree(kids, kids[n][j])
      BY <1>1, <3>1, TreeProperties DEF Closed
    <3> QED BY <3>2
  <2> QED BY <2>1, <2>2
<1>4. Tree(kids, n) \subseteq U
  BY <1>2, <1>3, TreeProperties
<1>5. ASSUME NEW k \in DOMAIN kids[n] PROVE Tree(kids, kids[n][k]) \subseteq Tree(kids, n)
  <2>1. n \in Tree(kids, n) /\ Closed(kids, Tree(kids, n))
    BY TreeProperties
  <2>2. kids[n][k] \in Tree(kids, n) /\ Tree(kids, n) \in SUBSET DOMAIN kids
    BY <2>1 DEF Closed, Tree
  <2> QED BY <1>1, <2>1, <2>2, TreeProperties
<1>6. n \in Tree(kids, n)
  BY TreeProperties
<1> QED BY <1>4, <1>5, <1>6

\* What nothing points into is not below anything outside.
LEMMA TreeOutside ==
  ASSUME NEW kids, NEW tops, Inside(kids, tops), NEW n \in DOMAIN kids,
         NEW S, Apart(kids, S), n \notin S
  PROVE  Tree(kids, n) \cap S = {}
<1> DEFINE R == DOMAIN kids \ S
<1>1. R \in SUBSET DOMAIN kids /\ n \in R
  OBVIOUS
<1>2. Closed(kids, R)
  BY DEF Closed, Apart, Inside
<1>3. Tree(kids, n) \subseteq R
  BY <1>1, <1>2, TreeProperties
<1> QED BY <1>3

\* Nothing points into the tree of a top.
LEMMA TopTreeApart ==
  ASSUME NEW kids, NEW tops, Forest(kids, tops), NEW n \in tops
  PROVE  n \in DOMAIN kids /\ Apart(kids, Tree(kids, n))
<1>0. Inside(kids, tops) /\ PlacedOnce(kids) /\ n \in DOMAIN kids
  BY DEF Forest, Inside
<1> DEFINE T == Tree(kids, n)
           S == {x \in T : x = n \/ \E m \in T : \E k \in DOMAIN kids[m] : kids[m][k] = x}
<1>1. n \in T /\ Closed(kids, T) /\ T \subseteq DOMAIN kids
  BY <1>0, TreeProperties DEF Tree
<1> HIDE DEF T
<1>2. S \in SUBSET DOMAIN kids /\ n \in S /\ Closed(kids, S)
  BY <1>1 DEF Closed
<1>3. T \subseteq S
  BY <1>0, <1>2, TreeProperties DEF T
<1> SUFFICES ASSUME NEW m \in DOMAIN kids, NEW k \in DOMAIN kids[m], kids[m][k] \in T
             PROVE  m \in T
  BY <1>0 DEF Apart, T
<1>4. kids[m][k] # n
  BY <1>0 DEF Inside
<1>5. PICK p \in T : \E j \in DOMAIN kids[p] : kids[p][j] = kids[m][k]
  BY <1>3, <1>4
<1>6. p = m
  BY <1>0, <1>1, <1>5 DEF PlacedOnce
<1> QED BY <1>6

\* The trees of two tops have nothing in common.
LEMMA TreesApart ==
  ASSUME NEW kids, NEW tops, Forest(kids, tops), NEW n \in tops, NEW m \in tops, n # m
  PROVE  Tree(kids, n) \cap Tree(kids, m) = {}
<1>1. Inside(kids, tops) /\ n \in DOMAIN kids /\ m \in DOMAIN kids
  BY DEF Forest, Inside
<1>2. Apart(kids, Tree(kids, m))
  BY TopTreeApart
<1>3. n \notin Tree(kids, m)
  <2> DEFINE S == Tree(kids, m) \ {n}
  <2>1. m \in S /\ S \in SUBSET DOMAIN kids
    BY <1>1, TreeProperties DEF Tree
  <2>2. Closed(kids, S)
    <3>1. Closed(kids, Tree(kids, m)) /\ Tree(kids, m) \subseteq DOMAIN kids
      BY <1>1, TreeProperties DEF Tree
    <3>2. \A p \in DOMAIN kids : \A k \in DOMAIN kids[p] : kids[p][k] # n
      BY <1>1 DEF Inside
    <3> HIDE DEF S
    <3> QED BY <3>1, <3>2 DEF Closed, S
  <2>3. Tree(kids, m) \subseteq S
    BY <1>1, <2>1, <2>2, TreeProperties
  <2> QED BY <2>3
<1> QED BY <1>1, <1>2, <1>3, TreeOutside

-----------------------------------------------------------------------------
(* What calls do to a forest.                                              *)

LEMMA ForestNew ==
  ASSUME NEW kids, NEW tops, Forest(kids, tops), NEW n, n \notin DOMAIN kids, NEW new,
         DOMAIN new = DOMAIN kids \cup {n}, DOMAIN new[n] = {},
         \A m \in DOMAIN kids : new[m] = kids[m]
  PROVE  Forest(new, tops \cup {n})
<1>1. Inside(new, tops \cup {n})
  BY DEF Forest, Inside
<1>2. Placed(new, tops \cup {n})
  BY DEF Forest, Placed
<1>3. PlacedOnce(new)
  BY DEF Forest, PlacedOnce
<1>4. Acyclic(new)
  <2> SUFFICES ASSUME NEW S \in SUBSET DOMAIN new, S # {}
               PROVE  \E m \in S : \A k \in DOMAIN new[m] : new[m][k] \notin S
    BY DEF Acyclic
  <2>1. CASE n \in S
    BY <2>1
  <2>2. CASE n \notin S
    <3>1. S \in SUBSET DOMAIN kids
      BY <2>2
    <3>2. PICK m \in S : \A k \in DOMAIN kids[m] : kids[m][k] \notin S
      BY <3>1 DEF Forest, Acyclic
    <3> QED BY <3>1, <3>2
  <2> QED BY <2>1, <2>2
<1> QED BY <1>1, <1>2, <1>3, <1>4 DEF Forest

\* t is s with n inserted.
Inserted(s, t, n) ==
  \E p \in DOMAIN t :
    /\ t[p] = n
    /\ \E f \in [DOMAIN t \ {p} -> DOMAIN s] :
         /\ \A k \in DOMAIN t \ {p} : t[k] = s[f[k]]
         /\ \A j, k \in DOMAIN t \ {p} : f[j] = f[k] => j = k
         /\ \A j \in DOMAIN s : \E k \in DOMAIN t \ {p} : f[k] = j

\* A top n is put into a value that is not in n.
LEMMA ForestGive ==
  ASSUME NEW kids, NEW tops, Forest(kids, tops), NEW n \in tops,
         NEW a \in DOMAIN kids, a \notin Tree(kids, n), NEW new,
         DOMAIN new = DOMAIN kids, Inserted(kids[a], new[a], n),
         \A m \in DOMAIN kids \ {a} : new[m] = kids[m]
  PROVE  Forest(new, tops \ {n})
<1>0. Inside(kids, tops) /\ Placed(kids, tops) /\ PlacedOnce(kids) /\ Acyclic(kids)
  BY DEF Forest
<1> DEFINE s == kids[a]
           t == new[a]
<1>1. PICK p \in DOMAIN t :
        /\ t[p] = n
        /\ \E f \in [DOMAIN t \ {p} -> DOMAIN s] :
             /\ \A k \in DOMAIN t \ {p} : t[k] = s[f[k]]
             /\ \A j, k \in DOMAIN t \ {p} : f[j] = f[k] => j = k
             /\ \A j \in DOMAIN s : \E k \in DOMAIN t \ {p} : f[k] = j
  BY DEF Inserted
<1>2. PICK f \in [DOMAIN t \ {p} -> DOMAIN s] :
        /\ \A k \in DOMAIN t \ {p} : t[k] = s[f[k]]
        /\ \A j, k \in DOMAIN t \ {p} : f[j] = f[k] => j = k
        /\ \A j \in DOMAIN s : \E k \in DOMAIN t \ {p} : f[k] = j
  BY <1>1
<1>3. n \in DOMAIN kids /\ \A m \in DOMAIN kids : \A k \in DOMAIN kids[m] : kids[m][k] # n
  BY <1>0 DEF Inside
<1>4. \A k \in DOMAIN t : k = p \/ (k # p /\ f[k] \in DOMAIN s /\ t[k] = s[f[k]])
  BY <1>2
<1> HIDE DEF s, t
<1>5. Inside(new, tops \ {n})
  <2> SUFFICES ASSUME NEW m \in DOMAIN kids, NEW k \in DOMAIN new[m]
               PROVE  new[m][k] \in DOMAIN kids \ (tops \ {n})
    BY <1>0 DEF Inside
  <2>1. CASE m = a
    BY <1>0, <1>1, <1>3, <1>4, <2>1 DEF Inside, s, t
  <2>2. CASE m # a
    BY <1>0, <2>2 DEF Inside
  <2> QED BY <2>1, <2>2
<1>6. Placed(new, tops \ {n})
  <2> SUFFICES ASSUME NEW x \in DOMAIN kids, x \notin tops \/ x = n
               PROVE  \E m \in DOMAIN kids : \E k \in DOMAIN new[m] : new[m][k] = x
    BY DEF Placed
  <2>1. CASE x = n
    BY <1>1, <2>1 DEF t
  <2>2. CASE x # n
    <3>1. PICK m \in DOMAIN kids : \E k \in DOMAIN kids[m] : kids[m][k] = x
      BY <1>0, <2>2 DEF Placed
    <3>2. CASE m = a
      <4>1. PICK j \in DOMAIN s : s[j] = x
        BY <3>1, <3>2 DEF s
      <4>2. PICK k \in DOMAIN t : k # p /\ f[k] = j
        BY <1>2
      <4> QED BY <1>2, <4>1, <4>2 DEF t
    <3>3. CASE m # a
      BY <3>1, <3>3
    <3> QED BY <3>2, <3>3
  <2> QED BY <2>1, <2>2
<1>7. PlacedOnce(new)
  <2> SUFFICES ASSUME NEW m1 \in DOMAIN kids, NEW m2 \in DOMAIN kids,
                      NEW k1 \in DOMAIN new[m1], NEW k2 \in DOMAIN new[m2],
                      new[m1][k1] = new[m2][k2]
               PROVE  m1 = m2 /\ k1 = k2
    BY DEF PlacedOnce
  <2>1. CASE m1 # a /\ m2 # a
    BY <1>0, <2>1 DEF PlacedOnce
  <2>2. CASE m1 = a /\ m2 # a
    <3>1. k1 # p
      BY <1>1, <1>3, <2>2 DEF t
    <3>2. f[k1] \in DOMAIN kids[a] /\ kids[a][f[k1]] = kids[m2][k2] /\ k2 \in DOMAIN kids[m2]
      BY <1>4, <2>2, <3>1 DEF s, t
    <3> QED BY <1>0, <2>2, <3>2 DEF PlacedOnce
  <2>3. CASE m2 = a /\ m1 # a
    <3>1. k2 # p
      BY <1>1, <1>3, <2>3 DEF t
    <3>2. f[k2] \in DOMAIN kids[a] /\ kids[a][f[k2]] = kids[m1][k1] /\ k1 \in DOMAIN kids[m1]
      BY <1>4, <2>3, <3>1 DEF s, t
    <3> QED BY <1>0, <2>3, <3>2 DEF PlacedOnce
  <2>4. CASE m1 = a /\ m2 = a
    <3>1. k1 \in DOMAIN t /\ k2 \in DOMAIN t /\ t[k1] = t[k2]
      BY <2>4 DEF t
    <3>2. CASE k1 = p \/ k2 = p
      BY <1>1, <1>3, <1>4, <3>1, <3>2, <2>4 DEF s
    <3>3. CASE k1 # p /\ k2 # p
      <4>1. f[k1] \in DOMAIN kids[a] /\ f[k2] \in DOMAIN kids[a] /\ kids[a][f[k1]] = kids[a][f[k2]]
        BY <1>4, <3>1, <3>3 DEF s
      <4>2. f[k1] = f[k2]
        BY <1>0, <4>1 DEF PlacedOnce
      <4> QED BY <1>2, <2>4, <3>1, <3>3, <4>2
    <3> QED BY <3>2, <3>3
  <2> QED BY <2>1, <2>2, <2>3, <2>4
<1>8. Acyclic(new)
  <2> SUFFICES ASSUME NEW S \in SUBSET DOMAIN kids, S # {},
                      \A m \in S : \E k \in DOMAIN new[m] : new[m][k] \in S
               PROVE  FALSE
    BY DEF Acyclic
  <2> DEFINE X == S \cap Tree(kids, n)
  <2>1. Closed(kids, Tree(kids, n)) /\ n \in Tree(kids, n)
    BY <1>0, <1>3, TreeProperties
  <2>2. \A m \in X : \E k \in DOMAIN kids[m] : kids[m][k] \in X
    BY <2>1 DEF Closed
  <2>3. n \notin S
    <3>1. X = {}
      BY <1>0, <2>2 DEF Acyclic
    <3> QED BY <2>1, <3>1
  <2>4. \A m \in S : \E k \in DOMAIN kids[m] : kids[m][k] \in S
    <3> SUFFICES ASSUME NEW m \in S PROVE \E k \in DOMAIN kids[m] : kids[m][k] \in S
      OBVIOUS
    <3>1. CASE m = a
      <4>1. PICK k \in DOMAIN t : t[k] \in S
        BY <3>1 DEF t
      <4>2. k # p
        BY <1>1, <2>3, <4>1
      <4> QED BY <1>4, <3>1, <4>1, <4>2 DEF s
    <3>2. CASE m # a
      BY <3>2
    <3> QED BY <3>1, <3>2
  <2> QED BY <1>0, <2>4 DEF Acyclic
<1> QED BY <1>5, <1>6, <1>7, <1>8 DEF Forest

\* The tree of a top is taken away.
LEMMA ForestFree ==
  ASSUME NEW kids, NEW tops, Forest(kids, tops), NEW n \in tops, NEW new,
         DOMAIN new = DOMAIN kids \ Tree(kids, n),
         \A m \in DOMAIN new : new[m] = kids[m]
  PROVE  Forest(new, tops \ {n})
<1> DEFINE T == Tree(kids, n)
<1>0. Inside(kids, tops) /\ Placed(kids, tops) /\ PlacedOnce(kids) /\ Acyclic(kids)
  BY DEF Forest
<1>1. Apart(kids, T) /\ n \in DOMAIN kids
  BY TopTreeApart
<1>2. n \in T /\ Closed(kids, T) /\ T \subseteq DOMAIN kids
  BY <1>0, <1>1, TreeProperties DEF Tree
<1>3. ASSUME NEW m \in tops, m # n PROVE m \notin T
  <2>1. m \in Tree(kids, m)
    BY <1>0, <1>3, TreeProperties DEF Inside
  <2> QED BY <1>3, <2>1, TreesApart
<1>4. DOMAIN new = DOMAIN kids \ T
  OBVIOUS
<1> HIDE DEF T
<1>5. Inside(new, tops \ {n})
  BY <1>0, <1>1, <1>3, <1>4 DEF Inside, Apart
<1>6. Placed(new, tops \ {n})
  <2> SUFFICES ASSUME NEW x \in DOMAIN new, x \notin tops \/ x = n
               PROVE  \E m \in DOMAIN new : \E k \in DOMAIN new[m] : new[m][k] = x
    BY DEF Placed
  <2>1. x \in DOMAIN kids \ tops /\ x \notin T
    BY <1>2, <1>4
  <2>2. PICK m \in DOMAIN kids : \E k \in DOMAIN kids[m] : kids[m][k] = x
    BY <1>0, <2>1 DEF Placed
  <2>3. m \notin T
    BY <1>2, <2>1, <2>2 DEF Closed
  <2> QED BY <1>4, <2>2, <2>3
<1>7. PlacedOnce(new)
  BY <1>0, <1>4 DEF PlacedOnce
<1>8. Acyclic(new)
  BY <1>0, <1>4 DEF Acyclic
<1> QED BY <1>5, <1>6, <1>7, <1>8 DEF Forest

-----------------------------------------------------------------------------
(* The recursive definitions of the model.                                 *)

LEMMA ChildrenAreSlots ==
  ASSUME NEW v
  PROVE  Children(v) = {Slots(v)[k] : k \in DOMAIN Slots(v)}
<1>1. CASE v.kind = "arr"
  BY <1>1 DEF Children, Slots
<1>2. CASE v.kind = "obj"
  BY <1>2 DEF Children, Slots
<1>3. CASE v.kind \notin {"arr", "obj"}
  <2>1. Children(v) = {} /\ Slots(v) = <<>>
    BY <1>3 DEF Children, Slots
  <2> QED BY <2>1
<1> QED BY <1>1, <1>2, <1>3

\* What FreeTree frees.
LEMMA BelowIsTree ==
  ASSUME NEW tops, Forest(Kids(heap), tops), NEW n \in DOMAIN heap
  PROVE  Below(n) = Tree(Kids(heap), n)
<1> DEFINE kids == Kids(heap)
           IsBelow(f) == f = [m \in DOMAIN heap |-> {m} \cup UNION {f[c] : c \in Children(heap[m])}]
           below == CHOOSE f : IsBelow(f)
           tree == [m \in DOMAIN heap |-> Tree(kids, m)]
<1>1. Below(n) = below[n]
  BY DEF Below
<1>2. DOMAIN kids = DOMAIN heap /\ \A m \in DOMAIN heap : kids[m] = Slots(heap[m])
  BY DEF Kids
<1>3. Inside(kids, tops) /\ Acyclic(kids)
  BY DEF Forest
<1> HIDE DEF kids
<1>4. \A m \in DOMAIN heap : Children(heap[m]) = {kids[m][k] : k \in DOMAIN kids[m]}
  BY <1>2, ChildrenAreSlots
<1>5. \A m \in DOMAIN heap : \A k \in DOMAIN kids[m] : kids[m][k] \in DOMAIN heap
  BY <1>2, <1>3 DEF Inside
<1>6. \A m \in DOMAIN heap :
        Tree(kids, m) = {m} \cup UNION {Tree(kids, kids[m][k]) : k \in DOMAIN kids[m]}
  BY <1>2, <1>3, TreeUnfolds
<1>7. IsBelow(tree)
  <2>1. ASSUME NEW m \in DOMAIN heap
        PROVE  tree[m] = {m} \cup UNION {tree[c] : c \in Children(heap[m])}
    <3>1. \A x \in DOMAIN heap : tree[x] = Tree(kids, x)
      OBVIOUS
    <3> HIDE DEF tree
    <3>2. \A k \in DOMAIN kids[m] : tree[kids[m][k]] = Tree(kids, kids[m][k])
      BY <1>5, <3>1
    <3>3. {tree[c] : c \in Children(heap[m])} = {tree[kids[m][k]] : k \in DOMAIN kids[m]}
      BY <1>4
    <3>4. @ = {Tree(kids, kids[m][k]) : k \in DOMAIN kids[m]}
      BY <3>2
    <3> QED BY <1>6, <3>1, <3>3, <3>4
  <2> QED BY <2>1
<1>8. IsBelow(below)
  BY <1>7
<1>9. \A m \in DOMAIN heap : below[m] = {m} \cup UNION {below[kids[m][k]] : k \in DOMAIN kids[m]}
  <2> HIDE DEF below
  <2> SUFFICES ASSUME NEW m \in DOMAIN heap
               PROVE  below[m] = {m} \cup UNION {below[kids[m][k]] : k \in DOMAIN kids[m]}
    OBVIOUS
  <2>1. below[m] = {m} \cup UNION {below[c] : c \in Children(heap[m])}
    BY <1>8
  <2> QED BY <1>4, <2>1
<1> HIDE DEF below, IsBelow
<1>10. \A m \in DOMAIN heap : below[m] = Tree(kids, m)
  <2> DEFINE S == {m \in DOMAIN heap : below[m] # Tree(kids, m)}
  <2>1. ASSUME S # {} PROVE FALSE
    <3>1. PICK m \in S : \A k \in DOMAIN kids[m] : kids[m][k] \notin S
      BY <1>2, <1>3, <2>1 DEF Acyclic
    <3>2. \A k \in DOMAIN kids[m] : below[kids[m][k]] = Tree(kids, kids[m][k])
      BY <1>5, <3>1
    <3>3. {below[kids[m][k]] : k \in DOMAIN kids[m]} = {Tree(kids, kids[m][k]) : k \in DOMAIN kids[m]}
      BY <3>2
    <3>4. below[m] = Tree(kids, m)
      BY <1>6, <1>9, <3>3
    <3> QED BY <3>4
  <2> QED BY <2>1
<1> QED BY <1>1, <1>10 DEF kids

-----------------------------------------------------------------------------
(* Sequences and tables.                                                   *)

\* t is s with e at place i.
IsPut(S, s, i, e, t) ==
  /\ t \in Seq(S) /\ Len(t) = Len(s) + 1
  /\ \A k \in 1 .. Len(s) + 1 : t[k] = IF k < i THEN s[k] ELSE IF k = i THEN e ELSE s[k - 1]

LEMMA InsertAtPuts ==
  ASSUME NEW S, NEW s \in Seq(S), NEW e \in S, NEW i \in 1 .. Len(s) + 1
  PROVE  IsPut(S, s, i, e, InsertAt(s, i, e))
<1> DEFINE a == SubSeq(s, 1, i - 1)
           b == SubSeq(s, i, Len(s))
           c == a \o <<e>>
<1>1. Len(s) \in Nat /\ i \in Nat \ {0}
  OBVIOUS
<1>2. /\ a \in Seq(S) /\ Len(a) = i - 1
      /\ \A k \in 1 .. i - 1 : a[k] = s[k]
  BY <1>1, SubSeqProperties
<1>3. /\ b \in Seq(S) /\ Len(b) = Len(s) - i + 1
      /\ \A k \in 1 .. Len(s) - i + 1 : b[k] = s[i + k - 1]
  BY <1>1, SubSeqProperties
<1> HIDE DEF a, b
<1>4. c \in Seq(S) /\ Len(c) = i /\ (\A k \in 1 .. i - 1 : c[k] = s[k]) /\ c[i] = e
  BY <1>1, <1>2
<1> HIDE DEF c
<1>5. InsertAt(s, i, e) = c \o b
  BY DEF InsertAt, a, b, c
<1>6. c \o b \in Seq(S) /\ Len(c \o b) = Len(s) + 1
  <2>1. c \o b \in Seq(S) /\ Len(c \o b) = Len(c) + Len(b)
    BY <1>3, <1>4, ConcatProperties
  <2> QED BY <1>1, <1>3, <1>4, <2>1
<1>7. ASSUME NEW k \in 1 .. Len(s) + 1
      PROVE  (c \o b)[k] = IF k < i THEN s[k] ELSE IF k = i THEN e ELSE s[k - 1]
  <2>1. (c \o b)[k] = IF k <= i THEN c[k] ELSE b[k - i]
    BY <1>1, <1>3, <1>4, ConcatProperties
  <2>2. CASE k <= i
    BY <2>1, <2>2, <1>1, <1>4
  <2>3. CASE k > i
    <3>1. k - i \in 1 .. Len(s) - i + 1 /\ i + (k - i) - 1 = k - 1
      BY <1>1, <2>3
    <3>2. b[k - i] = s[k - 1]
      BY <1>3, <3>1
    <3> QED BY <1>1, <2>1, <2>3, <3>2
  <2>4. k <= i \/ k > i
    BY <1>1
  <2> QED BY <2>2, <2>3, <2>4
<1>8. IsPut(S, s, i, e, c \o b)
  BY <1>6, <1>7 DEF IsPut
<1> QED BY <1>5, <1>8, Zenon

\* What InsertAt and Append do, in the words of ForestGive.
LEMMA ShiftInserts ==
  ASSUME NEW N \in Nat, NEW p \in 1 .. N + 1, NEW n, NEW s, NEW t,
         DOMAIN s = 1 .. N, DOMAIN t = 1 .. N + 1,
         \A k \in 1 .. N + 1 : t[k] = IF k < p THEN s[k] ELSE IF k = p THEN n ELSE s[k - 1]
  PROVE  Inserted(s, t, n)
<1> DEFINE f == [k \in DOMAIN t \ {p} |-> IF k < p THEN k ELSE k - 1]
<1>1. f \in [DOMAIN t \ {p} -> DOMAIN s]
  OBVIOUS
<1>2. \A k \in DOMAIN t \ {p} : t[k] = s[f[k]]
  OBVIOUS
<1>3. \A j, k \in DOMAIN t \ {p} : f[j] = f[k] => j = k
  OBVIOUS
<1>4. ASSUME NEW j \in DOMAIN s PROVE \E k \in DOMAIN t \ {p} : f[k] = j
  <2>1. CASE j < p
    <3>1. j \in DOMAIN t \ {p} /\ f[j] = j
      BY <2>1
    <3> QED BY <3>1
  <2>2. CASE j >= p
    <3>1. j + 1 \in DOMAIN t \ {p} /\ f[j + 1] = j
      BY <2>2
    <3> QED BY <3>1
  <2> QED BY <2>1, <2>2
<1>5. p \in DOMAIN t /\ t[p] = n
  OBVIOUS
<1> HIDE DEF f
<1>6. /\ \A k \in DOMAIN t \ {p} : t[k] = s[f[k]]
      /\ \A j, k \in DOMAIN t \ {p} : f[j] = f[k] => j = k
      /\ \A j \in DOMAIN s : \E k \in DOMAIN t \ {p} : f[k] = j
  BY <1>2, <1>3, <1>4
<1>7. \E g \in [DOMAIN t \ {p} -> DOMAIN s] :
        /\ \A k \in DOMAIN t \ {p} : t[k] = s[g[k]]
        /\ \A j, k \in DOMAIN t \ {p} : g[j] = g[k] => j = k
        /\ \A j \in DOMAIN s : \E k \in DOMAIN t \ {p} : g[k] = j
  BY <1>1, <1>6
<1> QED BY <1>5, <1>7, Zenon DEF Inserted

LEMMA LeastNatural ==
  ASSUME NEW S, S \subseteq Nat, S # {}
  PROVE  \E m \in S : \A k \in S : m <= k
<1>1. PICK m \in S : \A k \in S : ~(<<k, m>> \in OpToRel(<, Nat))
  BY NatLessThanWellFounded, WFMin
<1>2. \A k \in S : ~(k < m)
  BY <1>1 DEF OpToRel
<1> QED BY <1>2

\* object_reserve finds a table that is large enough.
LEMMA TableForIs ==
  ASSUME NEW n \in Nat
  PROVE  TableFor(n) \in Nat /\ (n = 0 \/ 2 * n <= Largest => 2 * n <= TableFor(n))
<1>1. /\ PrimeCapacities \in Seq(Nat) /\ Len(PrimeCapacities) \in DOMAIN PrimeCapacities
      /\ \A m \in DOMAIN PrimeCapacities : PrimeCapacities[m] \in Nat
  BY ValuesAssumption, EmptySeq
<1> DEFINE enough == {m \in DOMAIN PrimeCapacities : 2 * n <= PrimeCapacities[m]}
<1>2. CASE n = 0
  BY <1>2 DEF TableFor
<1>3. CASE n # 0 /\ enough = {}
  <2>1. TableFor(n) = Largest
    BY <1>3 DEF TableFor, Largest
  <2> QED BY <1>1, <1>3, <2>1 DEF Largest
<1>4. CASE n # 0 /\ enough # {}
  <2>1. \E m \in enough : \A k \in enough : m <= k
    <3>1. enough \subseteq Nat
      BY <1>1
    <3> QED BY <1>4, <3>1, LeastNatural
  <2>2. Min(enough) \in enough
    BY <2>1 DEF Min
  <2>3. TableFor(n) = PrimeCapacities[Min(enough)]
    BY <1>4 DEF TableFor
  <2> QED BY <1>1, <2>2, <2>3
<1> QED BY <1>2, <1>3, <1>4

-----------------------------------------------------------------------------
(* What calls do to the memory.                                            *)

\* The fields of a value, and its slots.
LEMMA Kinds ==
  ASSUME NEW v \in ValueSet
  PROVE  /\ v.kind = "arr" =>
              v \in ArraySet /\ v.values \in Seq(Node) /\ v.capacity \in Nat /\ Slots(v) = v.values
         /\ v.kind = "obj" =>
              /\ v \in ObjectSet /\ v.entries \in Seq(Entry) /\ v.capacity \in Nat
              /\ Slots(v) = [k \in DOMAIN v.entries |-> v.entries[k].value]
         /\ v.kind \notin {"arr", "obj"} => v \in ScalarSet \cup StringSet /\ Slots(v) = <<>>
         /\ v.kind = "scalar" => v \in ScalarSet
         /\ v.kind = "str" => v \in StringSet
BY DEF ValueSet, ScalarSet, StringSet, ArraySet, ObjectSet, Slots

LEMMA KidsIs ==
  ASSUME NEW h
  PROVE  DOMAIN Kids(h) = DOMAIN h /\ \A m \in DOMAIN h : Kids(h)[m] = Slots(h[m])
BY DEF Kids

\* The memory a step changes, seen from a value or a region it leaves alone.
LEMMA MemoryNew ==
  ASSUME NEW h, Memory(h), NEW tops, Forest(Kids(h), tops),
         NEW n \in Node, n \notin DOMAIN h, NEW v, Value(v), DOMAIN Slots(v) = {},
         NEW new, DOMAIN new = DOMAIN h \cup {n}, new[n] = v, \A m \in DOMAIN h : new[m] = h[m]
  PROVE  /\ Memory(new) /\ Forest(Kids(new), tops \cup {n})
         /\ \A S : Separate(h, S) => Separate(new, S)
<1>1. DOMAIN new = DOMAIN h \cup {n} /\ new[n] = v /\ (\A m \in DOMAIN h : new[m] = h[m])
  OBVIOUS
<1>2. Memory(new)
  <2>1. IsFiniteSet(DOMAIN new)
    BY <1>1, FS_AddElement DEF Memory
  <2> QED BY <1>1, <2>1 DEF Memory
<1>3. /\ DOMAIN Kids(new) = DOMAIN Kids(h) \cup {n} /\ DOMAIN Kids(new)[n] = {}
      /\ \A m \in DOMAIN Kids(h) : Kids(new)[m] = Kids(h)[m]
      /\ n \notin DOMAIN Kids(h) /\ DOMAIN Kids(h) = DOMAIN h
  <2>1. DOMAIN Kids(h) = DOMAIN h /\ \A m \in DOMAIN h : Kids(h)[m] = Slots(h[m])
    BY KidsIs
  <2>2. DOMAIN Kids(new) = DOMAIN new /\ \A m \in DOMAIN new : Kids(new)[m] = Slots(new[m])
    BY KidsIs
  <2>3. DOMAIN Kids(new)[n] = {}
    BY <1>1, <2>2
  <2> QED BY <1>1, <2>1, <2>2, <2>3
<1>4. Forest(Kids(new), tops \cup {n})
  BY <1>3, ForestNew
<1>5. ASSUME NEW S, Separate(h, S) PROVE Separate(new, S)
  <2>1. \A m \in DOMAIN Kids(new) : \A k \in DOMAIN Kids(new)[m] :
          m \in DOMAIN Kids(h) /\ Kids(new)[m] = Kids(h)[m]
    BY <1>3
  <2>2. S \subseteq DOMAIN new /\ S \subseteq DOMAIN Kids(h)
    BY <1>1, <1>3, <1>5 DEF Separate
  <2> QED BY <1>3, <1>5, <2>1, <2>2 DEF Separate, Closed, Apart
<1> QED BY <1>1, <1>2, <1>4, <1>5

\* The content of a scalar or a string is changed.
LEMMA MemorySet ==
  ASSUME NEW h, Memory(h), NEW tops, Forest(Kids(h), tops),
         NEW a \in DOMAIN h, Slots(h[a]) = <<>>, NEW v, Value(v), Slots(v) = <<>>,
         NEW new, new = [h EXCEPT ![a] = v]
  PROVE  Memory(new) /\ Forest(Kids(new), tops)
<1>1. /\ DOMAIN new = DOMAIN h /\ new[a] = v /\ (\A m \in DOMAIN h \ {a} : new[m] = h[m])
  OBVIOUS
<1>2. Memory(new)
  BY <1>1 DEF Memory
<1>3. Kids(new) = Kids(h)
  BY <1>1 DEF Kids
<1> QED BY <1>2, <1>3

\* A top is put into an array or an object.
LEMMA MemoryGive ==
  ASSUME NEW h, Memory(h), NEW tops, Forest(Kids(h), tops), NEW n \in tops,
         NEW a \in DOMAIN h, a \notin Tree(Kids(h), n),
         NEW v, Value(v), Inserted(Slots(h[a]), Slots(v), n),
         NEW new, new = [h EXCEPT ![a] = v]
  PROVE  /\ Memory(new) /\ Forest(Kids(new), tops \ {n})
         /\ DOMAIN new = DOMAIN h /\ new[a] = v
         /\ \A m \in DOMAIN h \ {a} : new[m] = h[m]
         /\ \A S : Separate(h, S) /\ n \notin S /\ a \notin S => Separate(new, S)
<1>1. /\ DOMAIN new = DOMAIN h /\ new[a] = v /\ (\A m \in DOMAIN h \ {a} : new[m] = h[m])
  OBVIOUS
<1>2. Memory(new)
  BY <1>1 DEF Memory
<1>3. /\ DOMAIN Kids(h) = DOMAIN h /\ DOMAIN Kids(new) = DOMAIN Kids(h)
      /\ Kids(h)[a] = Slots(h[a]) /\ Kids(new)[a] = Slots(v)
      /\ \A m \in DOMAIN Kids(h) \ {a} : Kids(new)[m] = Kids(h)[m]
  BY <1>1, KidsIs
<1>4. Forest(Kids(new), tops \ {n})
  <2>1. Inserted(Kids(h)[a], Kids(new)[a], n)
    BY <1>3
  <2>2. a \in DOMAIN Kids(h)
    BY <1>3
  <2> QED BY <1>3, <2>1, <2>2, ForestGive
<1>5. ASSUME NEW S, Separate(h, S), n \notin S, a \notin S PROVE Separate(new, S)
  <2>1. S \subseteq DOMAIN Kids(h) /\ S \subseteq DOMAIN new
    BY <1>1, <1>3, <1>5 DEF Separate
  <2>2. Closed(Kids(new), S)
    BY <1>3, <1>5, <2>1 DEF Separate, Closed
  <2>3. \A k \in DOMAIN Kids(new)[a] : Kids(new)[a][k] \notin S
    <3>1. \A k \in DOMAIN Slots(v) :
            Slots(v)[k] = n \/ \E j \in DOMAIN Slots(h[a]) : Slots(v)[k] = Slots(h[a])[j]
      BY DEF Inserted
    <3>2. \A j \in DOMAIN Kids(h)[a] : Kids(h)[a][j] \notin S
      BY <1>3, <1>5 DEF Separate, Apart
    <3> QED BY <1>3, <1>5, <3>1, <3>2
  <2>4. Apart(Kids(new), S)
    <3> SUFFICES ASSUME NEW m \in DOMAIN Kids(new), NEW k \in DOMAIN Kids(new)[m],
                        Kids(new)[m][k] \in S
                 PROVE  m \in S
      BY DEF Apart
    <3>1. m # a
      BY <2>3
    <3> QED BY <1>3, <1>5, <3>1 DEF Separate, Apart
  <2> QED BY <2>1, <2>2, <2>4 DEF Separate
<1> QED BY <1>1, <1>2, <1>4, <1>5

\* A top is freed, with all that is in it.
LEMMA MemoryFree ==
  ASSUME NEW h, Memory(h), NEW tops, Forest(Kids(h), tops), NEW n \in tops,
         NEW new, new = Restrict(h, DOMAIN h \ Tree(Kids(h), n))
  PROVE  /\ Memory(new) /\ Forest(Kids(new), tops \ {n})
         /\ \A m \in DOMAIN new : m \in DOMAIN h /\ new[m] = h[m]
         /\ \A S : Separate(h, S) /\ n \notin S => Separate(new, S)
<1>1. /\ DOMAIN new = DOMAIN h \ Tree(Kids(h), n)
      /\ \A m \in DOMAIN new : m \in DOMAIN h /\ new[m] = h[m]
  BY DEF Restrict
<1>2. Memory(new)
  <2>1. DOMAIN new \subseteq DOMAIN h
    BY <1>1
  <2>2. IsFiniteSet(DOMAIN new)
    BY <2>1, FS_Subset DEF Memory
  <2> QED BY <1>1, <2>1, <2>2 DEF Memory
<1>3. /\ DOMAIN Kids(h) = DOMAIN h
      /\ DOMAIN Kids(new) = DOMAIN Kids(h) \ Tree(Kids(h), n)
      /\ \A m \in DOMAIN Kids(new) : Kids(new)[m] = Kids(h)[m]
  <2>1. DOMAIN Kids(h) = DOMAIN h /\ \A m \in DOMAIN h : Kids(h)[m] = Slots(h[m])
    BY KidsIs
  <2>2. DOMAIN Kids(new) = DOMAIN new /\ \A m \in DOMAIN new : Kids(new)[m] = Slots(new[m])
    BY KidsIs
  <2> QED BY <1>1, <2>1, <2>2
<1>4. Forest(Kids(new), tops \ {n})
  BY <1>3, ForestFree
<1>5. ASSUME NEW S, Separate(h, S), n \notin S PROVE Separate(new, S)
  <2>1. Inside(Kids(h), tops) /\ n \in DOMAIN Kids(h)
    BY DEF Forest, Inside
  <2>2. Tree(Kids(h), n) \cap S = {}
    BY <1>5, <2>1, TreeOutside DEF Separate
  <2>3. S \subseteq DOMAIN Kids(new) /\ S \subseteq DOMAIN new
    BY <1>1, <1>3, <1>5, <2>2 DEF Separate
  <2>4. Closed(Kids(new), S)
    BY <1>3, <1>5, <2>3 DEF Separate, Closed
  <2>5. Apart(Kids(new), S)
    BY <1>3, <1>5 DEF Separate, Apart
  <2> QED BY <2>3, <2>4, <2>5 DEF Separate
<1> QED BY <1>1, <1>2, <1>4, <1>5

-----------------------------------------------------------------------------
(* Calls of the user.                                                      *)

LEMMA OwnedFacts ==
  ASSUME Inv
  PROVE  /\ Inside(Kids(heap), Tops) /\ DOMAIN Kids(heap) = DOMAIN heap
         /\ Tops \subseteq DOMAIN heap /\ DOMAIN heap \subseteq Node
         /\ \A n \in DOMAIN heap : Value(heap[n]) /\ heap[n] \in ValueSet
         /\ \A n \in DOMAIN heap : Below(n) = Tree(Kids(heap), n) /\ Below(n) \subseteq DOMAIN heap
         /\ \A n \in DOMAIN heap : Children(heap[n]) \subseteq DOMAIN heap
<1>1. /\ Inside(Kids(heap), Tops) /\ DOMAIN Kids(heap) = DOMAIN heap
      /\ \A n \in DOMAIN heap : Kids(heap)[n] = Slots(heap[n])
  BY KidsIs DEF Inv, Forest
<1>2. Tops \subseteq DOMAIN heap
  BY <1>1 DEF Inside
<1>3. \A n \in DOMAIN heap : Value(heap[n]) /\ heap[n] \in ValueSet
  BY DEF Inv, Memory, Value
<1>4. \A n \in DOMAIN heap : Below(n) = Tree(Kids(heap), n) /\ Below(n) \subseteq DOMAIN heap
  BY <1>1, BelowIsTree DEF Inv, Tree
<1>5. \A n \in DOMAIN heap : Children(heap[n]) \subseteq DOMAIN heap
  BY <1>1, ChildrenAreSlots DEF Inside
<1> QED BY <1>1, <1>2, <1>3, <1>4, <1>5 DEF Inv, Memory

LEMMA ReachableType == Inv => Reachable(roots) \subseteq DOMAIN heap
BY OwnedFacts DEF Reachable, Tops

LEMMA Idle ==
  ASSUME Inv, pc = "idle"
  PROVE  stack = <<>> /\ CopyFrames = {} /\ Copies = {} /\ Returned = {} /\ Tops = roots
<1>1. stack = <<>>
  BY DEF Inv, Control
<1>2. CopyFrames = {}
  BY <1>1 DEF CopyFrames
<1> QED BY <1>1, <1>2 DEF Copies, Returned, Tops

\* Between the calls only the memory and the user count.
LEMMA IdleInv ==
  ASSUME Memory(heap), Forest(Kids(heap), roots), stack = <<>>, pc = "idle",
         ret \in Node \cup {NULL}
  PROVE  Inv
<1>1. CopyFrames = {}
  BY DEF CopyFrames
<1>2. Copies = {} /\ Returned = {} /\ Tops = roots
  BY <1>1 DEF Copies, Returned, Tops
<1>3. Shape /\ Control
  BY DEF Shape, Control
<1>4. Distinct
  BY <1>1, <1>2 DEF Distinct
<1>5. Source({})
  BY <1>1, <1>2 DEF Source, Separate, Closed, Apart
<1> QED BY <1>1, <1>2, <1>3, <1>4, <1>5 DEF Inv

LEMMA DoneInv ==
  ASSUME Inv, pc = "idle", NEW r, Done(r), Memory(heap'), Forest(Kids(heap'), roots')
  PROVE  Inv'
<1>1. stack' = <<>> /\ pc' = "idle" /\ ret' \in Node \cup {NULL}
  BY Idle DEF Done
<1>2. (/\ Memory(heap) /\ Forest(Kids(heap), roots) /\ stack = <<>> /\ pc = "idle"
       /\ ret \in Node \cup {NULL})' => Inv'
  BY IdleInv, PTL
<1> QED BY <1>1, <1>2

LEMMA AbortInv == Abort => IInv'
BY DEF Abort, IInv

LEMMA NewNodeIs == Unused # {} => NewNode \in Unused
BY DEF NewNode

LEMMA CreateInv == ASSUME Inv, NEW v \in NewValues, Create(v) PROVE Inv'
<1>1. pc = "idle" /\ Make(v) /\ roots' = roots \cup {NewNode} /\ Done(TRUE)
  BY DEF Create, Call
<1>2. Value(v) /\ DOMAIN Slots(v) = {}
  <2>1. CASE v \in {ScalarOf(s) : s \in Scalar} \cup {StringOf(t) : t \in Text}
    <3>1. v \in ScalarSet \cup StringSet /\ v.kind \notin {"arr", "obj"}
      BY <2>1 DEF ScalarOf, StringOf, ScalarSet, StringSet
    <3>2. v \in ValueSet
      BY <3>1 DEF ValueSet
    <3> QED BY <3>1, <3>2, Kinds DEF Value
  <2>2. CASE \E c \in Capacity : v = ArrayOf(c, <<>>)
    <3>1. PICK c \in Capacity : v = ArrayOf(c, <<>>)
      BY <2>2
    <3>2. v \in ArraySet /\ v.kind = "arr" /\ v.values = <<>>
      BY <3>1, ValuesAssumption DEF ArrayOf, ArraySet
    <3>3. v \in ValueSet
      BY <3>2 DEF ValueSet
    <3> QED BY <3>2, <3>3, Kinds DEF Value
  <2>3. CASE \E c \in Capacity : v = ObjectOf(TableFor(c), <<>>)
    <3>1. PICK c \in Capacity : v = ObjectOf(TableFor(c), <<>>)
      BY <2>3
    <3>2. TableFor(c) \in Nat
      BY ValuesAssumption, TableForIs
    <3>3. v \in ObjectSet /\ v.kind = "obj" /\ v.entries = <<>> /\ v.capacity \in Nat
      BY <3>1, <3>2 DEF ObjectOf, ObjectSet
    <3>4. v \in ValueSet
      BY <3>3 DEF ValueSet
    <3>5. HasRoom(v.capacity, Len(v.entries))
      BY <3>3 DEF HasRoom
    <3>6. DOMAIN Slots(v) = {}
      BY <3>3, <3>4, Kinds
    <3> QED BY <3>4, <3>5, <3>6 DEF Value
  <2> QED BY <2>1, <2>2, <2>3 DEF NewValues
<1>3. NewNode \in Node /\ NewNode \notin DOMAIN heap
  BY <1>1, NewNodeIs DEF Make, Unused
<1>4. Memory(heap) /\ Forest(Kids(heap), roots)
  BY <1>1, Idle DEF Inv
<1>5. heap' = [n \in DOMAIN heap \cup {NewNode} |-> IF n = NewNode THEN v ELSE heap[n]]
  BY <1>1 DEF Make
<1>6. Memory(heap') /\ Forest(Kids(heap'), roots')
  <2>1. PICK n : n = NewNode
    OBVIOUS
  <2>2. DOMAIN heap' = DOMAIN heap \cup {n} /\ heap'[n] = v /\ \A m \in DOMAIN heap : heap'[m] = heap[m]
    BY <1>3, <1>5, <2>1
  <2>3. n \in Node /\ n \notin DOMAIN heap
    BY <1>3, <2>1
  <2>4. Memory(heap') /\ Forest(Kids(heap'), roots \cup {n})
    BY <1>2, <1>4, <2>2, <2>3, MemoryNew
  <2> QED BY <1>1, <2>1, <2>4
<1> QED BY <1>1, <1>6, DoneInv

LEMMA SameMemoryInv ==
  ASSUME Inv, CreateFails \/ \E n, t : AddFails(n, t)
  PROVE  Inv'
<1>1. pc = "idle" /\ heap' = heap /\ roots' = roots /\ \E r : Done(r)
  BY DEF CreateFails, AddFails, Call, memory
<1> QED BY <1>1, Idle, DoneInv DEF Inv

LEMMA SetInv ==
  ASSUME Inv, NEW n \in DOMAIN heap,
         (\E s \in Scalar : SetScalar(n, s)) \/ (\E t \in Text : SetString(n, t))
  PROVE  Inv'
<1>1. pc = "idle" /\ roots' = roots /\ \E r : Done(r)
  BY DEF SetScalar, SetString, Call
<1>2. Memory(heap) /\ Forest(Kids(heap), roots) /\ heap[n] \in ValueSet
  BY <1>1, Idle, OwnedFacts DEF Inv
<1>3. heap' = heap \/ \E v : /\ heap' = [heap EXCEPT ![n] = v]
                             /\ v \in ScalarSet \cup StringSet /\ Slots(heap[n]) = <<>>
  <2>1. CASE \E s \in Scalar : SetScalar(n, s)
    <3>1. PICK s \in Scalar : SetScalar(n, s)
      BY <2>1
    <3>2. heap[n] \in ScalarSet /\ Slots(heap[n]) = <<>>
      BY <1>2, <3>1, Kinds DEF SetScalar
    <3>3. [heap[n] EXCEPT !.value = s] \in ScalarSet
      BY <3>2 DEF ScalarSet
    <3>4. heap' = heap \/ heap' = [heap EXCEPT ![n] = [heap[n] EXCEPT !.value = s]]
      BY <3>1 DEF SetScalar
    <3> QED BY <3>2, <3>3, <3>4
  <2>2. CASE \E t \in Text : SetString(n, t)
    <3>1. PICK t \in Text : SetString(n, t)
      BY <2>2
    <3>2. heap[n] \in StringSet /\ Slots(heap[n]) = <<>>
      BY <1>2, <3>1, Kinds DEF SetString
    <3>3. PICK d \in {t, NULL} : heap' = [heap EXCEPT ![n] = [heap[n] EXCEPT !.data = d]]
      BY <3>1 DEF SetString
    <3>4. [heap[n] EXCEPT !.data = d] \in StringSet
      BY <3>2, <3>3 DEF StringSet
    <3> QED BY <3>2, <3>3, <3>4
  <2> QED BY <2>1, <2>2
<1>4. ASSUME NEW v, v \in ScalarSet \cup StringSet PROVE Value(v) /\ Slots(v) = <<>>
  <2>1. v \in ValueSet /\ v.kind \notin {"arr", "obj"}
    BY <1>4 DEF ValueSet, ScalarSet, StringSet
  <2> QED BY <2>1, Kinds DEF Value
<1>5. Memory(heap') /\ Forest(Kids(heap'), roots')
  BY <1>1, <1>2, <1>3, <1>4, MemorySet
<1> QED BY <1>1, <1>5, DoneInv

LEMMA FreeInv == ASSUME Inv, NEW n \in roots, Free(n) PROVE Inv'
<1>1. pc = "idle" /\ FreeTree(n) /\ roots' = roots \ {n} /\ Done(TRUE)
  BY DEF Free
<1>2. Memory(heap) /\ Forest(Kids(heap), roots) /\ Below(n) = Tree(Kids(heap), n)
  BY <1>1, Idle, OwnedFacts DEF Inv, Tops
<1>3. heap' = Restrict(heap, DOMAIN heap \ Tree(Kids(heap), n))
  BY <1>1, <1>2 DEF FreeTree
<1>4. Memory(heap') /\ Forest(Kids(heap'), roots')
  BY <1>1, <1>2, <1>3, MemoryFree
<1> QED BY <1>1, <1>4, DoneInv

\* An array and an object with one value more.
LEMMA ArrayGets ==
  ASSUME NEW v \in ArraySet, NEW n \in Node, NEW c \in Nat,
         NEW new, new = [v EXCEPT !.values = Append(v.values, n), !.capacity = c]
  PROVE  Value(new) /\ Inserted(Slots(v), Slots(new), n)
<1>1. /\ v.kind = "arr" /\ v.values \in Seq(Node) /\ Len(v.values) \in Nat
      /\ new \in ArraySet /\ new.kind = "arr" /\ new.values = Append(v.values, n)
  <2>1. v.kind = "arr" /\ v.values \in Seq(Node)
    BY DEF ArraySet
  <2>2. Append(v.values, n) \in Seq(Node) /\ Len(v.values) \in Nat
    BY <2>1
  <2> DEFINE s == Append(v.values, n)
  <2>3. s \in Seq(Node) /\ new = [v EXCEPT !.values = s, !.capacity = c]
    BY <2>2
  <2> HIDE DEF s
  <2>4. new \in ArraySet /\ new.kind = "arr" /\ new.values = s
    BY <2>3 DEF ArraySet
  <2> QED BY <2>1, <2>2, <2>4 DEF s
<1>2. v \in ValueSet /\ new \in ValueSet
  BY <1>1 DEF ValueSet
<1>3. Slots(v) = v.values /\ Slots(new) = new.values
  BY <1>1, <1>2, Kinds
<1> DEFINE N == Len(v.values)
<1>4. /\ DOMAIN v.values = 1 .. N /\ DOMAIN new.values = 1 .. N + 1
      /\ \A k \in 1 .. N + 1 :
           new.values[k] = IF k < N + 1 THEN v.values[k] ELSE IF k = N + 1 THEN n ELSE v.values[k - 1]
  BY <1>1
<1>5. Inserted(v.values, new.values, n)
  <2>1. N \in Nat /\ N + 1 \in 1 .. N + 1
    BY <1>1
  <2> HIDE DEF N
  <2> QED BY <1>4, <2>1, ShiftInserts
<1> QED BY <1>1, <1>2, <1>3, <1>5 DEF Value

LEMMA ObjectGets ==
  ASSUME NEW v \in ObjectSet, NEW n \in Node, NEW key \in Text \cup Dataless, NEW place \in Places(v),
         NEW new, new = WithEntry(v, key, n, place)
  PROVE  /\ v.entries \in Seq(Entry) /\ Len(v.entries) \in Nat /\ v.capacity \in Nat
         /\ new \in ObjectSet /\ new \in ValueSet /\ new.kind = "obj"
         /\ Len(new.entries) = Len(v.entries) + 1
         /\ new.capacity = IF Grows(v) THEN TableFor(Len(v.entries) + 1) ELSE v.capacity
         /\ Inserted(Slots(v), Slots(new), n)
<1>1. /\ v.kind = "obj" /\ v.entries \in Seq(Entry) /\ Len(v.entries) \in Nat /\ v.capacity \in Nat
      /\ DOMAIN v.entries = 1 .. Len(v.entries)
  BY DEF ObjectSet
<1> DEFINE e == [key |-> key, value |-> n]
           N == Len(v.entries)
           s == InsertAt(v.entries, place, e)
           c == IF Grows(v) THEN TableFor(N + 1) ELSE v.capacity
<1>2. e \in Entry /\ e.value = n
  BY DEF Entry
<1>3. place \in 1 .. N + 1
  BY DEF Places
<1>4. /\ s \in Seq(Entry) /\ Len(s) = N + 1
      /\ \A k \in 1 .. N + 1 : s[k] = IF k < place THEN v.entries[k]
                                      ELSE IF k = place THEN e ELSE v.entries[k - 1]
  <2>1. PICK q, x : q = v.entries /\ x = e
    OBVIOUS
  <2>2. q \in Seq(Entry) /\ x \in Entry /\ place \in 1 .. Len(q) + 1
    BY <1>1, <1>2, <1>3, <2>1
  <2>3. /\ InsertAt(q, place, x) \in Seq(Entry) /\ Len(InsertAt(q, place, x)) = Len(q) + 1
        /\ \A k \in 1 .. Len(q) + 1 :
             InsertAt(q, place, x)[k] = IF k < place THEN q[k] ELSE IF k = place THEN x ELSE q[k - 1]
    <3>1. IsPut(Entry, q, place, x, InsertAt(q, place, x))
      BY <2>2, InsertAtPuts
    <3> QED BY <3>1 DEF IsPut
  <2>4. s = InsertAt(q, place, x)
    BY <2>1
  <2> HIDE DEF e, s
  <2> QED BY <2>1, <2>3, <2>4
<1>5. c \in Nat
  BY <1>1, TableForIs
<1>6. new = [v EXCEPT !.entries = s, !.capacity = c]
  BY DEF WithEntry
<1> HIDE DEF s, c, e
<1>7. new \in ObjectSet /\ new.kind = "obj" /\ new.entries = s /\ new.capacity = c
  BY <1>4, <1>5, <1>6 DEF ObjectSet
<1>8. new \in ValueSet /\ v \in ValueSet
  BY <1>7 DEF ValueSet
<1>9. /\ Slots(v) = [k \in DOMAIN v.entries |-> v.entries[k].value]
      /\ Slots(new) = [k \in DOMAIN s |-> s[k].value]
  BY <1>1, <1>7, <1>8, Kinds
<1>10. DOMAIN s = 1 .. N + 1
  BY <1>4
<1>11. Inserted(Slots(v), Slots(new), n)
  <2>1. DOMAIN Slots(v) = 1 .. N /\ DOMAIN Slots(new) = 1 .. N + 1
    BY <1>1, <1>9, <1>10
  <2>2. ASSUME NEW k \in 1 .. N + 1
        PROVE  Slots(new)[k] = IF k < place THEN Slots(v)[k] ELSE IF k = place THEN n ELSE Slots(v)[k - 1]
    <3>1. Slots(new)[k] = s[k].value
      BY <1>9, <1>10
    <3>2. CASE k < place
      <4>1. k \in 1 .. N
        BY <1>1, <1>3, <3>2
      <4> QED BY <1>1, <1>4, <1>9, <3>1, <3>2, <4>1
    <3>3. CASE k = place
      BY <1>1, <1>2, <1>3, <1>4, <3>1, <3>3
    <3>4. CASE k > place
      <4>1. k - 1 \in 1 .. N
        BY <1>1, <1>3, <3>4
      <4>2. s[k] = v.entries[k - 1]
        BY <1>1, <1>3, <1>4, <3>4
      <4>3. Slots(v)[k - 1] = v.entries[k - 1].value
        BY <1>1, <1>9, <4>1
      <4> QED BY <1>1, <1>3, <3>1, <3>4, <4>2, <4>3
    <3>5. k < place \/ k = place \/ k > place
      BY <1>3, <1>1
    <3> QED BY <3>2, <3>3, <3>4, <3>5
  <2> HIDE DEF N
  <2>3. N \in Nat
    BY <1>1 DEF N
  <2> QED BY <1>3, <2>1, <2>2, <2>3, ShiftInserts
<1> QED BY <1>1, <1>4, <1>7, <1>8, <1>11 DEF c, Value

LEMMA AppendInv ==
  ASSUME Inv, NEW a \in DOMAIN heap, NEW m \in roots, a \notin Below(m), ArrayAppend(a, m)
  PROVE  Inv'
<1>1. pc = "idle" /\ heap[a].kind = "arr" /\ \E r : Done(r)
  BY DEF ArrayAppend, Call
<1>2. /\ Memory(heap) /\ Forest(Kids(heap), roots) /\ heap[a] \in ValueSet
      /\ m \in Node /\ a \notin Tree(Kids(heap), m)
  BY <1>1, Idle, OwnedFacts DEF Inv
<1>3. heap[a] \in ArraySet /\ heap[a].capacity \in Nat
  BY <1>1, <1>2, Kinds
<1>4. CASE heap' = heap /\ roots' = roots
  BY <1>1, <1>2, <1>4, DoneInv
<1>5. CASE ~(heap' = heap /\ roots' = roots)
  <2> DEFINE full == Len(heap[a].values) = heap[a].capacity
             c == IF full THEN Doubled(heap[a].capacity) ELSE heap[a].capacity
             v == [heap[a] EXCEPT !.values = Append(heap[a].values, m), !.capacity = c]
  <2>1. c \in Nat
    BY <1>3, ValuesAssumption DEF Doubled
  <2>2. roots' = roots \ {m} /\ heap' = [heap EXCEPT ![a].values = Append(@, m), ![a].capacity = c]
    BY <1>5 DEF ArrayAppend, memory
  <2> HIDE DEF c
  <2>3. heap' = [heap EXCEPT ![a] = v]
    BY <2>2
  <2>4. Value(v) /\ Inserted(Slots(heap[a]), Slots(v), m)
    BY <1>2, <1>3, <2>1, ArrayGets
  <2> HIDE DEF v
  <2>5. Memory(heap') /\ Forest(Kids(heap'), roots \ {m})
    BY <1>2, <2>3, <2>4, MemoryGive
  <2> QED BY <1>1, <2>2, <2>5, DoneInv
<1> QED BY <1>4, <1>5

\* A value has less places than there are values, if one is a top.
LEMMA SlotsAreFew ==
  ASSUME NEW kids, NEW tops, Forest(kids, tops), IsFiniteSet(DOMAIN kids), NEW n \in tops,
         NEW m \in DOMAIN kids, NEW N \in Nat, DOMAIN kids[m] = 1 .. N
  PROVE  N + 1 <= Cardinality(DOMAIN kids)
<1> DEFINE f == [k \in 1 .. N + 1 |-> IF k = N + 1 THEN n ELSE kids[m][k]]
<1>1. /\ n \in DOMAIN kids
      /\ \A k \in 1 .. N : kids[m][k] \in DOMAIN kids /\ kids[m][k] # n
      /\ \A j, k \in 1 .. N : kids[m][j] = kids[m][k] => j = k
  BY DEF Forest, Inside, PlacedOnce
<1>2. \A k \in 1 .. N + 1 : k = N + 1 \/ k \in 1 .. N
  OBVIOUS
<1>3. f \in [1 .. N + 1 -> DOMAIN kids]
  BY <1>1, <1>2
<1>4. \A j, k \in 1 .. N + 1 : f[j] = f[k] => j = k
  BY <1>1, <1>2
<1> HIDE DEF f
<1>5. f \in Injection(1 .. N + 1, DOMAIN kids)
  BY <1>3, <1>4 DEF Injection, IsInjective
<1>6. Cardinality(1 .. N + 1) <= Cardinality(DOMAIN kids)
  BY <1>5, FS_Injection
<1>7. Cardinality(1 .. N + 1) = N + 1
  BY FS_Interval
<1> QED BY <1>6, <1>7

LEMMA AddInv ==
  ASSUME Inv, NEW o \in DOMAIN heap, NEW m \in roots, o \notin Below(m), NEW t \in Text, Add(o, t, m)
  PROVE  IInv'
<1>1. CASE Abort
  BY <1>1, AbortInv
<1>2. CASE ~Abort
  <2>1. pc = "idle" /\ heap[o].kind = "obj" /\ Done(TRUE) /\ roots' = roots \ {m}
        /\ Cardinality(DOMAIN heap) <= MaxValues
    BY <1>2 DEF Add, Call
  <2>2. PICK key \in {t, NULL} : \E place \in Places(heap[o]) :
          heap' = [heap EXCEPT ![o] = WithEntry(@, key, m, place)]
    BY <1>2 DEF Add
  <2>3. PICK place \in Places(heap[o]) : heap' = [heap EXCEPT ![o] = WithEntry(@, key, m, place)]
    BY <2>2
  <2>4. key \in Text \cup Dataless
    BY DEF Dataless
  <2>5. /\ Memory(heap) /\ Forest(Kids(heap), roots) /\ Value(heap[o]) /\ heap[o] \in ValueSet
        /\ m \in Node /\ o \notin Tree(Kids(heap), m)
    BY <2>1, Idle, OwnedFacts DEF Inv
  <2>6. heap[o] \in ObjectSet
    BY <2>1, <2>5, Kinds
  <2> DEFINE v == WithEntry(heap[o], key, m, place)
             N == Len(heap[o].entries) + 1
  <2>7. heap' = [heap EXCEPT ![o] = v]
    BY <2>3
  <2>8. /\ Len(heap[o].entries) \in Nat /\ heap[o].capacity \in Nat
        /\ v \in ObjectSet /\ v \in ValueSet /\ v.kind = "obj" /\ Len(v.entries) = N
        /\ v.capacity = IF Grows(heap[o]) THEN TableFor(N) ELSE heap[o].capacity
        /\ Inserted(Slots(heap[o]), Slots(v), m)
    BY <2>4, <2>5, <2>6, ObjectGets
  <2> HIDE DEF v
  <2>9. 2 * N <= Largest
    <3>1. DOMAIN Kids(heap) = DOMAIN heap /\ Kids(heap)[o] = Slots(heap[o])
      BY KidsIs
    <3>2. DOMAIN Kids(heap)[o] = 1 .. Len(heap[o].entries)
      <4>1. Slots(heap[o]) = [k \in DOMAIN heap[o].entries |-> heap[o].entries[k].value]
        BY <2>1, <2>5, Kinds
      <4>2. heap[o].entries \in Seq(Entry)
        BY <2>1, <2>5, Kinds
      <4> QED BY <3>1, <4>1, <4>2
    <3>3. N <= Cardinality(DOMAIN heap) /\ IsFiniteSet(DOMAIN heap)
      BY <2>5, <2>8, <3>1, <3>2, SlotsAreFew DEF Memory
    <3>4. Cardinality(DOMAIN heap) \in Nat
      BY <3>3, FS_CardinalityType
    <3>5. Largest \in Nat /\ 2 * MaxValues <= Largest /\ MaxValues \in Nat
      BY ValuesAssumption, EmptySeq DEF Largest
    <3> QED BY <2>1, <2>8, <3>3, <3>4, <3>5
  <2>10. Value(v)
    <3>0. N \in Nat
      BY <2>8
    <3> HIDE DEF N
    <3>1. 2 * N <= TableFor(N)
      BY <2>9, <3>0, TableForIs
    <3> USE DEF N
    <3>2. 2 * N <= v.capacity
      BY <2>8, <3>1 DEF Grows
    <3> QED BY <2>8, <2>9, <3>2 DEF Value, HasRoom
  <2>11. Memory(heap') /\ Forest(Kids(heap'), roots')
    BY <2>1, <2>5, <2>7, <2>8, <2>10, MemoryGive
  <2>12. Inv'
    BY <2>1, <2>11, DoneInv
  <2> QED BY <2>12 DEF IInv
<1> QED BY <1>1, <1>2

-----------------------------------------------------------------------------
(* The calls of json_copy under way.                                       *)

LEMMA SequenceOps ==
  ASSUME NEW S, NEW s \in Seq(S), s # <<>>
  PROVE  /\ Len(s) \in Nat \ {0} /\ s[Len(s)] \in S
         /\ SubSeq(s, 1, Len(s) - 1) \in Seq(S)
         /\ Len(SubSeq(s, 1, Len(s) - 1)) = Len(s) - 1
         /\ \A k \in 1 .. Len(s) - 1 : SubSeq(s, 1, Len(s) - 1)[k] = s[k]
         /\ \A e \in S : /\ [s EXCEPT ![Len(s)] = e] \in Seq(S)
                         /\ Len([s EXCEPT ![Len(s)] = e]) = Len(s)
<1>1. Len(s) \in Nat \ {0}
  BY EmptySeq
<1>2. /\ SubSeq(s, 1, Len(s) - 1) \in Seq(S)
      /\ Len(SubSeq(s, 1, Len(s) - 1)) = Len(s) - 1
      /\ \A k \in 1 .. Len(s) - 1 : SubSeq(s, 1, Len(s) - 1)[k] = s[k]
  <2> DEFINE N == Len(s) - 1
  <2>1. N \in Nat /\ \A k \in 1 .. N : s[k] \in S
    BY <1>1
  <2> HIDE DEF N
  <2>2. /\ SubSeq(s, 1, N) \in Seq(S)
        /\ Len(SubSeq(s, 1, N)) = IF 1 <= N THEN N - 1 + 1 ELSE 0
        /\ \A k \in 1 .. N - 1 + 1 : SubSeq(s, 1, N)[k] = s[1 + k - 1]
    BY <2>1, SubSeqProperties
  <2>3. /\ SubSeq(s, 1, N) \in Seq(S) /\ Len(SubSeq(s, 1, N)) = N
        /\ \A k \in 1 .. N : SubSeq(s, 1, N)[k] = s[k]
    BY <2>1, <2>2
  <2> QED BY <2>3 DEF N
<1>3. ASSUME NEW e \in S
      PROVE  [s EXCEPT ![Len(s)] = e] \in Seq(S) /\ Len([s EXCEPT ![Len(s)] = e]) = Len(s)
  BY <1>1
<1> QED BY <1>1, <1>2, <1>3

FrameSet == ArrayFrame \cup ObjectFrame

LEMMA FrameFacts ==
  ASSUME Inv
  PROVE  /\ stack \in Seq(FrameSet) /\ Len(stack) \in Nat /\ DOMAIN stack = 1 .. Len(stack)
         /\ \A f \in CopyFrames : f \in 1 .. Len(stack) /\ stack[f] \in ObjectFrame
         /\ \A f \in 1 .. Len(stack) : stack[f].kind \in {"arr", "obj"}
         /\ stack # <<>> => Len(stack) \in 1 .. Len(stack)
<1>1. /\ stack \in Seq(FrameSet) /\ Len(stack) \in Nat /\ DOMAIN stack = 1 .. Len(stack)
      /\ stack # <<>> => Len(stack) \in 1 .. Len(stack)
  BY EmptySeq DEF Inv, Shape, FrameSet
<1>2. \A f \in 1 .. Len(stack) : stack[f] \in FrameSet
  BY <1>1
<1> QED BY <1>1, <1>2 DEF CopyFrames, FrameSet, ArrayFrame, ObjectFrame

\* The top frame is taken off.
LEMMA PopFrame ==
  ASSUME Inv, stack # <<>>, Pop
  PROVE  /\ stack' \in Seq(FrameSet) /\ CopyFrames' = CopyFrames \ {Len(stack)}
         /\ \A f \in CopyFrames' : stack'[f] = stack[f] /\ f < Len(stack)
         /\ Copies' = Copies \ (IF Top.kind = "obj" THEN {Top.copy} ELSE {})
         /\ Top.kind = "obj" => Len(stack) \in CopyFrames /\ Top.copy \in Copies
<1>1. stack \in Seq(FrameSet) /\ Len(stack) \in Nat /\ DOMAIN stack = 1 .. Len(stack)
  BY FrameFacts
<1>2. /\ stack' \in Seq(FrameSet) /\ Len(stack') = Len(stack) - 1
      /\ \A k \in 1 .. Len(stack) - 1 : stack'[k] = stack[k]
  BY <1>1, SequenceOps DEF Pop
<1>3. DOMAIN stack' = 1 .. Len(stack) - 1
  BY <1>2
<1>4. CopyFrames' = CopyFrames \ {Len(stack)}
  BY <1>1, <1>2, <1>3 DEF CopyFrames
<1>5. \A f \in CopyFrames' : stack'[f] = stack[f] /\ f < Len(stack)
  BY <1>1, <1>2, <1>3 DEF CopyFrames
<1>6. Top.kind = "obj" => Len(stack) \in CopyFrames /\ Top.copy \in Copies
  BY FrameFacts DEF CopyFrames, Copies, Top
<1>7. Copies' = {stack[f].copy : f \in CopyFrames \ {Len(stack)}}
  BY <1>4, <1>5 DEF Copies
<1>8. Top.kind = "obj" => Copies' = Copies \ {Top.copy}
  <2>1. SUFFICES ASSUME Top.kind = "obj" PROVE Copies' = Copies \ {Top.copy}
    OBVIOUS
  <2>2. \A f, g \in CopyFrames : stack[f].copy = stack[g].copy => f = g
    BY DEF Inv, Distinct
  <2>3. Len(stack) \in CopyFrames /\ Top = stack[Len(stack)]
    BY <1>6, <2>1 DEF Top
  <2> QED BY <1>7, <2>2, <2>3 DEF Copies
<1>9. Top.kind # "obj" => Copies' = Copies
  <2>1. Top.kind # "obj" => Len(stack) \notin CopyFrames
    BY DEF CopyFrames, Top
  <2> QED BY <1>7, <2>1 DEF Copies
<1>10. Copies' = Copies \ (IF Top.kind = "obj" THEN {Top.copy} ELSE {})
  BY <1>8, <1>9
<1> QED BY <1>2, <1>4, <1>5, <1>6, <1>10

\* A call of duplicate_object begins.
LEMMA PushObject ==
  ASSUME Inv, NEW frame \in ObjectFrame, Push(frame)
  PROVE  /\ stack' \in Seq(FrameSet) /\ CopyFrames' = CopyFrames \cup {Len(stack) + 1}
         /\ stack' # <<>> /\ Len(stack') = Len(stack) + 1 /\ Top' = frame
         /\ \A f \in CopyFrames : stack'[f] = stack[f] /\ f < Len(stack')
         /\ stack'[Len(stack) + 1] = frame
         /\ Copies' = Copies \cup {frame.copy}
<1>1. /\ stack \in Seq(FrameSet) /\ Len(stack) \in Nat /\ DOMAIN stack = 1 .. Len(stack)
      /\ frame \in FrameSet /\ frame.kind = "obj"
  BY FrameFacts DEF FrameSet, ObjectFrame
<1>2. /\ stack' \in Seq(FrameSet) /\ Len(stack') = Len(stack) + 1
      /\ \A k \in 1 .. Len(stack) : stack'[k] = stack[k]
      /\ stack'[Len(stack) + 1] = frame
  BY <1>1, AppendProperties DEF Push
<1>3. DOMAIN stack' = 1 .. Len(stack) + 1
  BY <1>2
<1>4. CopyFrames' = CopyFrames \cup {Len(stack) + 1}
  BY <1>1, <1>2, <1>3 DEF CopyFrames
<1>5. \A f \in CopyFrames : stack'[f] = stack[f] /\ f < Len(stack')
  BY <1>1, <1>2 DEF CopyFrames
<1>6. Copies' = Copies \cup {frame.copy}
  BY <1>2, <1>4, <1>5 DEF Copies
<1>7. stack' # <<>> /\ Top' = frame
  BY <1>1, <1>2 DEF Top
<1> QED BY <1>2, <1>4, <1>5, <1>6, <1>7

\* A call of duplicate_array goes into its loop.
LEMMA PushArray ==
  ASSUME Inv, Push([kind |-> "arr"])
  PROVE  /\ stack' \in Seq(FrameSet) /\ CopyFrames' = CopyFrames /\ Copies' = Copies
         /\ \A f \in CopyFrames : stack'[f] = stack[f]
<1>1. /\ stack \in Seq(FrameSet) /\ Len(stack) \in Nat /\ DOMAIN stack = 1 .. Len(stack)
      /\ [kind |-> "arr"] \in FrameSet
  BY FrameFacts DEF FrameSet, ArrayFrame
<1>2. /\ stack' \in Seq(FrameSet) /\ Len(stack') = Len(stack) + 1
      /\ \A k \in 1 .. Len(stack) : stack'[k] = stack[k]
      /\ stack'[Len(stack) + 1].kind = "arr"
  BY <1>1, AppendProperties DEF Push
<1>3. DOMAIN stack' = 1 .. Len(stack) + 1
  BY <1>2
<1>4. CopyFrames' = CopyFrames
  BY <1>1, <1>2, <1>3 DEF CopyFrames
<1>5. \A f \in CopyFrames : stack'[f] = stack[f]
  BY <1>1, <1>2 DEF CopyFrames
<1>6. Copies' = Copies
  BY <1>4, <1>5 DEF Copies
<1> QED BY <1>2, <1>4, <1>5, <1>6

\* The frame of duplicate_object changes, but not what it copies into.
LEMMA ChangeTop ==
  ASSUME Inv, stack # <<>>, Top.kind = "obj",
         NEW frame \in ObjectFrame, frame.copy = Top.copy, SetTop(frame)
  PROVE  /\ stack' \in Seq(FrameSet) /\ CopyFrames' = CopyFrames /\ Copies' = Copies
         /\ stack' # <<>> /\ Len(stack') = Len(stack) /\ Top' = frame
         /\ Len(stack) \in CopyFrames /\ stack'[Len(stack)] = frame
         /\ \A f \in CopyFrames \ {Len(stack)} : stack'[f] = stack[f] /\ f < Len(stack)
<1>1. /\ stack \in Seq(FrameSet) /\ Len(stack) \in Nat \ {0} /\ DOMAIN stack = 1 .. Len(stack)
      /\ frame \in FrameSet /\ frame.kind = "obj" /\ Len(stack) \in DOMAIN stack
  BY FrameFacts DEF FrameSet, ObjectFrame
<1>2. stack' = [stack EXCEPT ![Len(stack)] = frame]
  BY DEF SetTop
<1>3. /\ stack' \in Seq(FrameSet) /\ Len(stack') = Len(stack) /\ DOMAIN stack' = DOMAIN stack
      /\ stack'[Len(stack)] = frame /\ \A k \in DOMAIN stack \ {Len(stack)} : stack'[k] = stack[k]
  BY <1>1, <1>2, SequenceOps
<1>4. Len(stack) \in CopyFrames
  BY <1>1 DEF CopyFrames, Top
<1>5. CopyFrames' = CopyFrames
  BY <1>1, <1>3, <1>4 DEF CopyFrames
<1>6. \A f \in CopyFrames \ {Len(stack)} : stack'[f] = stack[f] /\ f < Len(stack)
  BY <1>1, <1>3 DEF CopyFrames
<1>7. \A f \in CopyFrames : stack'[f].copy = stack[f].copy
  BY <1>3, <1>6 DEF Top
<1>8. Copies' = Copies
  BY <1>5, <1>7 DEF Copies
<1>9. stack' # <<>> /\ Top' = frame
  BY <1>1, <1>3 DEF Top
<1> QED BY <1>3, <1>4, <1>5, <1>6, <1>8, <1>9

LEMMA KeepProgress ==
  ASSUME NEW f, Progress(f), stack'[f] = stack[f],
         heap'[stack[f].object] = heap[stack[f].object],
         heap'[stack[f].copy] = heap[stack[f].copy],
         f < Len(stack) \/ pc # "loop"
  PROVE  Progress(f)'
BY DEF Progress

-----------------------------------------------------------------------------
(* The steps of json_copy.                                                 *)

LEMMA BeginCopyInv == ASSUME Inv, NEW n \in DOMAIN heap, Copy(n) PROVE Inv'
<1>1. /\ pc = "idle" /\ pc' = "copy" /\ at' = n
      /\ heap' = heap /\ roots' = roots /\ ret' = ret /\ stack' = stack
  BY DEF Copy, Call, memory
<1>2. stack' = <<>> /\ CopyFrames' = {}
  BY <1>1, Idle DEF CopyFrames
<1>3. Copies' = {} /\ Returned' = {} /\ Tops' = roots
  BY <1>1, <1>2 DEF Copies, Returned, Tops
<1>4. Memory(heap') /\ Forest(Kids(heap'), Tops')
  BY <1>1, <1>3, Idle DEF Inv
<1>5. Shape' /\ Control'
  BY <1>1, <1>2 DEF Inv, Shape, Control
<1>6. Distinct'
  BY <1>2, <1>3 DEF Distinct
<1>7. Source(DOMAIN heap)'
  <2>1. Separate(heap, DOMAIN heap)
    BY OwnedFacts DEF Separate, Closed, Apart, Inside
  <2> QED BY <1>1, <1>2, <1>3, <2>1 DEF Source
<1> QED BY <1>1, <1>2, <1>4, <1>5, <1>6, <1>7 DEF Inv

\* Where Source(S) holds, what json_copy reads is there and is not what it makes.
LEMMA SourceFacts ==
  ASSUME Inv, NEW S, Source(S)
  PROVE  /\ S \subseteq DOMAIN heap
         /\ \A n \in S : \A k \in DOMAIN Slots(heap[n]) : Slots(heap[n])[k] \in S
         /\ \A f \in CopyFrames : /\ stack[f].object \in S /\ stack[f].object \in DOMAIN heap
                                  /\ stack[f].copy \in Copies /\ stack[f].copy \in DOMAIN heap
                                  /\ stack[f].copy \notin S
<1>1. S \subseteq DOMAIN heap /\ Closed(Kids(heap), S)
  BY DEF Source, Separate
<1>2. \A n \in S : \A k \in DOMAIN Slots(heap[n]) : Slots(heap[n])[k] \in S
  BY <1>1, KidsIs DEF Closed
<1>3. Tops \subseteq DOMAIN heap
  BY OwnedFacts
<1>4. ASSUME NEW f \in CopyFrames
      PROVE  /\ stack[f].object \in S /\ stack[f].copy \in Copies /\ stack[f].copy \notin S
  BY DEF Source, Copies
<1> QED BY <1>1, <1>2, <1>3, <1>4 DEF Tops

\* The innermost call of json_copy returns a null pointer at once.
LEMMA NothingCopiedInv ==
  ASSUME Inv, pc = "copy", pc' = "return", ret' = NULL,
         heap' = heap, roots' = roots, stack' = stack
  PROVE  Inv'
<1>1. CopyFrames' = CopyFrames /\ Copies' = Copies /\ Returned = {} /\ Returned' = {}
  BY DEF CopyFrames, Copies, Returned
<1>2. Tops' = Tops
  BY <1>1 DEF Tops
<1>3. Shape' /\ Control' /\ Distinct'
  BY <1>1 DEF Inv, Shape, Control, Distinct
<1>4. PICK S \in SUBSET DOMAIN heap : Source(S)
  BY DEF Inv
<1>5. Source(S)'
  BY <1>1, <1>4 DEF Source
<1>6. ASSUME NEW f \in CopyFrames PROVE Progress(f)'
  BY <1>6, KeepProgress DEF Inv
<1> QED BY <1>1, <1>2, <1>3, <1>4, <1>5, <1>6 DEF Inv

\* A scalar or a string is copied.
LEMMA LeafCopiedInv ==
  ASSUME Inv, pc = "copy", heap[at].kind \in {"scalar", "str"}, Make(heap[at]),
         pc' = "return", ret' = NewNode, roots' = roots, stack' = stack
  PROVE  Inv'
<1>1. PICK n : n = NewNode
  OBVIOUS
<1>2. n \in Node /\ n \notin DOMAIN heap /\ n # NULL
  BY <1>1, NewNodeIs, ValuesAssumption DEF Make, Unused
<1>3. PICK S \in SUBSET DOMAIN heap : Source(S)
  BY DEF Inv
<1>4. at \in DOMAIN heap
  BY <1>3 DEF Source
<1>5. PICK v : v = heap[at]
  OBVIOUS
<1>6. Value(v) /\ DOMAIN Slots(v) = {}
  <2>1. Value(v) /\ v \in ValueSet /\ v.kind \notin {"arr", "obj"}
    BY <1>4, <1>5, OwnedFacts
  <2> QED BY <2>1, Kinds
<1>7. DOMAIN heap' = DOMAIN heap \cup {n} /\ heap'[n] = v /\ \A m \in DOMAIN heap : heap'[m] = heap[m]
  BY <1>1, <1>2, <1>5 DEF Make
<1>8. Memory(heap') /\ Forest(Kids(heap'), Tops \cup {n}) /\ Separate(heap', S)
  BY <1>2, <1>3, <1>6, <1>7, MemoryNew DEF Inv, Source
<1>9. CopyFrames' = CopyFrames /\ Copies' = Copies /\ Returned = {} /\ Returned' = {n}
  BY <1>1, <1>2 DEF CopyFrames, Copies, Returned
<1>10. Tops' = Tops \cup {n}
  BY <1>9 DEF Tops
<1>11. Shape' /\ Control'
  BY <1>1, <1>2 DEF Inv, Shape, Control
<1>12. n \notin roots /\ n \notin Copies
  BY <1>2, OwnedFacts DEF Tops
<1>13. Distinct'
  BY <1>9, <1>12 DEF Inv, Distinct
<1>14. Source(S)'
  BY <1>2, <1>3, <1>8, <1>9 DEF Source
<1>15. ASSUME NEW f \in CopyFrames PROVE Progress(f)'
  BY <1>3, <1>7, KeepProgress, SourceFacts DEF Inv
<1> QED BY <1>7, <1>8, <1>9, <1>10, <1>11, <1>13, <1>14, <1>15 DEF Inv

LEMMA CopyLeafInv == ASSUME Inv, CopyLeaf PROVE Inv'
BY NothingCopiedInv, LeafCopiedInv DEF CopyLeaf, Return, memory

\* duplicate_array goes on without an array.
LEMMA CopyArrayInv == ASSUME Inv, CopyArray PROVE Inv'
<1>1. pc = "copy" /\ heap' = heap /\ roots' = roots /\ heap[at].kind = "arr"
  BY DEF CopyArray
<1>2. CASE Return(NULL) /\ stack' = stack
  BY <1>1, <1>2, NothingCopiedInv DEF Return
<1>3. CASE ~(Return(NULL) /\ stack' = stack)
  <2>1. /\ pc' = pc /\ ret' = ret /\ Push([kind |-> "arr"])
        /\ Len(heap[at].values) > 0 /\ at' = heap[at].values[1]
    BY <1>3 DEF CopyArray
  <2>2. PICK S \in SUBSET DOMAIN heap : Source(S)
    BY DEF Inv
  <2>3. at \in S /\ at \in DOMAIN heap
    BY <1>1, <2>2 DEF Source
  <2>4. heap[at].values \in Seq(Node) /\ Slots(heap[at]) = heap[at].values
    BY <1>1, <2>3, OwnedFacts, Kinds
  <2>5. at' \in S
    <3>1. 1 \in DOMAIN heap[at].values
      BY <2>1, <2>4
    <3> QED BY <2>1, <2>2, <2>3, <2>4, <3>1, SourceFacts
  <2>6. /\ stack' \in Seq(FrameSet) /\ CopyFrames' = CopyFrames /\ Copies' = Copies
        /\ \A f \in CopyFrames : stack'[f] = stack[f]
    BY <2>1, PushArray
  <2>7. Returned' = {} /\ Returned = {} /\ Tops' = Tops
    BY <1>1, <2>1, <2>6 DEF Returned, Tops
  <2>8. Shape' /\ Control'
    BY <1>1, <2>1, <2>6 DEF Inv, Shape, Control, FrameSet
  <2>9. Distinct'
    BY <1>1, <2>6, <2>7 DEF Inv, Distinct
  <2>10. Source(S)'
    BY <1>1, <2>2, <2>5, <2>6, <2>7 DEF Source
  <2>11. ASSUME NEW f \in CopyFrames PROVE Progress(f)'
    BY <1>1, <2>6, <2>11, KeepProgress DEF Inv
  <2> QED BY <1>1, <2>2, <2>6, <2>7, <2>8, <2>9, <2>10, <2>11 DEF Inv
<1> QED BY <1>2, <1>3

\* A copy is freed, with all that is in it.
LEMMA FreeTop ==
  ASSUME Inv, NEW S, Source(S), NEW c \in Tops, c \notin S,
         heap' = Restrict(heap, DOMAIN heap \ Below(c))
  PROVE  /\ Memory(heap') /\ Forest(Kids(heap'), Tops \ {c}) /\ Separate(heap', S)
         /\ \A m \in DOMAIN heap' : heap'[m] = heap[m]
<1>1. c \in Tops /\ c \in DOMAIN heap /\ c \notin S
  BY OwnedFacts
<1>2. heap' = Restrict(heap, DOMAIN heap \ Tree(Kids(heap), c))
  BY <1>1, OwnedFacts
<1>3. Memory(heap) /\ Forest(Kids(heap), Tops) /\ Separate(heap, S)
  BY DEF Inv, Source
<1>4. /\ Memory(heap') /\ Forest(Kids(heap'), Tops \ {c})
      /\ \A m \in DOMAIN heap' : m \in DOMAIN heap /\ heap'[m] = heap[m]
      /\ \A R : Separate(heap, R) /\ c \notin R => Separate(heap', R)
  <2>1. \A h : Memory(h) => \A t : Forest(Kids(h), t) => \A n \in t : \A w :
          w = Restrict(h, DOMAIN h \ Tree(Kids(h), n)) =>
            /\ Memory(w) /\ Forest(Kids(w), t \ {n})
            /\ \A m \in DOMAIN w : m \in DOMAIN h /\ w[m] = h[m]
            /\ \A R : Separate(h, R) /\ n \notin R => Separate(w, R)
    BY MemoryFree
  <2>2. \A n \in Tops : \A w :
          w = Restrict(heap, DOMAIN heap \ Tree(Kids(heap), n)) =>
            /\ Memory(w) /\ Forest(Kids(w), Tops \ {n})
            /\ \A m \in DOMAIN w : m \in DOMAIN heap /\ w[m] = heap[m]
            /\ \A R : Separate(heap, R) /\ n \notin R => Separate(w, R)
    BY <1>3, <2>1
  <2> QED BY <1>1, <1>2, <2>2
<1>5. Separate(heap', S)
  BY <1>1, <1>3, <1>4
<1> QED BY <1>4, <1>5

\* duplicate_array loses the copy of the first value.
LEMMA EndArrayInv == ASSUME Inv, EndArray PROVE Inv'
<1>1. /\ pc = "return" /\ pc' = "return" /\ stack # <<>> /\ Top.kind = "arr" /\ Pop
      /\ ret' = NULL /\ roots' = roots
  BY DEF EndArray, Return
<1>2. /\ stack' \in Seq(FrameSet) /\ CopyFrames' \subseteq CopyFrames /\ Copies' = Copies
      /\ \A f \in CopyFrames' : stack'[f] = stack[f] /\ f < Len(stack)
  BY <1>1, PopFrame
<1>3. Returned = {ret} \ {NULL} /\ Returned' = {}
  BY <1>1 DEF Returned
<1>4. Tops' = Tops \ ({ret} \ {NULL})
  BY <1>1, <1>2, <1>3 DEF Tops, Inv, Distinct
<1>5. PICK S \in SUBSET DOMAIN heap : Source(S)
  BY DEF Inv
<1>6. /\ Memory(heap') /\ Forest(Kids(heap'), Tops') /\ Separate(heap', S)
      /\ \A m \in DOMAIN heap' : heap'[m] = heap[m]
  <2>1. CASE ret = NULL
    <3>1. heap' = heap /\ Tops' = Tops
      BY <1>4, <2>1 DEF EndArray, memory
    <3> QED BY <1>5, <3>1 DEF Inv, Source
  <2>2. CASE ret # NULL
    <3>1. ret \in Tops /\ ret \in DOMAIN heap /\ ret \notin S
      BY <1>3, <1>5, <2>2, OwnedFacts DEF Tops, Source
    <3>2. heap' = Restrict(heap, DOMAIN heap \ Below(ret))
      BY <2>2 DEF EndArray
    <3>3. Tops' = Tops \ {ret}
      BY <1>4, <2>2
    <3> QED BY <1>5, <3>1, <3>2, <3>3, FreeTop
  <2> QED BY <2>1, <2>2
<1>7. Shape' /\ Control'
  BY <1>1, <1>2 DEF Inv, Shape, Control, FrameSet
<1>8. Distinct'
  BY <1>1, <1>2, <1>3 DEF Inv, Distinct
<1>9. Source(S)'
  BY <1>1, <1>2, <1>3, <1>5, <1>6 DEF Source
<1>10. ASSUME NEW f \in CopyFrames' PROVE Progress(f)'
  <2>1. f \in CopyFrames /\ stack'[f] = stack[f]
    BY <1>2
  <2>2. stack[f].object \in DOMAIN heap'
    BY <1>5, <1>6, <2>1, SourceFacts DEF Separate
  <2>3. stack[f].copy \in DOMAIN heap'
    <3>1. stack[f].copy \in Tops'
      BY <1>2, <2>1 DEF Tops, Copies
    <3> QED BY <1>6, <3>1, KidsIs DEF Forest, Inside
  <2> QED BY <1>1, <1>6, <2>1, <2>2, <2>3, KeepProgress DEF Inv
<1>11. S \in SUBSET DOMAIN heap'
  BY <1>6 DEF Separate
<1> QED BY <1>6, <1>7, <1>8, <1>9, <1>10, <1>11 DEF Inv

\* duplicate_object begins: it has an empty copy, with room for all it copies.
LEMMA CopyObjectInv == ASSUME Inv, CopyObject PROVE Inv'
<1>1. pc = "copy" /\ heap[at].kind = "obj" /\ roots' = roots
  BY DEF CopyObject
<1>2. CASE Return(NULL) /\ heap' = heap /\ stack' = stack
  BY <1>1, <1>2, NothingCopiedInv DEF Return
<1>3. CASE ~(Return(NULL) /\ heap' = heap /\ stack' = stack)
  <2>1. /\ Make(ObjectOf(CopyTable(heap[at]), <<>>))
        /\ Push([kind |-> "obj", object |-> at, copy |-> NewNode, i |-> 0, key |-> NULL])
        /\ pc' = "loop" /\ ret' = ret
    BY <1>3 DEF CopyObject, memory
  <2>2. PICK n, c, v : /\ n = NewNode /\ c = TableFor(Len(heap[at].entries))
                       /\ v = ObjectOf(c, <<>>)
    OBVIOUS
  <2>3. n \in Node /\ n \notin DOMAIN heap
    BY <2>1, <2>2, NewNodeIs DEF Make, Unused
  <2>4. PICK S \in SUBSET DOMAIN heap : Source(S)
    BY DEF Inv
  <2>5. at \in S /\ at \in DOMAIN heap /\ at \in Node
    BY <1>1, <2>4, OwnedFacts DEF Source
  <2>6. /\ Value(heap[at]) /\ Len(heap[at].entries) \in Nat
        /\ HasRoom(heap[at].capacity, Len(heap[at].entries))
    <3>1. Value(heap[at]) /\ heap[at] \in ValueSet
      BY <2>5, OwnedFacts
    <3>2. heap[at].entries \in Seq(Entry)
      BY <1>1, <3>1, Kinds
    <3> QED BY <1>1, <3>1, <3>2 DEF Value
  <2>7. c \in Nat /\ 2 * Len(heap[at].entries) <= c
    <3>1. PICK N \in Nat : N = Len(heap[at].entries)
      BY <2>6
    <3>2. N = 0 \/ 2 * N <= Largest
      BY <2>6, <3>1 DEF HasRoom
    <3>3. TableFor(N) \in Nat /\ 2 * N <= TableFor(N)
      BY <3>2, TableForIs
    <3> QED BY <2>2, <3>1, <3>3
  <2>8. /\ v.kind = "obj" /\ v.entries = <<>> /\ Len(v.entries) = 0 /\ v.capacity = c
        /\ Value(v) /\ DOMAIN Slots(v) = {}
    <3>1. v \in ObjectSet /\ v.kind = "obj" /\ v.entries = <<>> /\ v.capacity = c
      BY <2>2, <2>7 DEF ObjectOf, ObjectSet
    <3>2. v \in ValueSet
      BY <3>1 DEF ValueSet
    <3>3. HasRoom(v.capacity, Len(v.entries))
      BY <2>7, <3>1 DEF HasRoom
    <3>4. DOMAIN Slots(v) = {}
      BY <3>1, <3>2, Kinds
    <3> QED BY <3>1, <3>2, <3>3, <3>4 DEF Value
  <2>9. DOMAIN heap' = DOMAIN heap \cup {n} /\ heap'[n] = v /\ \A m \in DOMAIN heap : heap'[m] = heap[m]
    <3>1. heap' = [m \in DOMAIN heap \cup {n} |-> IF m = n THEN v ELSE heap[m]]
      BY <2>1, <2>2 DEF Make, CopyTable
    <3> QED BY <2>3, <3>1
  <2>10. Memory(heap') /\ Forest(Kids(heap'), Tops \cup {n}) /\ Separate(heap', S)
    BY <2>3, <2>4, <2>8, <2>9, MemoryNew DEF Inv, Source
  <2>11. PICK frame : frame = [kind |-> "obj", object |-> at, copy |-> n, i |-> 0, key |-> NULL]
    OBVIOUS
  <2>12. /\ frame \in ObjectFrame /\ frame.kind = "obj" /\ frame.object = at
         /\ frame.copy = n /\ frame.i = 0
    BY <2>3, <2>5, <2>11 DEF ObjectFrame, Dataless
  <2>13. Push(frame)
    BY <2>1, <2>2, <2>11
  <2>14. /\ stack' \in Seq(FrameSet) /\ CopyFrames' = CopyFrames \cup {Len(stack) + 1}
         /\ stack' # <<>> /\ Len(stack') = Len(stack) + 1 /\ Top' = frame
         /\ \A f \in CopyFrames : stack'[f] = stack[f] /\ f < Len(stack')
         /\ stack'[Len(stack) + 1] = frame
         /\ Copies' = Copies \cup {n}
    BY <2>12, <2>13, PushObject
  <2>15. Returned' = {} /\ Returned = {} /\ Tops' = Tops \cup {n}
    BY <1>1, <2>1, <2>14 DEF Returned, Tops
  <2>16. n \notin roots /\ n \notin Copies /\ n \notin S
    BY <2>3, <2>4, OwnedFacts DEF Tops
  <2>17. Shape' /\ Control'
    BY <2>1, <2>12, <2>14 DEF Inv, Shape, Control, FrameSet
  <2>18. Distinct'
    <3>1. roots' \cap Copies' = {}
      BY <1>1, <2>14, <2>16 DEF Inv, Distinct
    <3>2. ASSUME NEW f \in CopyFrames', NEW g \in CopyFrames', stack'[f].copy = stack'[g].copy
          PROVE  f = g
      <4>1. \A h \in CopyFrames : stack'[h].copy = stack[h].copy /\ stack[h].copy # n
        BY <2>14, <2>16 DEF Copies
      <4>2. stack'[Len(stack) + 1].copy = n
        BY <2>12, <2>14
      <4>3. \A h1, h2 \in CopyFrames : stack[h1].copy = stack[h2].copy => h1 = h2
        BY DEF Inv, Distinct
      <4> QED BY <2>14, <3>2, <4>1, <4>2, <4>3
    <3> QED BY <2>15, <3>1, <3>2 DEF Distinct
  <2>19. Source(S)'
    <3>1. \A f \in CopyFrames' : stack'[f].object \in S
      BY <2>4, <2>5, <2>12, <2>14 DEF Source
    <3>2. S \cap (Copies' \cup Returned') = {}
      BY <2>4, <2>14, <2>15, <2>16 DEF Source
    <3> QED BY <2>1, <2>10, <3>1, <3>2 DEF Source
  <2>20. ASSUME NEW f \in CopyFrames' PROVE Progress(f)'
    <3>1. CASE f \in CopyFrames
      BY <1>1, <2>4, <2>9, <2>14, <3>1, KeepProgress, SourceFacts DEF Inv
    <3>2. CASE f = Len(stack) + 1
      <4>1. stack'[f].object = at /\ stack'[f].copy = n /\ stack'[f].i = 0
        BY <2>12, <2>14, <3>2
      <4>2. heap'[at] = heap[at] /\ heap'[n] = v
        BY <2>5, <2>9
      <4>3. ~(f < Len(stack'))
        BY <2>14, <3>2, FrameFacts
      <4> QED BY <1>1, <2>1, <2>6, <2>7, <2>8, <4>1, <4>2, <4>3 DEF Progress
    <3> QED BY <2>14, <3>1, <3>2
  <2>21. S \in SUBSET DOMAIN heap'
    BY <2>9
  <2> QED BY <2>10, <2>15, <2>17, <2>18, <2>19, <2>20, <2>21 DEF Inv
<1> QED BY <1>2, <1>3

\* duplicate_object turns to the value of an entry.
LEMMA CopyKeyInv == ASSUME Inv, CopyKey PROVE Inv'
<1>1. /\ pc = "loop" /\ pc' = "copy" /\ heap' = heap /\ roots' = roots /\ ret' = ret
      /\ Top.i < Len(heap[Top.object].entries) /\ at' = Upcoming.value
  BY DEF CopyKey, Looping
<1>2. stack # <<>> /\ Top.kind = "obj"
  BY <1>1 DEF Inv, Control
<1>3. Len(stack) \in CopyFrames /\ Top = stack[Len(stack)] /\ Top \in ObjectFrame
  BY <1>2, FrameFacts DEF CopyFrames, Top
<1>0. /\ heap[Top.object].entries \in Seq(Entry) /\ Top.i + 1 \in DOMAIN heap[Top.object].entries
      /\ Upcoming \in Entry /\ Top.object \in DOMAIN heap
      /\ Slots(heap[Top.object]) = [k \in DOMAIN heap[Top.object].entries |->
                                      heap[Top.object].entries[k].value]
  <2>1. Top.object \in DOMAIN heap
    BY <1>3, SourceFacts DEF Inv
  <2>2. heap[Top.object].kind = "obj" /\ Top.i \in Nat
    BY <1>3 DEF Inv, Progress, ObjectFrame
  <2>3. heap[Top.object] \in ValueSet
    BY <2>1, OwnedFacts
  <2>4. /\ heap[Top.object].entries \in Seq(Entry)
        /\ Slots(heap[Top.object]) = [k \in DOMAIN heap[Top.object].entries |->
                                        heap[Top.object].entries[k].value]
    BY <2>2, <2>3, Kinds
  <2>5. Top.i + 1 \in DOMAIN heap[Top.object].entries
    BY <1>1, <2>2, <2>4
  <2> QED BY <2>1, <2>4, <2>5 DEF Upcoming
<1>4. PICK key \in Text \cup Dataless : SetTop([Top EXCEPT !.key = key])
  <2>1. PICK key \in {Upcoming.key, Junk} : SetTop([Top EXCEPT !.key = key])
    BY DEF CopyKey
  <2>2. Upcoming.key \in Text \cup Dataless /\ Junk \in Dataless
    BY <1>0 DEF Entry, Dataless
  <2> QED BY <2>1, <2>2
<1>5. PICK frame : frame = [Top EXCEPT !.key = key]
  OBVIOUS
<1>6. frame \in ObjectFrame /\ frame.copy = Top.copy /\ frame.object = Top.object /\ frame.i = Top.i
  BY <1>3, <1>4, <1>5 DEF ObjectFrame
<1>7. SetTop(frame)
  BY <1>4, <1>5
<1>8. /\ stack' \in Seq(FrameSet) /\ CopyFrames' = CopyFrames /\ Copies' = Copies
      /\ stack' # <<>> /\ Len(stack') = Len(stack) /\ Top' = frame
      /\ stack'[Len(stack)] = frame
      /\ \A f \in CopyFrames \ {Len(stack)} : stack'[f] = stack[f] /\ f < Len(stack)
  BY <1>2, <1>6, <1>7, ChangeTop
<1>9. \A f \in CopyFrames : stack'[f].copy = stack[f].copy /\ stack'[f].object = stack[f].object
                            /\ stack'[f].i = stack[f].i
  BY <1>3, <1>6, <1>8
<1>10. Returned = {} /\ Returned' = {} /\ Tops' = Tops
  BY <1>1, <1>8 DEF Returned, Tops
<1>11. PICK S \in SUBSET DOMAIN heap : Source(S)
  BY DEF Inv
<1>12. at' \in S
  <2>1. Top.object \in S
    BY <1>3, <1>11, SourceFacts
  <2>2. Slots(heap[Top.object])[Top.i + 1] = at' /\ Top.i + 1 \in DOMAIN Slots(heap[Top.object])
    BY <1>0, <1>1 DEF Upcoming
  <2> QED BY <1>11, <2>1, <2>2, SourceFacts
<1>13. Shape' /\ Control'
  BY <1>1, <1>8 DEF Inv, Shape, Control, FrameSet
<1>14. Distinct'
  BY <1>1, <1>8, <1>9, <1>10 DEF Inv, Distinct
<1>15. Source(S)'
  BY <1>1, <1>8, <1>9, <1>10, <1>11, <1>12 DEF Source
<1>16. ASSUME NEW f \in CopyFrames PROVE Progress(f)'
  <2>1. Progress(f)
    BY DEF Inv
  <2>2. CASE f = Len(stack)
    BY <1>1, <1>3, <1>9, <2>1, <2>2 DEF Progress
  <2>3. CASE f # Len(stack)
    BY <1>1, <1>8, <2>1, <2>3, KeepProgress
  <2> QED BY <2>2, <2>3
<1> QED BY <1>1, <1>8, <1>10, <1>11, <1>13, <1>14, <1>15, <1>16 DEF Inv

\* duplicate_object gives up: it frees its copy, with all that is in it.
LEMMA GiveUpInv ==
  ASSUME Inv, stack # <<>>, Top.kind = "obj", pc = "loop" \/ (pc = "return" /\ ret = NULL),
         NEW k, GiveUp(k), roots' = roots
  PROVE  Inv'
<1>1. /\ Pop /\ pc' = "return" /\ ret' = NULL
      /\ heap' = Restrict(heap, DOMAIN heap \ Below(Top.copy))
  BY DEF GiveUp, Return
<1>2. /\ stack' \in Seq(FrameSet) /\ CopyFrames' \subseteq CopyFrames /\ Copies' = Copies \ {Top.copy}
      /\ Top.copy \in Copies
      /\ \A f \in CopyFrames' : stack'[f] = stack[f] /\ f < Len(stack)
  BY <1>1, PopFrame
<1>3. Returned = {} /\ Returned' = {}
  BY <1>1 DEF Returned
<1>4. PICK c : c = Top.copy
  OBVIOUS
<1>5. Tops' = Tops \ {c} /\ c \in Tops
  BY <1>2, <1>3, <1>4 DEF Tops, Inv, Distinct
<1>6. PICK S \in SUBSET DOMAIN heap : Source(S)
  BY DEF Inv
<1>7. c \in DOMAIN heap /\ c \notin S
  BY <1>2, <1>4, <1>5, <1>6, OwnedFacts DEF Source
<1>8. heap' = Restrict(heap, DOMAIN heap \ Below(c))
  BY <1>1, <1>4
<1>10. /\ Memory(heap') /\ Forest(Kids(heap'), Tops \ {c}) /\ Separate(heap', S)
       /\ \A m \in DOMAIN heap' : heap'[m] = heap[m]
  BY <1>5, <1>6, <1>7, <1>8, FreeTop
<1>11. Separate(heap', S)
  BY <1>10
<1>12. Shape' /\ Control'
  BY <1>1, <1>2 DEF Inv, Shape, Control, FrameSet
<1>13. Distinct'
  BY <1>2, <1>3 DEF Inv, Distinct
<1>14. Source(S)'
  BY <1>1, <1>2, <1>3, <1>6, <1>11 DEF Source
<1>15. ASSUME NEW f \in CopyFrames' PROVE Progress(f)'
  <2>1. f \in CopyFrames /\ stack'[f] = stack[f] /\ f < Len(stack)
    BY <1>2
  <2>2. stack[f].object \in DOMAIN heap'
    BY <1>6, <1>11, <2>1, SourceFacts DEF Separate
  <2>3. stack[f].copy \in DOMAIN heap'
    <3>1. stack[f].copy \in Tops'
      BY <1>2, <2>1 DEF Tops, Copies
    <3> QED BY <1>5, <1>10, <3>1, KidsIs DEF Forest, Inside
  <2> QED BY <1>10, <2>1, <2>2, <2>3, KeepProgress DEF Inv
<1>16. S \in SUBSET DOMAIN heap'
  BY <1>11 DEF Separate
<1> QED BY <1>5, <1>10, <1>12, <1>13, <1>14, <1>15, <1>16 DEF Inv

LEMMA ObjectFailsInv == ASSUME Inv, CopyKeyFails \/ EntryFails PROVE Inv'
<1>1. CASE CopyKeyFails
  <2>1. pc = "loop" /\ GiveUp(0) /\ roots' = roots
    BY <1>1 DEF CopyKeyFails, Looping
  <2>2. stack # <<>> /\ Top.kind = "obj"
    BY <2>1 DEF Inv, Control
  <2> QED BY <2>1, <2>2, GiveUpInv
<1>2. CASE EntryFails
  <2>1. /\ pc = "return" /\ ret = NULL /\ stack # <<>> /\ Top.kind = "obj" /\ roots' = roots
        /\ GiveUp(KeyBlocks(Top.key) - 1)
    BY <1>2 DEF EntryFails
  <2> QED BY <2>1, GiveUpInv
<1> QED BY <1>1, <1>2

LEMMA TopFacts ==
  ASSUME Inv, stack # <<>>, Top.kind = "obj"
  PROVE  /\ Len(stack) \in CopyFrames /\ Top = stack[Len(stack)] /\ Top \in ObjectFrame
         /\ Top.i \in Nat /\ Top.copy \in Copies
         /\ Top.copy \in DOMAIN heap /\ Value(heap[Top.copy]) /\ heap[Top.copy] \in ObjectSet
         /\ Top.object \in DOMAIN heap /\ Value(heap[Top.object]) /\ heap[Top.object] \in ObjectSet
         /\ Len(heap[Top.copy].entries) \in Nat /\ heap[Top.copy].capacity \in Nat
         /\ Len(heap[Top.object].entries) \in Nat
         /\ Progress(Len(stack))
<1>1. Len(stack) \in CopyFrames /\ Top = stack[Len(stack)] /\ Top \in ObjectFrame
  BY FrameFacts DEF CopyFrames, Top
<1>2. Progress(Len(stack)) /\ Top.i \in Nat
  BY <1>1 DEF Inv, ObjectFrame
<1>3. Top.copy \in Copies /\ Top.copy \in DOMAIN heap /\ Top.object \in DOMAIN heap
  BY <1>1, SourceFacts DEF Inv
<1>4. heap[Top.copy].kind = "obj" /\ heap[Top.object].kind = "obj"
  BY <1>1, <1>2 DEF Progress
<1>5. ASSUME NEW n \in {Top.copy, Top.object}
      PROVE  /\ Value(heap[n]) /\ heap[n] \in ObjectSet /\ heap[n].capacity \in Nat
             /\ Len(heap[n].entries) \in Nat
  <2>1. Value(heap[n]) /\ heap[n] \in ValueSet /\ heap[n].kind = "obj"
    BY <1>3, <1>4, OwnedFacts
  <2>2. heap[n] \in ObjectSet /\ heap[n].capacity \in Nat /\ heap[n].entries \in Seq(Entry)
    BY <2>1, Kinds
  <2> QED BY <2>1, <2>2
<1> QED BY <1>1, <1>2, <1>3, <1>5

\* The table of the copy has room for the next entry, and no object is too
\* large for the largest table.
LEMMA CopyRoom ==
  ASSUME Inv, pc = "return", stack # <<>>, Top.kind = "obj"
  PROVE  /\ ~Grows(heap[Top.copy])
         /\ HasRoom(heap[Top.copy].capacity, Len(heap[Top.copy].entries) + 1)
         /\ Len(heap[Top.copy].entries) = Top.i /\ Top.i < Len(heap[Top.object].entries)
         /\ 2 * Len(heap[Top.object].entries) <= heap[Top.copy].capacity
<1> DEFINE N == Len(heap[Top.object].entries)
           M == Len(heap[Top.copy].entries)
           C == heap[Top.copy].capacity
<1>1. /\ N \in Nat /\ M \in Nat /\ C \in Nat /\ Progress(Len(stack))
      /\ Top = stack[Len(stack)] /\ Top.i \in Nat
  BY TopFacts
<1>2. M = Top.i /\ Top.i < N /\ 2 * N <= C
  BY <1>1 DEF Progress
<1>3. N = 0 \/ 2 * N <= Largest
  <2>1. Value(heap[Top.object]) /\ heap[Top.object] \in ObjectSet
    BY TopFacts
  <2> QED BY <2>1 DEF Value, HasRoom, ObjectSet
<1>4. Largest \in Nat
  BY ValuesAssumption, EmptySeq DEF Largest
<1>5. 2 * (M + 1) <= C /\ 2 * (M + 1) <= Largest
  <2> HIDE DEF N, M, C
  <2> QED BY <1>1, <1>2, <1>3, <1>4
<1>6. ~Grows(heap[Top.copy])
  <2>1. ~(2 * (M + 1) > C)
    <3> HIDE DEF M, C
    <3> QED BY <1>1, <1>5
  <2> QED BY <2>1 DEF Grows
<1> QED BY <1>2, <1>5, <1>6 DEF HasRoom

\* A copy of a value is put into the copy of the object.
LEMMA AddCopyInv == ASSUME Inv, AddCopy PROVE IInv'
<1>1. CASE Abort
  BY <1>1, AbortInv
<1>2. CASE ~Abort
  <2>1. /\ pc = "return" /\ stack # <<>> /\ Top.kind = "obj" /\ ret # NULL
        /\ SetTop([Top EXCEPT !.i = @ + 1, !.key = NULL])
        /\ pc' = "loop" /\ ret' = ret /\ roots' = roots
    BY <1>2 DEF AddCopy
  <2>2. PICK place \in Places(heap[Top.copy]) :
          heap' = [heap EXCEPT ![Top.copy] = WithEntry(@, Top.key, ret, place)]
    BY <1>2 DEF AddCopy
  <2>3. PICK S \in SUBSET DOMAIN heap : Source(S)
    BY DEF Inv
  <2>4. /\ Len(stack) \in CopyFrames /\ Top = stack[Len(stack)] /\ Top \in ObjectFrame
        /\ Top.i \in Nat /\ Top.copy \in Copies
        /\ Top.copy \in DOMAIN heap /\ Value(heap[Top.copy]) /\ heap[Top.copy] \in ObjectSet
        /\ Top.object \in DOMAIN heap /\ heap[Top.object] \in ObjectSet
    BY <2>1, TopFacts
  <2>5. /\ Returned = {ret} /\ Returned' = {} /\ ret \in Tops /\ ret \in DOMAIN heap /\ ret \in Node
        /\ ret \notin S /\ ret \notin Copies /\ ret \notin roots
    <3>1. Returned = {ret} /\ Returned' = {}
      BY <2>1 DEF Returned
    <3>2. ret \in Tops /\ ret \in DOMAIN heap /\ ret \in Node
      BY <3>1, OwnedFacts DEF Tops
    <3> QED BY <2>3, <3>1, <3>2 DEF Source, Inv, Distinct
  <2>6. PICK a, v, key : /\ a = Top.copy /\ key = Top.key
                         /\ v = WithEntry(heap[Top.copy], Top.key, ret, place)
    OBVIOUS
  <2>7. a \in DOMAIN heap /\ a \in Tops /\ a # ret /\ a \notin S /\ key \in Text \cup Dataless
    BY <2>3, <2>4, <2>5, <2>6 DEF Tops, Source, ObjectFrame
  <2>8. a \notin Tree(Kids(heap), ret)
    <3>1. Inside(Kids(heap), Tops) /\ DOMAIN Kids(heap) = DOMAIN heap
      BY OwnedFacts
    <3>2. a \in Tree(Kids(heap), a)
      BY <2>7, <3>1, TreeProperties
    <3>3. Forest(Kids(heap), Tops)
      BY DEF Inv
    <3>4. Tree(Kids(heap), a) \cap Tree(Kids(heap), ret) = {}
      BY <2>5, <2>7, <3>3, TreesApart
    <3> QED BY <3>2, <3>4
  <2>9. ~Grows(heap[a]) /\ HasRoom(heap[a].capacity, Len(heap[a].entries) + 1)
        /\ Len(heap[a].entries) = Top.i /\ Top.i < Len(heap[Top.object].entries)
        /\ 2 * Len(heap[Top.object].entries) <= heap[a].capacity
    BY <2>1, <2>6, CopyRoom
  <2>10. /\ v \in ValueSet /\ v.kind = "obj" /\ Len(v.entries) = Len(heap[a].entries) + 1
         /\ v.capacity = heap[a].capacity
         /\ Inserted(Slots(heap[a]), Slots(v), ret)
    <3>1. heap[a] \in ObjectSet /\ place \in Places(heap[a]) /\ v = WithEntry(heap[a], key, ret, place)
      BY <2>2, <2>4, <2>6
    <3> QED BY <2>5, <2>7, <2>9, <3>1, ObjectGets
  <2>11. Value(v)
    BY <2>9, <2>10 DEF Value
  <2>12. heap' = [heap EXCEPT ![a] = v]
    BY <2>2, <2>6
  <2>13. /\ Memory(heap') /\ Forest(Kids(heap'), Tops \ {ret})
         /\ DOMAIN heap' = DOMAIN heap /\ heap'[a] = v
         /\ \A m \in DOMAIN heap \ {a} : heap'[m] = heap[m]
         /\ Separate(heap', S)
    <3>1. Memory(heap) /\ Forest(Kids(heap), Tops) /\ Separate(heap, S)
      BY <2>3 DEF Inv, Source
    <3>2. PICK n : n = ret
      OBVIOUS
    <3>3. n \in Tops /\ a \in DOMAIN heap /\ a \notin Tree(Kids(heap), n) /\ n \notin S /\ a \notin S
      BY <2>5, <2>7, <2>8, <3>2
    <3>4. Inserted(Slots(heap[a]), Slots(v), n)
      BY <2>10, <3>2
    <3>5. /\ Memory(heap') /\ Forest(Kids(heap'), Tops \ {n})
          /\ DOMAIN heap' = DOMAIN heap /\ heap'[a] = v
          /\ \A m \in DOMAIN heap \ {a} : heap'[m] = heap[m]
          /\ \A R : Separate(heap, R) /\ n \notin R /\ a \notin R => Separate(heap', R)
      BY <2>11, <2>12, <3>1, <3>3, <3>4, MemoryGive
    <3> QED BY <3>1, <3>2, <3>3, <3>5
  <2>14. PICK frame : frame = [Top EXCEPT !.i = @ + 1, !.key = NULL]
    OBVIOUS
  <2>15. /\ frame \in ObjectFrame /\ frame.copy = a /\ frame.object = Top.object
         /\ frame.i = Top.i + 1 /\ SetTop(frame)
    <3>1. PICK t, i : t = Top /\ i = Top.i + 1
      OBVIOUS
    <3>2. t \in ObjectFrame /\ i \in Nat /\ NULL \in Dataless
      BY <2>4, <3>1 DEF Dataless
    <3>3. frame = [t EXCEPT !.i = i, !.key = NULL]
      BY <2>14, <3>1
    <3>4. /\ frame \in ObjectFrame /\ frame.copy = t.copy /\ frame.object = t.object
          /\ frame.i = i
      BY <3>2, <3>3 DEF ObjectFrame
    <3> QED BY <2>1, <2>6, <2>14, <3>1, <3>4
  <2>16. /\ stack' \in Seq(FrameSet) /\ CopyFrames' = CopyFrames /\ Copies' = Copies
         /\ stack' # <<>> /\ Len(stack') = Len(stack) /\ Top' = frame
         /\ stack'[Len(stack)] = frame
         /\ \A f \in CopyFrames \ {Len(stack)} : stack'[f] = stack[f] /\ f < Len(stack)
    BY <2>1, <2>6, <2>15, ChangeTop
  <2>17. \A f \in CopyFrames : stack'[f].copy = stack[f].copy /\ stack'[f].object = stack[f].object
    BY <2>4, <2>6, <2>15, <2>16
  <2>18. Tops' = Tops \ {ret}
    BY <2>1, <2>5, <2>16 DEF Tops
  <2>19. Shape' /\ Control'
    BY <2>1, <2>15, <2>16 DEF Inv, Shape, Control, FrameSet, ObjectFrame
  <2>20. Distinct'
    BY <2>1, <2>5, <2>16, <2>17 DEF Inv, Distinct
  <2>21. Source(S)'
    BY <2>1, <2>3, <2>5, <2>13, <2>16, <2>17 DEF Source
  <2>22. ASSUME NEW f \in CopyFrames PROVE Progress(f)'
    <3>1. Progress(f) /\ stack[f].object \in S
      BY <2>3, SourceFacts DEF Inv
    <3>2. heap'[stack[f].object] = heap[stack[f].object]
      BY <2>3, <2>7, <2>13, <3>1
    <3>3. CASE f = Len(stack)
      <4>1. stack'[f].object = Top.object /\ stack'[f].copy = a /\ stack'[f].i = Top.i + 1
        BY <2>15, <2>16, <3>3
      <4>2. heap'[Top.object] = heap[Top.object] /\ heap'[a] = v
        BY <2>4, <2>13, <3>2, <3>3
      <4>3. heap[Top.object].kind = "obj" /\ Len(heap[Top.object].entries) \in Nat
        BY <2>1, TopFacts DEF ObjectSet
      <4>4. ~(f < Len(stack'))
        BY <2>16, <3>3, FrameFacts
      <4> QED BY <2>1, <2>4, <2>9, <2>10, <4>1, <4>2, <4>3, <4>4 DEF Progress
    <3>4. CASE f # Len(stack)
      <4>1. stack[f].copy # a /\ stack[f].copy \in DOMAIN heap
        BY <2>3, <2>4, <2>6, <3>4, SourceFacts DEF Inv, Distinct
      <4>2. stack'[f] = stack[f] /\ f < Len(stack)
        BY <2>16, <3>4
      <4> QED BY <2>1, <2>13, <3>1, <3>2, <4>1, <4>2, KeepProgress
    <3> QED BY <3>3, <3>4
  <2>23. Inv'
    <3>1. S \in SUBSET DOMAIN heap'
      BY <2>13
    <3> QED BY <2>13, <2>16, <2>18, <2>19, <2>20, <2>21, <2>22, <3>1 DEF Inv
  <2> QED BY <2>23 DEF IInv
<1> QED BY <1>1, <1>2

\* The copy of an object is finished, and is the caller's.
LEMMA EndObjectInv == ASSUME Inv, EndObject PROVE Inv'
<1>1. /\ pc = "loop" /\ pc' = "return" /\ Pop /\ ret' = Top.copy
      /\ heap' = heap /\ roots' = roots
  BY DEF EndObject, Return, memory
<1>2. stack # <<>> /\ Top.kind = "obj"
  BY <1>1 DEF Inv, Control
<1>3. PICK c : c = Top.copy
  OBVIOUS
<1>4. /\ stack' \in Seq(FrameSet) /\ CopyFrames' \subseteq CopyFrames /\ Copies' = Copies \ {c}
      /\ c \in Copies
      /\ \A f \in CopyFrames' : stack'[f] = stack[f] /\ f < Len(stack)
  BY <1>1, <1>2, <1>3, PopFrame
<1>5. c \in Node /\ c # NULL
  BY <1>4, OwnedFacts, ValuesAssumption DEF Tops
<1>6. Returned = {} /\ Returned' = {c}
  BY <1>1, <1>3, <1>5 DEF Returned
<1>7. Tops' = Tops
  BY <1>1, <1>4, <1>6 DEF Tops
<1>8. Shape' /\ Control'
  BY <1>1, <1>3, <1>4, <1>5 DEF Inv, Shape, Control, FrameSet
<1>9. Distinct'
  BY <1>1, <1>4, <1>6 DEF Inv, Distinct
<1>10. PICK S \in SUBSET DOMAIN heap : Source(S)
  BY DEF Inv
<1>11. Source(S)'
  BY <1>1, <1>4, <1>6, <1>10 DEF Source
<1>12. ASSUME NEW f \in CopyFrames' PROVE Progress(f)'
  <2>1. f \in CopyFrames /\ stack'[f] = stack[f] /\ f < Len(stack) /\ Progress(f)
    BY <1>4 DEF Inv
  <2> QED BY <1>1, <2>1, KeepProgress
<1> QED BY <1>1, <1>7, <1>8, <1>9, <1>10, <1>11, <1>12 DEF Inv

\* The user gets the copy.
LEMMA EndCopyInv == ASSUME Inv, EndCopy PROVE Inv'
<1>1. /\ pc = "return" /\ stack = <<>> /\ pc' = "idle"
      /\ heap' = heap /\ ret' = ret /\ stack' = stack /\ roots' = roots \cup ({ret} \ {NULL})
  BY DEF EndCopy, memory
<1>2. Copies = {} /\ Returned = {ret} \ {NULL}
  BY <1>1 DEF CopyFrames, Copies, Returned
<1>3. roots' = Tops
  BY <1>1, <1>2 DEF Tops
<1>4. Memory(heap') /\ Forest(Kids(heap'), roots') /\ ret' \in Node \cup {NULL}
  BY <1>1, <1>3 DEF Inv, Shape
<1>5. (/\ Memory(heap) /\ Forest(Kids(heap), roots) /\ stack = <<>> /\ pc = "idle"
       /\ ret \in Node \cup {NULL})' => Inv'
  BY IdleInv, PTL
<1> QED BY <1>1, <1>4, <1>5

-----------------------------------------------------------------------------
(* The theorems.                                                           *)

LEMMA InitInv == Init => Inv
<1> SUFFICES ASSUME Init PROVE Inv
  OBVIOUS
<1>1. DOMAIN heap = {} /\ DOMAIN Kids(heap) = {} /\ roots = {} /\ stack = <<>> /\ pc = "idle" /\ ret = NULL
  BY DEF Init, Kids
<1>2. Memory(heap)
  BY <1>1, FS_EmptySet DEF Memory
<1>3. Forest(Kids(heap), roots)
  BY <1>1 DEF Forest, Inside, Placed, PlacedOnce, Acyclic
<1> QED BY <1>1, <1>2, <1>3, IdleInv

LEMMA StepInv == ASSUME Inv, Next PROVE IInv'
<1>1. CASE \E v \in NewValues : Create(v)
  BY <1>1, CreateInv DEF IInv
<1>2. CASE CreateFails
  BY <1>2, SameMemoryInv DEF IInv
<1>3. CASE \E n \in Reachable(roots) :
             \/ \E s \in Scalar : SetScalar(n, s)
             \/ \E t \in Text : SetString(n, t)
             \/ \E m \in roots : n \notin Below(m) /\ (ArrayAppend(n, m) \/ \E t \in Text : Add(n, t, m))
             \/ \E m \in roots : n \notin Below(m) /\ (AddAborts(n) \/ \E t \in Text : AddFails(n, t))
             \/ Copy(n)
  <2>1. PICK n \in DOMAIN heap :
             \/ \E s \in Scalar : SetScalar(n, s)
             \/ \E t \in Text : SetString(n, t)
             \/ \E m \in roots : n \notin Below(m) /\ (ArrayAppend(n, m) \/ \E t \in Text : Add(n, t, m))
             \/ \E m \in roots : n \notin Below(m) /\ (AddAborts(n) \/ \E t \in Text : AddFails(n, t))
             \/ Copy(n)
    BY <1>3, ReachableType
  <2>2. CASE (\E s \in Scalar : SetScalar(n, s)) \/ (\E t \in Text : SetString(n, t))
    BY <2>2, SetInv DEF IInv
  <2>3. ASSUME NEW m \in roots, n \notin Below(m), ArrayAppend(n, m) PROVE IInv'
    BY <2>3, AppendInv DEF IInv
  <2>4. ASSUME NEW m \in roots, n \notin Below(m), NEW t \in Text, Add(n, t, m) PROVE IInv'
    BY <2>4, AddInv
  <2>5. CASE AddAborts(n)
    BY <2>5, AbortInv DEF AddAborts
  <2>6. ASSUME NEW t, AddFails(n, t) PROVE IInv'
    BY <2>6, SameMemoryInv DEF IInv
  <2>7. CASE Copy(n)
    BY <2>7, BeginCopyInv DEF IInv
  <2> QED BY <2>1, <2>2, <2>3, <2>4, <2>5, <2>6, <2>7
<1>4. CASE \E n \in roots : Free(n)
  BY <1>4, FreeInv DEF IInv
<1>5. CASE CopyStep
  <2>1. CASE CopyKeyAborts
    BY <2>1, AbortInv DEF CopyKeyAborts
  <2>2. CASE AddCopy
    BY <2>2, AddCopyInv
  <2>3. CASE ~CopyKeyAborts /\ ~AddCopy
    <3>1. \/ CopyLeaf \/ CopyArray \/ EndArray \/ CopyObject \/ CopyKey
          \/ CopyKeyFails \/ EntryFails \/ EndObject \/ EndCopy
      BY <1>5, <2>3 DEF CopyStep
    <3> QED BY <3>1, CopyLeafInv, CopyArrayInv, EndArrayInv, CopyObjectInv, CopyKeyInv,
               ObjectFailsInv, EndObjectInv, EndCopyInv DEF IInv
  <2> QED BY <2>1, <2>2, <2>3
<1> QED BY <1>1, <1>2, <1>3, <1>4, <1>5 DEF Next

\* After abort() nothing happens.
LEMMA NextIInv == IInv /\ [Next]_vars => IInv'
<1> SUFFICES ASSUME IInv, [Next]_vars PROVE IInv'
  OBVIOUS
<1>1. CASE pc = "aborted"
  <2>1. ~Next
    BY <1>1 DEF Next, Create, CreateFails, SetScalar, SetString, ArrayAppend, Add, AddFails, AddAborts,
         Copy, Free, Call, CopyStep, CopyLeaf, CopyArray, EndArray, CopyObject, CopyKey, CopyKeyAborts,
         CopyKeyFails, EntryFails, AddCopy, EndObject, EndCopy, Looping
  <2>2. pc' = "aborted"
    BY <1>1, <2>1 DEF vars
  <2> QED BY <2>2 DEF IInv
<1>2. CASE pc # "aborted" /\ Next
  BY <1>2, StepInv DEF IInv
<1>3. CASE pc # "aborted" /\ UNCHANGED vars
  <2>1. /\ heap' = heap /\ roots' = roots /\ pc' = pc /\ at' = at /\ ret' = ret /\ stack' = stack
    BY <1>3 DEF vars, memory, copying
  <2>2. Inv
    BY <1>3 DEF IInv
  <2>3. CopyFrames' = CopyFrames /\ Copies' = Copies /\ Returned' = Returned /\ Tops' = Tops
    BY <2>1 DEF CopyFrames, Copies, Returned, Tops
  <2>4. Shape' /\ Control' /\ Distinct'
    BY <2>1, <2>2, <2>3 DEF Inv, Shape, Control, Distinct, Top
  <2>5. \A S : Source(S) => Source(S)'
    BY <2>1, <2>3 DEF Source
  <2>6. \A f \in CopyFrames : Progress(f)'
    BY <2>1, <2>2 DEF Inv, Progress
  <2> QED BY <2>1, <2>2, <2>3, <2>4, <2>5, <2>6 DEF Inv, IInv
<1> QED BY <1>1, <1>2, <1>3

LEMMA SpecIInv == Spec => []IInv
<1>1. Init => IInv
  BY InitInv DEF IInv
<1> QED BY <1>1, NextIInv, PTL DEF Spec

\* The places of a value in others.
LEMMA PlaceOwners ==
  ASSUME Inv, NEW n
  PROVE  UNION {LET v == heap[m] IN
                  CASE v.kind = "arr" -> {<<m, k>> : k \in {j \in DOMAIN v.values : v.values[j] = n}}
                    [] v.kind = "obj" -> {<<m, k>> : k \in {j \in DOMAIN v.entries : v.entries[j].value = n}}
                    [] OTHER -> {} : m \in DOMAIN heap}
           = UNION {{<<m, k>> : k \in {j \in DOMAIN Slots(heap[m]) : Slots(heap[m])[j] = n}} : m \in DOMAIN heap}
<1>1. ASSUME NEW m \in DOMAIN heap
      PROVE  (LET v == heap[m] IN
                CASE v.kind = "arr" -> {<<m, k>> : k \in {j \in DOMAIN v.values : v.values[j] = n}}
                  [] v.kind = "obj" -> {<<m, k>> : k \in {j \in DOMAIN v.entries : v.entries[j].value = n}}
                  [] OTHER -> {})
               = {<<m, k>> : k \in {j \in DOMAIN Slots(heap[m]) : Slots(heap[m])[j] = n}}
  <2>1. heap[m] \in ValueSet
    BY OwnedFacts
  <2>2. CASE heap[m].kind = "arr"
    BY <2>1, <2>2, Kinds
  <2>3. CASE heap[m].kind = "obj"
    <3>1. Slots(heap[m]) = [k \in DOMAIN heap[m].entries |-> heap[m].entries[k].value]
      BY <2>1, <2>3, Kinds
    <3>2. {j \in DOMAIN Slots(heap[m]) : Slots(heap[m])[j] = n}
            = {j \in DOMAIN heap[m].entries : heap[m].entries[j].value = n}
      BY <3>1
    <3> QED BY <2>3, <3>2
  <2>4. CASE heap[m].kind \notin {"arr", "obj"}
    <3>1. {j \in DOMAIN Slots(heap[m]) : Slots(heap[m])[j] = n} = {}
      BY <2>1, <2>4, Kinds
    <3> QED BY <2>4, <3>1
  <2> QED BY <2>2, <2>3, <2>4
<1> QED BY <1>1

LEMMA OwnerOf ==
  ASSUME Inv, NEW n \in DOMAIN heap
  PROVE  \E x : Owners(n) = {x}
<1> DEFINE U == IF n \in roots THEN {<<"user">>} ELSE {}
           C == {<<"copy", f>> : f \in {g \in DOMAIN stack : stack[g].kind = "obj" /\ stack[g].copy = n}}
           R == IF pc = "return" /\ ret = n THEN {<<"ret">>} ELSE {}
           P == UNION {{<<m, k>> : k \in {j \in DOMAIN Slots(heap[m]) : Slots(heap[m])[j] = n}}
                         : m \in DOMAIN heap}
<1>1. Owners(n) = U \cup C \cup R \cup P
  BY PlaceOwners DEF Owners
<1>2. /\ n \in roots => U = {<<"user">>}
      /\ n \notin roots => U = {}
  OBVIOUS
<1>3. /\ n \in Copies => \E f : C = {<<"copy", f>>}
      /\ n \notin Copies => C = {}
  <2>1. {g \in DOMAIN stack : stack[g].kind = "obj" /\ stack[g].copy = n}
          = {g \in CopyFrames : stack[g].copy = n}
    BY DEF CopyFrames
  <2>2. n \notin Copies => C = {}
    BY <2>1 DEF Copies
  <2>3. ASSUME n \in Copies PROVE \E f : C = {<<"copy", f>>}
    <3>1. PICK f \in CopyFrames : stack[f].copy = n
      BY <2>3 DEF Copies
    <3>2. {g \in CopyFrames : stack[g].copy = n} = {f}
      BY <3>1 DEF Inv, Distinct
    <3> QED BY <2>1, <3>2
  <2> QED BY <2>2, <2>3
<1>4. /\ n \in Returned => R = {<<"ret">>}
      /\ n \notin Returned => R = {}
  <2>1. n # NULL
    BY OwnedFacts, ValuesAssumption
  <2> QED BY <2>1 DEF Returned
<1>5. /\ n \in Tops => P = {}
      /\ n \notin Tops => \E m, k : P = {<<m, k>>}
  <2>1. /\ DOMAIN Kids(heap) = DOMAIN heap /\ \A m \in DOMAIN heap : Kids(heap)[m] = Slots(heap[m])
        /\ Inside(Kids(heap), Tops) /\ Placed(Kids(heap), Tops) /\ PlacedOnce(Kids(heap))
    BY KidsIs DEF Inv, Forest
  <2>2. n \in Tops => P = {}
    BY <2>1 DEF Inside
  <2>3. ASSUME n \notin Tops PROVE \E m, k : P = {<<m, k>>}
    <3>1. PICK m \in DOMAIN heap : \E k \in DOMAIN Slots(heap[m]) : Slots(heap[m])[k] = n
      BY <2>1, <2>3 DEF Placed
    <3>2. PICK k \in DOMAIN Slots(heap[m]) : Slots(heap[m])[k] = n
      BY <3>1
    <3>3. ASSUME NEW o \in DOMAIN heap, NEW j \in DOMAIN Slots(heap[o]), Slots(heap[o])[j] = n
          PROVE  o = m /\ j = k
      BY <2>1, <3>2, <3>3 DEF PlacedOnce
    <3>4. P = {<<m, k>>}
      BY <3>2, <3>3
    <3> QED BY <3>4
  <2> QED BY <2>2, <2>3
<1>6. roots \cap Copies = {} /\ roots \cap Returned = {} /\ Copies \cap Returned = {}
  BY DEF Inv, Distinct
<1> HIDE DEF U, C, R, P
<1>7. CASE n \in roots
  BY <1>1, <1>2, <1>3, <1>4, <1>5, <1>6, <1>7 DEF Tops
<1>8. CASE n \in Copies
  BY <1>1, <1>2, <1>3, <1>4, <1>5, <1>6, <1>8 DEF Tops
<1>9. CASE n \in Returned
  BY <1>1, <1>2, <1>3, <1>4, <1>5, <1>6, <1>9 DEF Tops
<1>10. CASE n \notin Tops
  BY <1>1, <1>2, <1>3, <1>4, <1>5, <1>10 DEF Tops
<1> QED BY <1>7, <1>8, <1>9, <1>10 DEF Tops

\* However calls fail, every value has exactly one owner, and none refers to
\* memory that is freed: what json_copy makes shares nothing with what it
\* reads (json.c:411-468), and an append or an add that fails leaves its value
\* to the user (json.c:232-246, 335-355).
THEOREM EveryValueHasOneOwner == Spec => []OneOwner
<1>1. Inv => OneOwner
  <2> SUFFICES ASSUME Inv, NEW n \in DOMAIN heap
               PROVE  Children(heap[n]) \subseteq DOMAIN heap /\ Cardinality(Owners(n)) = 1
    BY DEF OneOwner
  <2>1. PICK x : Owners(n) = {x}
    BY OwnerOf
  <2>2. Cardinality({x}) = 1
    BY FS_Singleton
  <2> QED BY <2>1, <2>2, OwnedFacts
<1>2. IInv => OneOwner
  BY <1>1 DEF IInv, OneOwner
<1> QED BY <1>2, SpecIInv, PTL

\* duplicate_object reserves a table for all entries before its loop, so that
\* object_add finds room for each of them and never has to look for memory
\* (json.c:433).
THEOREM CopyHasRoom == Spec => []RoomForCopy
<1>1. IInv => RoomForCopy
  BY CopyRoom DEF IInv, RoomForCopy
<1> QED BY <1>1, SpecIInv, PTL

-----------------------------------------------------------------------------
(* Sums.  The weight of a set is the number of cells of its elements: what  *)
(* the library says of cardinalities then says how sums change.             *)

Cells(w, S) == {p \in S \X Nat : p[2] \in 1 .. w[p[1]]}
Weight(w, S) == Cardinality(Cells(w, S))

\* One element.
LEMMA WeightOne ==
  ASSUME NEW w, NEW x, w[x] \in Nat
  PROVE  IsFiniteSet(Cells(w, {x})) /\ Weight(w, {x}) = w[x]
<1> DEFINE D == 1 .. w[x]
           f == [k \in D |-> <<x, k>>]
           C == Cells(w, {x})
<1>1. f \in Bijection(D, C)
  <2>1. f \in [D -> C] /\ \A p \in C : \E k \in D : f[k] = p
    BY DEF Cells
  <2>2. \A j, k \in D : f[j] = f[k] => j = k
    OBVIOUS
  <2> QED BY <2>1, <2>2 DEF Bijection, Injection, Surjection, IsInjective
<1>2. IsFiniteSet(D) /\ Cardinality(D) = w[x]
  BY FS_Interval
<1> HIDE DEF D, f, C
<1>3. IsFiniteSet(C) /\ Cardinality(C) = Cardinality(D)
  BY <1>1, <1>2, FS_Bijection, Zenon DEF ExistsBijection
<1> QED BY <1>2, <1>3 DEF Weight, C

LEMMA WeightType ==
  ASSUME NEW S, IsFiniteSet(S), NEW w, \A x \in S : w[x] \in Nat
  PROVE  IsFiniteSet(Cells(w, S)) /\ Weight(w, S) \in Nat
<1> DEFINE f == [x \in S |-> Cells(w, {x})]
           T == {f[x] : x \in S}
<1>1. f \in Surjection(S, T)
  BY DEF Surjection
<1>2. IsFiniteSet(T)
  <2> HIDE DEF T, f
  <2> QED BY <1>1, FS_Surjection
<1>3. \A C \in T : IsFiniteSet(C)
  BY WeightOne
<1>4. IsFiniteSet(UNION T)
  <2> HIDE DEF T
  <2> QED BY <1>2, <1>3, FS_UNION
<1>5. UNION T = Cells(w, S)
  BY DEF Cells
<1> QED BY <1>4, <1>5, FS_CardinalityType DEF Weight

LEMMA WeightEmpty == \A w : Weight(w, {}) = 0
<1>1. \A w : Cells(w, {}) = {}
  BY DEF Cells
<1> QED BY <1>1, FS_EmptySet DEF Weight

LEMMA WeightSame ==
  ASSUME NEW S, NEW w, NEW u, \A x \in S : w[x] = u[x]
  PROVE  Weight(w, S) = Weight(u, S)
<1>1. Cells(w, S) = Cells(u, S)
  BY DEF Cells
<1> QED BY <1>1 DEF Weight

LEMMA WeightSplit ==
  ASSUME NEW S, IsFiniteSet(S), NEW T, T \subseteq S, NEW w, \A x \in S : w[x] \in Nat
  PROVE  /\ Weight(w, T) \in Nat /\ Weight(w, S \ T) \in Nat
         /\ Weight(w, S) = Weight(w, T) + Weight(w, S \ T)
<1>1. IsFiniteSet(T) /\ IsFiniteSet(S \ T)
  BY FS_Subset
<1>2. /\ IsFiniteSet(Cells(w, T)) /\ IsFiniteSet(Cells(w, S \ T))
      /\ Weight(w, T) \in Nat /\ Weight(w, S \ T) \in Nat
  BY <1>1, WeightType
<1>3. Cells(w, S) = Cells(w, T) \cup Cells(w, S \ T)
  BY DEF Cells
<1>4. Cells(w, T) \cap Cells(w, S \ T) = {}
  BY DEF Cells
<1>5. Cardinality(Cells(w, T) \cap Cells(w, S \ T)) = 0
  BY <1>4, FS_EmptySet
<1>6. Weight(w, S) = Weight(w, T) + Weight(w, S \ T) - 0
  BY <1>2, <1>3, <1>5, FS_Union DEF Weight
<1> QED BY <1>2, <1>6

LEMMA WeightRemove ==
  ASSUME NEW S, IsFiniteSet(S), NEW x \in S, NEW w, \A y \in S : w[y] \in Nat
  PROVE  Weight(w, S \ {x}) \in Nat /\ Weight(w, S) = w[x] + Weight(w, S \ {x})
<1>1. Weight(w, {x}) = w[x]
  BY WeightOne
<1> QED BY <1>1, WeightSplit

\* Another value for one element.
LEMMA WeightChange ==
  ASSUME NEW S, IsFiniteSet(S), NEW x \in S, NEW w, NEW u,
         \A y \in S : w[y] \in Nat /\ u[y] \in Nat, \A y \in S \ {x} : u[y] = w[y]
  PROVE  Weight(u, S) = Weight(w, S) - w[x] + u[x]
<1>1. Weight(w, S \ {x}) \in Nat /\ Weight(w, S) = w[x] + Weight(w, S \ {x})
  BY WeightRemove
<1>2. Weight(u, S) = u[x] + Weight(u, S \ {x})
  BY WeightRemove
<1>3. Weight(u, S \ {x}) = Weight(w, S \ {x})
  BY WeightSame
<1> QED BY <1>1, <1>2, <1>3

\* The same values under other names.
LEMMA WeightImage ==
  ASSUME NEW S, IsFiniteSet(S), NEW T, NEW f \in Bijection(S, T), NEW w, NEW u,
         \A x \in S : w[x] \in Nat /\ u[f[x]] = w[x]
  PROVE  Weight(u, T) = Weight(w, S)
<1> DEFINE C == Cells(w, S)
           D == Cells(u, T)
           g == [p \in C |-> <<f[p[1]], p[2]>>]
<1>1. /\ f \in [S -> T] /\ \A t \in T : \E s \in S : f[s] = t
      /\ \A x, y \in S : f[x] = f[y] => x = y
  BY DEF Bijection, Injection, Surjection, IsInjective
<1>2. g \in [C -> D]
  BY <1>1 DEF Cells
<1>3. ASSUME NEW q \in D PROVE \E p \in C : g[p] = q
  <2>1. q[1] \in T /\ q[2] \in Nat /\ q = <<q[1], q[2]>> /\ q[2] \in 1 .. u[q[1]]
    BY DEF Cells
  <2>2. PICK x \in S : f[x] = q[1]
    BY <1>1, <2>1
  <2>3. <<x, q[2]>> \in C
    BY <2>1, <2>2 DEF Cells
  <2> QED BY <2>1, <2>2, <2>3
<1>4. ASSUME NEW p \in C, NEW q \in C, g[p] = g[q] PROVE p = q
  <2>1. p = <<p[1], p[2]>> /\ q = <<q[1], q[2]>> /\ p[1] \in S /\ q[1] \in S
    BY DEF Cells
  <2>2. f[p[1]] = f[q[1]] /\ p[2] = q[2]
    BY <1>4
  <2> QED BY <1>1, <2>1, <2>2
<1>5. g \in Bijection(C, D)
  <2> HIDE DEF g, C, D
  <2> QED BY <1>2, <1>3, <1>4 DEF Bijection, Injection, Surjection, IsInjective
<1>6. IsFiniteSet(C)
  BY WeightType
<1> HIDE DEF C, D, g
<1>7. Cardinality(D) = Cardinality(C)
  BY <1>5, <1>6, FS_Bijection, Zenon DEF ExistsBijection
<1> QED BY <1>7 DEF Weight, C, D

\* A fold that takes the elements off in any order, and what it computes.
IsFold(g, w, c, S) ==
  /\ IsFiniteSet(S) /\ \A x \in S : w[x] \in Nat
  /\ \A s \in SUBSET S : s # {} => c[s] \in s
  /\ g[{}] = 0
  /\ \A s \in SUBSET S : s # {} => \A n \in Nat : g[s \ {c[s]}] = n => g[s] = w[c[s]] + n

LEMMA FoldIsWeight ==
  ASSUME NEW g, NEW w, NEW c, NEW S, IsFold(g, w, c, S)
  PROVE  g[S] = Weight(w, S)
<1>0. /\ IsFiniteSet(S) /\ \A x \in S : w[x] \in Nat
      /\ \A s \in SUBSET S : s # {} => c[s] \in s
      /\ g[{}] = 0
      /\ \A s \in SUBSET S : s # {} => \A n \in Nat : g[s \ {c[s]}] = n => g[s] = w[c[s]] + n
  BY DEF IsFold
<1> DEFINE Odd == {s \in SUBSET S : g[s] # Weight(w, s)}
<1> SUFFICES ASSUME Odd # {} PROVE FALSE
  OBVIOUS
<1>1. Odd \subseteq FiniteSubsetsOf(S)
  BY <1>0, FS_Subset DEF FiniteSubsetsOf
<1>2. PICK s \in Odd : \A t \in Odd : <<t, s>> \notin StrictSubsetOrdering(S)
  <2> HIDE DEF Odd
  <2>1. IsWellFoundedOn(StrictSubsetOrdering(S), FiniteSubsetsOf(S))
    BY <1>0, FS_StrictSubsetOrderingWellFounded
  <2> QED BY <1>1, <2>1, WFMin
<1>3. s \in SUBSET S /\ g[s] # Weight(w, s)
  OBVIOUS
<1>4. s # {}
  BY <1>0, <1>3, WeightEmpty
<1>5. PICK x : x = c[s]
  OBVIOUS
<1>6. x \in s /\ IsFiniteSet(s)
  BY <1>0, <1>3, <1>4, <1>5, FS_Subset
<1>7. s \ {x} \in SUBSET S /\ <<s \ {x}, s>> \in StrictSubsetOrdering(S)
  BY <1>3, <1>6 DEF StrictSubsetOrdering
<1>8. g[s \ {x}] = Weight(w, s \ {x})
  BY <1>2, <1>7
<1>9. Weight(w, s \ {x}) \in Nat /\ Weight(w, s) = w[x] + Weight(w, s \ {x})
  BY <1>0, <1>3, <1>6, WeightRemove
<1>10. g[s] = w[x] + Weight(w, s \ {x})
  BY <1>0, <1>3, <1>4, <1>5, <1>8, <1>9
<1> QED BY <1>3, <1>9, <1>10

-----------------------------------------------------------------------------
(* The sums of the model.                                                  *)

KeyWeights(entries) == [k \in DOMAIN entries |-> KeyBlocks(entries[k].key)]
Sizes(h) == [n \in DOMAIN h |-> Blocks(h[n])]

\* What BlocksOf computes.
LEMMA BlocksOfIs ==
  ASSUME NEW S, IsFiniteSet(S), S \subseteq DOMAIN heap, \A n \in S : Blocks(heap[n]) \in Nat
  PROVE  BlocksOf(S) = Weight(Sizes(heap), S)
<1> DEFINE Rec(g) == g = [s \in SUBSET S |->
                            IF s = {} THEN 0
                            ELSE Blocks(heap[CHOOSE x \in s : TRUE]) + g[s \ {CHOOSE x \in s : TRUE}]]
           w == Sizes(heap)
           c == [s \in SUBSET S |-> CHOOSE x \in s : TRUE]
           f == [s \in SUBSET S |-> Weight(w, s)]
           h == CHOOSE g : Rec(g)
<1>1. BlocksOf(S) = h[S]
  BY DEF BlocksOf, MapThenSumSet, MapThenFoldSet
<1>2. \A s \in SUBSET S : s # {} => c[s] \in s /\ c[s] = CHOOSE x \in s : TRUE
  OBVIOUS
<1>3. \A n \in S : w[n] = Blocks(heap[n]) /\ w[n] \in Nat
  BY DEF Sizes
<1> HIDE DEF w, c
<1>4. Rec(f)
  <2>1. ASSUME NEW s \in SUBSET S
        PROVE  Weight(w, s) =
                 IF s = {} THEN 0
                 ELSE Blocks(heap[CHOOSE x \in s : TRUE]) + f[s \ {CHOOSE x \in s : TRUE}]
    <3>1. CASE s = {}
      BY <3>1, WeightEmpty
    <3>2. CASE s # {}
      <4>1. PICK x : x = CHOOSE y \in s : TRUE
        OBVIOUS
      <4>2. x \in s /\ IsFiniteSet(s) /\ s \ {x} \in SUBSET S
        BY <3>2, <4>1, FS_Subset
      <4>3. Weight(w, s) = w[x] + Weight(w, s \ {x})
        BY <1>3, <4>2, WeightRemove
      <4>4. f[s \ {x}] = Weight(w, s \ {x}) /\ w[x] = Blocks(heap[x])
        BY <1>3, <4>2
      <4> QED BY <3>2, <4>1, <4>3, <4>4, Zenon
    <3> QED BY <3>1, <3>2
  <2> QED BY <2>1, Zenon
<1> HIDE DEF f
<1>5. Rec(h)
  BY <1>4, Zenon
<1> HIDE DEF h
<1>6. h[{}] = 0
  BY <1>5
<1>7. ASSUME NEW s \in SUBSET S, s # {} PROVE h[s] = w[c[s]] + h[s \ {c[s]}]
  <2>1. h[s] = Blocks(heap[c[s]]) + h[s \ {c[s]}]
    BY <1>2, <1>5, <1>7, Zenon
  <2> QED BY <1>2, <1>3, <1>7, <2>1
<1>8. \A s \in SUBSET S : s # {} => \A n \in Nat : h[s \ {c[s]}] = n => h[s] = w[c[s]] + n
  BY <1>7
<1>9. IsFold(h, w, c, S)
  BY <1>2, <1>3, <1>6, <1>8 DEF IsFold
<1> QED BY <1>1, <1>9, FoldIsWeight DEF w

\* Of a finite set of numbers there is a greatest.
LEMMA MaxIs ==
  ASSUME NEW n \in Nat, NEW s, s \subseteq 1 .. n, s # {}
  PROVE  Max(s) \in s
<1> DEFINE T == {n - x : x \in s}
<1>1. T \subseteq Nat /\ T # {}
  <2>1. \A x \in s : x \in 1 .. n /\ n - x \in Nat
    OBVIOUS
  <2> QED BY <2>1
<1>2. PICK m \in T : \A k \in T : m <= k
  <2> HIDE DEF T
  <2> QED BY <1>1, LeastNatural
<1>3. PICK x \in s : m = n - x
  BY <1>2
<1>4. \A y \in s : x >= y
  <2> SUFFICES ASSUME NEW y \in s PROVE x >= y
    OBVIOUS
  <2>1. n - y \in T
    OBVIOUS
  <2>2. n - x <= n - y /\ x \in 1 .. n /\ y \in 1 .. n
    BY <1>2, <1>3, <2>1
  <2> QED BY <2>2
<1> QED BY <1>3, <1>4 DEF Max

LEMMA KeyBlocksType == \A k : KeyBlocks(k) \in {1, 2}
BY DEF KeyBlocks

\* The fold in Blocks, which takes the last entry off first.
KeySums(q) ==
  CHOOSE g : g = [s \in SUBSET DOMAIN q |->
                    IF s = {} THEN 0 ELSE g[s \ {Max(s)}] + KeyBlocks(q[Max(s)].key)]

LEMMA KeySumsIs ==
  ASSUME NEW q, NEW n \in Nat, DOMAIN q = 1 .. n
  PROVE  KeySums(q)[DOMAIN q] = Weight(KeyWeights(q), DOMAIN q)
<1> DEFINE Rec(g) == g = [s \in SUBSET DOMAIN q |->
                            IF s = {} THEN 0 ELSE g[s \ {Max(s)}] + KeyBlocks(q[Max(s)].key)]
           w == KeyWeights(q)
           c == [s \in SUBSET DOMAIN q |-> Max(s)]
           f == [s \in SUBSET DOMAIN q |-> Weight(w, s)]
           h == CHOOSE g : Rec(g)
<1>1. KeySums(q) = h
  BY DEF KeySums
<1>2. \A s \in SUBSET DOMAIN q : s # {} => c[s] \in s /\ c[s] = Max(s)
  BY MaxIs
<1>3. \A k \in DOMAIN q : w[k] = KeyBlocks(q[k].key) /\ w[k] \in Nat
  BY KeyBlocksType DEF KeyWeights
<1>4. IsFiniteSet(DOMAIN q)
  BY FS_Interval
<1> HIDE DEF w, c
<1>5. Rec(f)
  <2>1. ASSUME NEW s \in SUBSET DOMAIN q
        PROVE  Weight(w, s) = IF s = {} THEN 0 ELSE f[s \ {Max(s)}] + KeyBlocks(q[Max(s)].key)
    <3>1. CASE s = {}
      BY <3>1, WeightEmpty
    <3>2. CASE s # {}
      <4>1. PICK x : x = Max(s)
        OBVIOUS
      <4>2. x \in s /\ IsFiniteSet(s) /\ s \ {x} \in SUBSET DOMAIN q
        BY <1>2, <1>4, <3>2, <4>1, FS_Subset
      <4>3. Weight(w, s \ {x}) \in Nat /\ Weight(w, s) = w[x] + Weight(w, s \ {x})
        BY <1>3, <4>2, WeightRemove
      <4>4. f[s \ {x}] = Weight(w, s \ {x}) /\ w[x] = KeyBlocks(q[x].key) /\ w[x] \in Nat
        BY <1>3, <4>2
      <4>5. Weight(w, s) = f[s \ {x}] + KeyBlocks(q[x].key)
        BY <4>3, <4>4
      <4> QED BY <3>2, <4>1, <4>5, Zenon
    <3> QED BY <3>1, <3>2
  <2> QED BY <2>1, Zenon
<1> HIDE DEF f
<1>6. Rec(h)
  BY <1>5, Zenon
<1> HIDE DEF h
<1>7. h[{}] = 0
  BY <1>6
<1>8. ASSUME NEW s \in SUBSET DOMAIN q, s # {}, NEW m \in Nat, h[s \ {c[s]}] = m
      PROVE  h[s] = w[c[s]] + m
  <2>1. h[s] = h[s \ {c[s]}] + KeyBlocks(q[c[s]].key)
    BY <1>2, <1>6, <1>8, Zenon
  <2> QED BY <1>2, <1>3, <1>8, <2>1
<1>9. IsFold(h, w, c, DOMAIN q)
  BY <1>2, <1>3, <1>4, <1>7, <1>8 DEF IsFold
<1> QED BY <1>1, <1>9, FoldIsWeight DEF w

\* The blocks of all keys of an object.
KeysOf(entries) == Weight(KeyWeights(entries), DOMAIN entries)
TableBlocks(c) == IF c = 0 THEN 1 ELSE 2

LEMMA KeysOfType ==
  ASSUME NEW q, NEW n \in Nat, DOMAIN q = 1 .. n
  PROVE  KeysOf(q) \in Nat
<1>1. IsFiniteSet(DOMAIN q)
  BY FS_Interval
<1>2. \A k \in DOMAIN q : KeyWeights(q)[k] \in Nat
  BY KeyBlocksType DEF KeyWeights
<1> QED BY <1>1, <1>2, WeightType DEF KeysOf

LEMMA ObjectBlocks ==
  ASSUME NEW v, v.kind = "obj", NEW n \in Nat, DOMAIN v.entries = 1 .. n
  PROVE  Blocks(v) = TableBlocks(v.capacity) + KeysOf(v.entries)
<1>1. Blocks(v) = TableBlocks(v.capacity) + KeySums(v.entries)[DOMAIN v.entries]
  BY DEF Blocks, FoldLeft, MapThenFoldSet, KeySums, TableBlocks
<1>2. KeySums(v.entries)[DOMAIN v.entries] = KeysOf(v.entries)
  BY KeySumsIs DEF KeysOf
<1> QED BY <1>1, <1>2

LEMMA BlocksType ==
  ASSUME NEW v \in ValueSet
  PROVE  Blocks(v) \in Nat
<1>1. CASE v.kind = "obj"
  <2>1. v.entries \in Seq(Entry)
    BY <1>1, Kinds
  <2>2. PICK n \in Nat : n = Len(v.entries)
    BY <2>1
  <2>3. DOMAIN v.entries = 1 .. n
    BY <2>1, <2>2
  <2>4. KeysOf(v.entries) \in Nat /\ Blocks(v) = TableBlocks(v.capacity) + KeysOf(v.entries)
    BY <1>1, <2>3, KeysOfType, ObjectBlocks
  <2> QED BY <2>4 DEF TableBlocks
<1>2. CASE v.kind = "arr"
  BY <1>2 DEF Blocks
<1>3. CASE v.kind \notin {"arr", "obj"}
  BY <1>3, Kinds DEF Blocks, ScalarSet, StringSet
<1> QED BY <1>1, <1>2, <1>3

\* One entry more: the others are where they were, or one place further.
LEMMA KeysOfInserted ==
  ASSUME NEW s \in Seq(Entry), NEW e \in Entry, NEW i \in 1 .. Len(s) + 1
  PROVE  KeysOf(InsertAt(s, i, e)) = KeysOf(s) + KeyBlocks(e.key)
<1>1. PICK n \in Nat : n = Len(s)
  OBVIOUS
<1>2. PICK t : t = InsertAt(s, i, e)
  OBVIOUS
<1>3. /\ t \in Seq(Entry) /\ Len(t) = n + 1 /\ i \in 1 .. n + 1
      /\ \A k \in 1 .. n + 1 : t[k] = IF k < i THEN s[k] ELSE IF k = i THEN e ELSE s[k - 1]
  <2>1. IsPut(Entry, s, i, e, InsertAt(s, i, e))
    BY InsertAtPuts
  <2> QED BY <1>1, <1>2, <2>1, Zenon DEF IsPut
<1>4. DOMAIN s = 1 .. n /\ DOMAIN t = 1 .. n + 1
  BY <1>1, <1>3
<1> DEFINE S == 1 .. n
           T == (1 .. n + 1) \ {i}
           f == [k \in S |-> IF k < i THEN k ELSE k + 1]
           w == KeyWeights(s)
           u == KeyWeights(t)
<1>5. f \in Bijection(S, T)
  <2>1. f \in [S -> T]
    BY <1>3
  <2>2. \A j, k \in S : f[j] = f[k] => j = k
    BY <1>3
  <2>3. \A m \in T : \E k \in S : f[k] = m
    <3> SUFFICES ASSUME NEW m \in T PROVE \E k \in S : f[k] = m
      OBVIOUS
    <3>1. CASE m < i
      <4>1. m \in S /\ f[m] = m
        BY <1>3, <3>1
      <4> QED BY <4>1
    <3>2. CASE m > i
      <4>1. m - 1 \in S /\ f[m - 1] = m
        BY <1>3, <3>2
      <4> QED BY <4>1
    <3> QED BY <1>3, <3>1, <3>2
  <2> QED BY <2>1, <2>2, <2>3 DEF Bijection, Injection, Surjection, IsInjective
<1>6. \A k \in S : w[k] \in Nat /\ u[f[k]] = w[k]
  <2> SUFFICES ASSUME NEW k \in S PROVE w[k] \in Nat /\ u[f[k]] = w[k]
    OBVIOUS
  <2>1. w[k] = KeyBlocks(s[k].key) /\ w[k] \in Nat
    BY <1>4, KeyBlocksType DEF KeyWeights
  <2>2. PICK m : m = f[k]
    OBVIOUS
  <2>3. m \in 1 .. n + 1 /\ t[m] = s[k]
    <3>1. CASE k < i
      BY <1>3, <2>2, <3>1
    <3>2. CASE ~(k < i)
      <4>1. m = k + 1 /\ m \in 1 .. n + 1 /\ ~(m < i) /\ m # i /\ m - 1 = k
        BY <1>3, <2>2, <3>2
      <4> QED BY <1>3, <4>1
    <3> QED BY <3>1, <3>2
  <2>4. u[m] = KeyBlocks(s[k].key)
    BY <1>4, <2>3 DEF KeyWeights
  <2> QED BY <2>1, <2>2, <2>4
<1>7. u[i] = KeyBlocks(e.key) /\ u[i] \in Nat /\ \A k \in DOMAIN t : u[k] \in Nat
  BY <1>3, <1>4, KeyBlocksType DEF KeyWeights
<1>8. IsFiniteSet(S) /\ IsFiniteSet(DOMAIN t)
  <2>1. n + 1 \in Nat
    OBVIOUS
  <2> QED BY <1>4, <2>1, FS_Interval
<1> HIDE DEF f, w, u, S, T
<1>9. Weight(u, T) = Weight(w, S)
  BY <1>5, <1>6, <1>8, WeightImage
<1>10. Weight(u, T) \in Nat /\ Weight(u, DOMAIN t) = u[i] + Weight(u, T)
  <2>1. i \in DOMAIN t /\ DOMAIN t \ {i} = T
    BY <1>3, <1>4 DEF T
  <2> QED BY <1>7, <1>8, <2>1, WeightRemove
<1> QED BY <1>2, <1>4, <1>7, <1>9, <1>10 DEF KeysOf, w, u, S

-----------------------------------------------------------------------------
(* The blocks of all values, and how a step changes them.                  *)

Total(h) == Weight(Sizes(h), DOMAIN h)

LEMMA SizesType ==
  ASSUME NEW h, Memory(h)
  PROVE  /\ IsFiniteSet(DOMAIN h) /\ Total(h) \in Nat
         /\ \A n \in DOMAIN h : Sizes(h)[n] = Blocks(h[n]) /\ Sizes(h)[n] \in Nat
<1>1. IsFiniteSet(DOMAIN h) /\ \A n \in DOMAIN h : h[n] \in ValueSet
  BY DEF Memory, Value
<1>2. \A n \in DOMAIN h : Sizes(h)[n] = Blocks(h[n]) /\ Sizes(h)[n] \in Nat
  BY <1>1, BlocksType DEF Sizes
<1> QED BY <1>1, <1>2, WeightType DEF Total

LEMMA TotalNew ==
  ASSUME NEW h, Memory(h), NEW new, Memory(new), NEW n, n \notin DOMAIN h,
         DOMAIN new = DOMAIN h \cup {n}, \A m \in DOMAIN h : new[m] = h[m]
  PROVE  Total(new) = Total(h) + Blocks(new[n])
<1>1. /\ IsFiniteSet(DOMAIN new) /\ n \in DOMAIN new /\ DOMAIN new \ {n} = DOMAIN h
      /\ \A m \in DOMAIN new : Sizes(new)[m] = Blocks(new[m]) /\ Sizes(new)[m] \in Nat
  BY SizesType
<1>2. /\ Weight(Sizes(new), DOMAIN h) \in Nat
      /\ Total(new) = Sizes(new)[n] + Weight(Sizes(new), DOMAIN h)
  BY <1>1, WeightRemove DEF Total
<1>3. \A m \in DOMAIN h : Sizes(new)[m] = Sizes(h)[m]
  BY <1>1, SizesType
<1>4. Weight(Sizes(new), DOMAIN h) = Total(h)
  BY <1>3, WeightSame DEF Total
<1> QED BY <1>1, <1>2, <1>4

LEMMA TotalSet ==
  ASSUME NEW h, Memory(h), NEW new, Memory(new), NEW n \in DOMAIN h,
         DOMAIN new = DOMAIN h, \A m \in DOMAIN h \ {n} : new[m] = h[m]
  PROVE  Total(new) = Total(h) - Blocks(h[n]) + Blocks(new[n])
<1>1. /\ IsFiniteSet(DOMAIN h)
      /\ \A m \in DOMAIN h : Sizes(h)[m] = Blocks(h[m]) /\ Sizes(h)[m] \in Nat
      /\ \A m \in DOMAIN h : Sizes(new)[m] = Blocks(new[m]) /\ Sizes(new)[m] \in Nat
  BY SizesType
<1>2. \A m \in DOMAIN h \ {n} : Sizes(new)[m] = Sizes(h)[m]
  BY <1>1
<1>3. Weight(Sizes(new), DOMAIN h) = Weight(Sizes(h), DOMAIN h) - Sizes(h)[n] + Sizes(new)[n]
  BY <1>1, <1>2, WeightChange
<1> QED BY <1>1, <1>3 DEF Total

LEMMA TotalFree ==
  ASSUME NEW h, Memory(h), NEW new, Memory(new), NEW S \in SUBSET DOMAIN h,
         DOMAIN new = DOMAIN h \ S, \A m \in DOMAIN new : new[m] = h[m]
  PROVE  Weight(Sizes(h), S) \in Nat /\ Total(new) = Total(h) - Weight(Sizes(h), S)
<1>1. /\ IsFiniteSet(DOMAIN h)
      /\ \A m \in DOMAIN h : Sizes(h)[m] = Blocks(h[m]) /\ Sizes(h)[m] \in Nat
      /\ \A m \in DOMAIN new : Sizes(new)[m] = Blocks(new[m])
  BY SizesType
<1>2. /\ Weight(Sizes(h), S) \in Nat /\ Weight(Sizes(h), DOMAIN new) \in Nat
      /\ Total(h) = Weight(Sizes(h), S) + Weight(Sizes(h), DOMAIN new)
  <2>1. DOMAIN h \ S = DOMAIN new
    OBVIOUS
  <2>2. /\ Weight(Sizes(h), S) \in Nat /\ Weight(Sizes(h), DOMAIN h \ S) \in Nat
        /\ Weight(Sizes(h), DOMAIN h) = Weight(Sizes(h), S) + Weight(Sizes(h), DOMAIN h \ S)
    BY <1>1, WeightSplit
  <2> QED BY <2>1, <2>2 DEF Total
<1>3. \A m \in DOMAIN new : Sizes(new)[m] = Sizes(h)[m]
  BY <1>1
<1>4. Weight(Sizes(h), DOMAIN new) = Total(new)
  BY <1>3, WeightSame DEF Total
<1> QED BY <1>2, <1>4

-----------------------------------------------------------------------------
(* Between two calls all of the memory is the user's.                      *)

\* What is in no tree has an owner that is in none, and so on: there would be a
\* circle.
LEMMA AllInTrees ==
  ASSUME NEW kids, NEW tops, Forest(kids, tops), IsFiniteSet(DOMAIN kids), NEW n \in DOMAIN kids
  PROVE  \E t \in tops : n \in Tree(kids, t)
<1> DEFINE R == {x \in DOMAIN kids : \A t \in tops : x \notin Tree(kids, t)}
           Up(T) == T # {} /\ \A x \in T : \E m \in T : \E k \in DOMAIN kids[m] : kids[m][k] = x
           U == {T \in SUBSET R : Up(T)}
<1> SUFFICES ASSUME n \in R PROVE FALSE
  OBVIOUS
<1>0. Inside(kids, tops) /\ Placed(kids, tops) /\ PlacedOnce(kids) /\ Acyclic(kids)
  BY DEF Forest
<1>1. ASSUME NEW x \in R PROVE \E m \in R : \E k \in DOMAIN kids[m] : kids[m][k] = x
  <2>1. x \notin tops
    BY <1>0, TreeProperties DEF Inside
  <2>2. PICK m \in DOMAIN kids : \E k \in DOMAIN kids[m] : kids[m][k] = x
    BY <1>0, <2>1 DEF Placed
  <2>3. ASSUME NEW t \in tops, m \in Tree(kids, t) PROVE FALSE
    <3>1. Closed(kids, Tree(kids, t))
      BY <1>0, TreeProperties DEF Inside
    <3> QED BY <2>2, <2>3, <3>1 DEF Closed
  <2> QED BY <2>2, <2>3
<1>2. R \in U
  BY <1>1
<1>3. U \subseteq FiniteSubsetsOf(DOMAIN kids)
  <2>1. \A T \in U : T \subseteq DOMAIN kids
    OBVIOUS
  <2> HIDE DEF U
  <2> QED BY <2>1, FS_Subset DEF FiniteSubsetsOf
<1>4. PICK T \in U : \A V \in U : <<V, T>> \notin StrictSubsetOrdering(DOMAIN kids)
  <2> HIDE DEF U
  <2>1. IsWellFoundedOn(StrictSubsetOrdering(DOMAIN kids), FiniteSubsetsOf(DOMAIN kids))
    BY FS_StrictSubsetOrderingWellFounded
  <2> QED BY <1>2, <1>3, <2>1, WFMin
<1>5. T \subseteq R /\ T \in SUBSET DOMAIN kids /\ Up(T)
  OBVIOUS
<1>6. PICK m \in T : \A k \in DOMAIN kids[m] : kids[m][k] \notin T
  BY <1>0, <1>5 DEF Acyclic
<1> DEFINE V == T \ {m}
<1>7. V # {}
  BY <1>5, <1>6
<1>8. Up(V)
  <2> SUFFICES ASSUME NEW x \in V
               PROVE  \E o \in V : \E k \in DOMAIN kids[o] : kids[o][k] = x
    BY <1>7
  <2>1. PICK o \in T : \E k \in DOMAIN kids[o] : kids[o][k] = x
    BY <1>5
  <2>2. o # m
    BY <1>6, <2>1
  <2> QED BY <2>1, <2>2
<1>9. V \in U /\ <<V, T>> \in StrictSubsetOrdering(DOMAIN kids)
  BY <1>5, <1>6, <1>8 DEF StrictSubsetOrdering
<1> QED BY <1>4, <1>9

LEMMA IdleLost == Inv /\ pc = "idle" => Lost = live - Total(heap)
<1> SUFFICES ASSUME Inv, pc = "idle" PROVE Lost = live - Total(heap)
  OBVIOUS
<1>1. roots = Tops /\ Forest(Kids(heap), roots) /\ Memory(heap) /\ DOMAIN Kids(heap) = DOMAIN heap
  BY Idle, OwnedFacts DEF Inv
<1>2. Reachable(roots) = DOMAIN heap
  <2>1. ASSUME NEW n \in DOMAIN heap PROVE n \in Reachable(roots)
    <3>1. PICK t \in roots : n \in Tree(Kids(heap), t)
      BY <1>1, AllInTrees DEF Memory
    <3>2. Below(t) = Tree(Kids(heap), t)
      BY <1>1, OwnedFacts
    <3> QED BY <3>1, <3>2 DEF Reachable
  <2> QED BY <2>1, ReachableType
<1>3. BlocksOf(DOMAIN heap) = Total(heap)
  <2>1. \A n \in DOMAIN heap : Blocks(heap[n]) \in Nat
    BY <1>1, SizesType
  <2> QED BY <1>1, <2>1, BlocksOfIs DEF Total, Memory
<1> QED BY <1>2, <1>3 DEF Lost

-----------------------------------------------------------------------------
(* What is allocated, and to whom it belongs.                              *)

\* The calls of duplicate_object under way that have a key at hand, from the
\* outermost: all of them but the one in its loop.
WithKey == IF pc = "loop" THEN Len(stack) - 1 ELSE Len(stack)
HeldKeys == Weight(KeyWeights(stack), 1 .. WithKey)

\* Nothing has failed that makes json_copy fail.
GoesWell == (\A f \in DOMAIN stack : stack[f].kind # "arr") /\ ~(pc = "return" /\ ret = NULL)

Ledger ==
  /\ live \in Int /\ before.lost \in Int
  /\ pc # "idle" /\ GoesWell => live = Total(heap) + HeldKeys + before.lost

LInv == pc # "aborted" => Ledger

\* What a call that succeeds adds to the blocks is what it adds to the values.
Balanced == live' \in Int /\ (result' => live' - Total(heap') = live - Total(heap))

LEMMA MemoryTypes ==
  ASSUME Inv
  PROVE  /\ Memory(heap) /\ Total(heap) \in Nat
         /\ \A n \in DOMAIN heap : heap[n] \in ValueSet /\ Blocks(heap[n]) \in Nat
<1>1. Memory(heap)
  BY DEF Inv
<1> QED BY <1>1, SizesType, OwnedFacts, BlocksType

LEMMA CreateBalances ==
  ASSUME Inv, Inv', live \in Int, NEW v \in NewValues, Create(v)
  PROVE  Balanced
<1>1. Make(v)
  BY DEF Create
<1>2. PICK n : n = NewNode
  OBVIOUS
<1>3. n \notin DOMAIN heap
  BY <1>1, <1>2, NewNodeIs DEF Make, Unused
<1>4. /\ DOMAIN heap' = DOMAIN heap \cup {n} /\ heap'[n] = v /\ \A m \in DOMAIN heap : heap'[m] = heap[m]
      /\ live' = live + Blocks(v)
  BY <1>1, <1>2, <1>3 DEF Make
<1>5. Memory(heap) /\ Memory(heap') /\ Total(heap) \in Nat
  BY MemoryTypes DEF Inv
<1>6. Total(heap') = Total(heap) + Blocks(v)
  BY <1>3, <1>4, <1>5, TotalNew
<1>7. Blocks(v) \in Nat
  <2>1. heap'[n] \in ValueSet
    BY <1>4, <1>5 DEF Memory, Value
  <2> QED BY <1>4, <2>1, BlocksType
<1> QED BY <1>4, <1>5, <1>6, <1>7 DEF Balanced

\* One value gets another content.
LEMMA ChangeBalances ==
  ASSUME Inv, Inv', live \in Int, NEW n \in DOMAIN heap, NEW v, heap' = [heap EXCEPT ![n] = v],
         live' - live = Blocks(v) - Blocks(heap[n]), live' \in Int
  PROVE  Balanced
<1>1. DOMAIN heap' = DOMAIN heap /\ heap'[n] = v /\ \A m \in DOMAIN heap \ {n} : heap'[m] = heap[m]
  OBVIOUS
<1>2. /\ Memory(heap) /\ Memory(heap') /\ Total(heap) \in Nat
      /\ Blocks(heap[n]) \in Nat
  BY MemoryTypes DEF Inv
<1>3. Total(heap') = Total(heap) - Blocks(heap[n]) + Blocks(v)
  <2>1. Total(heap') = Total(heap) - Blocks(heap[n]) + Blocks(heap'[n])
    BY <1>1, <1>2, TotalSet
  <2> QED BY <1>1, <2>1
<1>4. Blocks(v) \in Nat
  <2>1. heap'[n] \in ValueSet
    BY <1>1, <1>2 DEF Memory, Value
  <2> QED BY <1>1, <2>1, BlocksType
<1> QED BY <1>2, <1>3, <1>4 DEF Balanced

LEMMA SetBalances ==
  ASSUME Inv, Inv', live \in Int, NEW n \in DOMAIN heap,
         (\E s \in Scalar : SetScalar(n, s)) \/ (\E t \in Text : SetString(n, t))
  PROVE  Balanced
<1>1. heap[n] \in ValueSet
  BY OwnedFacts
<1>2. CASE \E s \in Scalar : SetScalar(n, s)
  <2>1. PICK s \in Scalar : SetScalar(n, s)
    BY <1>2
  <2>2. heap[n] \in ScalarSet /\ live' = live
    BY <1>1, <2>1, Kinds DEF SetScalar
  <2>3. CASE heap' = heap
    BY <2>2, <2>3, MemoryTypes DEF Balanced
  <2>4. CASE heap' # heap
    <3>1. PICK v : v = [heap[n] EXCEPT !.value = s]
      OBVIOUS
    <3>2. heap' = [heap EXCEPT ![n] = v] /\ v.kind = "scalar" /\ heap[n].kind = "scalar"
      BY <2>1, <2>2, <2>4, <3>1 DEF SetScalar, ScalarSet
    <3>3. Blocks(v) = 1 /\ Blocks(heap[n]) = 1
      BY <3>2 DEF Blocks
    <3>4. live' \in Int /\ live' - live = Blocks(v) - Blocks(heap[n])
      BY <2>2, <3>3
    <3> QED BY <3>2, <3>4, ChangeBalances
  <2> QED BY <2>3, <2>4
<1>3. CASE \E t \in Text : SetString(n, t)
  <2>1. PICK t \in Text : SetString(n, t)
    BY <1>3
  <2>2. heap[n] \in StringSet /\ heap[n].kind = "str"
    BY <1>1, <2>1, Kinds DEF SetString
  <2>3. PICK freed : freed = IF heap[n].data = NULL THEN 0 ELSE 1
    OBVIOUS
  <2>4. CASE result' = FALSE
    <3>1. live' \in {live - freed + 1, live - freed}
      BY <2>1, <2>3 DEF SetString
    <3> QED BY <2>3, <2>4, <3>1 DEF Balanced
  <2>5. CASE result' # FALSE
    <3>1. heap' = [heap EXCEPT ![n].data = t] /\ live' = live - freed + 1
      BY <2>1, <2>3, <2>5 DEF SetString, Done
    <3>2. PICK v : v = [heap[n] EXCEPT !.data = t]
      OBVIOUS
    <3>3. heap' = [heap EXCEPT ![n] = v] /\ v.kind = "str" /\ v.data = t /\ t # NULL
      BY <2>2, <3>1, <3>2, ValuesAssumption DEF StringSet
    <3>4. Blocks(v) = 2 /\ Blocks(heap[n]) = 1 + freed
      <4>1. Blocks(v) = IF v.data = NULL THEN 1 ELSE 2
        BY <3>3 DEF Blocks
      <4>2. Blocks(heap[n]) = IF heap[n].data = NULL THEN 1 ELSE 2
        BY <2>2 DEF Blocks
      <4> QED BY <2>3, <3>3, <4>1, <4>2
    <3>5. live' \in Int /\ live' - live = Blocks(v) - Blocks(heap[n])
      BY <2>3, <3>1, <3>4
    <3> QED BY <3>3, <3>5, ChangeBalances
  <2> QED BY <2>4, <2>5
<1> QED BY <1>2, <1>3

LEMMA AppendBalances ==
  ASSUME Inv, Inv', live \in Int, NEW a \in DOMAIN heap, NEW m \in roots, ArrayAppend(a, m)
  PROVE  Balanced
<1>1. heap[a] \in ArraySet /\ heap[a].capacity \in Nat /\ heap[a].kind = "arr"
  BY OwnedFacts, Kinds DEF ArrayAppend
<1>2. CASE result' = FALSE
  <2>1. live' = live \/ live' = live + 1
    BY DEF ArrayAppend, memory
  <2> QED BY <1>2, <2>1 DEF Balanced
<1>3. CASE result' # FALSE
  <2> DEFINE full == Len(heap[a].values) = heap[a].capacity
             c == IF full THEN Doubled(heap[a].capacity) ELSE heap[a].capacity
             v == [heap[a] EXCEPT !.values = Append(heap[a].values, m), !.capacity = c]
  <2>1. heap' = [heap EXCEPT ![a].values = Append(@, m), ![a].capacity = c]
        /\ live' = IF full /\ heap[a].capacity = 0 THEN live + 1 ELSE live
    BY <1>3 DEF ArrayAppend, Done
  <2>2. /\ c = 0 => ~full /\ heap[a].capacity = 0
        /\ heap[a].capacity = 0 /\ ~full => c = 0
    BY <1>1, ValuesAssumption DEF Doubled
  <2> HIDE DEF c
  <2>3. heap' = [heap EXCEPT ![a] = v]
    BY <2>1
  <2>4. v.kind = "arr" /\ v.capacity = c
    BY <1>1 DEF ArraySet
  <2>5. /\ Blocks(v) = (IF c = 0 THEN 1 ELSE 2)
        /\ Blocks(heap[a]) = (IF heap[a].capacity = 0 THEN 1 ELSE 2)
    BY <1>1, <2>4 DEF Blocks
  <2> HIDE DEF v
  <2>6. live' \in Int /\ live' - live = Blocks(v) - Blocks(heap[a])
    BY <2>1, <2>2, <2>5
  <2> QED BY <2>3, <2>6, ChangeBalances
<1> QED BY <1>2, <1>3

\* object_add, seen from the blocks of the object.
LEMMA EntryBlocks ==
  ASSUME NEW o \in ObjectSet, NEW key \in Text \cup Dataless, NEW n \in Node, NEW place \in Places(o),
         NEW v, v = WithEntry(o, key, n, place)
  PROVE  Blocks(v) = Blocks(o) + KeyBlocks(key) - TableBlocks(o.capacity) + TableBlocks(v.capacity)
<1>1. PICK s, e : s = o.entries /\ e = [key |-> key, value |-> n]
  OBVIOUS
<1>2. /\ o.kind = "obj" /\ s \in Seq(Entry) /\ e \in Entry /\ e.key = key
      /\ place \in 1 .. Len(s) + 1 /\ Len(s) \in Nat
  BY <1>1 DEF ObjectSet, Places, Entry
<1>3. PICK t : t = InsertAt(s, place, e)
  OBVIOUS
<1>4. t \in Seq(Entry) /\ Len(t) = Len(s) + 1
  <2>1. IsPut(Entry, s, place, e, InsertAt(s, place, e))
    BY <1>2, InsertAtPuts
  <2> QED BY <1>3, <2>1 DEF IsPut
<1>5. v.kind = "obj" /\ v.entries = t
  <2>1. DOMAIN o = {"kind", "capacity", "entries"} /\ o = [kind |-> "obj", capacity |-> o.capacity, entries |-> s]
    BY <1>1 DEF ObjectSet
  <2> QED BY <1>1, <1>3, <2>1 DEF WithEntry
<1>6. KeysOf(t) = KeysOf(s) + KeyBlocks(key)
  BY <1>2, <1>3, KeysOfInserted
<1>7. PICK k \in Nat : k = Len(s)
  BY <1>2
<1>8. DOMAIN s = 1 .. k /\ DOMAIN t = 1 .. k + 1 /\ k + 1 \in Nat
  BY <1>2, <1>4, <1>7
<1>9. Blocks(o) = TableBlocks(o.capacity) + KeysOf(s) /\ KeysOf(s) \in Nat
  BY <1>1, <1>2, <1>8, ObjectBlocks, KeysOfType
<1>10. Blocks(v) = TableBlocks(v.capacity) + KeysOf(t)
  BY <1>5, <1>8, ObjectBlocks
<1>11. TableBlocks(o.capacity) \in Nat /\ TableBlocks(v.capacity) \in Nat
  BY DEF TableBlocks
<1> QED BY <1>6, <1>9, <1>10, <1>11, KeyBlocksType

LEMMA AddBalances ==
  ASSUME Inv, Inv', live \in Int, NEW o \in DOMAIN heap, NEW m \in roots, NEW t \in Text,
         Add(o, t, m), ~Abort
  PROVE  Balanced
<1>1. heap[o].kind = "obj"
  BY DEF Add
<1>2. PICK key \in {t, NULL} :
        /\ \E place \in Places(heap[o]) : heap' = [heap EXCEPT ![o] = WithEntry(@, key, m, place)]
        /\ live' = live + KeyBlocks(key) + IF heap[o].capacity = 0 THEN 1 ELSE 0
  BY DEF Add
<1>3. PICK place \in Places(heap[o]) : heap' = [heap EXCEPT ![o] = WithEntry(@, key, m, place)]
  BY <1>2
<1>4. key \in Text \cup Dataless /\ m \in Node /\ heap[o] \in ObjectSet
  BY <1>1, OwnedFacts, Kinds DEF Dataless, Tops
<1>5. PICK v : v = WithEntry(heap[o], key, m, place)
  OBVIOUS
<1>6. heap' = [heap EXCEPT ![o] = v]
  BY <1>3, <1>5
<1>7. /\ Blocks(v) = Blocks(heap[o]) + KeyBlocks(key)
                       - TableBlocks(heap[o].capacity) + TableBlocks(v.capacity)
      /\ Blocks(heap[o]) \in Nat
  BY <1>4, <1>5, EntryBlocks, MemoryTypes
<1>8. v.capacity # 0
  <2>1. Value(v) /\ v.kind = "obj" /\ Len(v.entries) = Len(heap[o].entries) + 1
        /\ Len(heap[o].entries) \in Nat /\ v.capacity \in Nat
    <3>1. Memory(heap') /\ o \in DOMAIN heap' /\ heap'[o] = v
      BY <1>6 DEF Inv
    <3>2. v.kind = "obj" /\ Len(v.entries) = Len(heap[o].entries) + 1 /\ Len(heap[o].entries) \in Nat
          /\ v \in ObjectSet
      BY <1>4, <1>5, ObjectGets
    <3> QED BY <3>1, <3>2 DEF Memory, ObjectSet
  <2>2. 2 * Len(v.entries) <= v.capacity
    BY <2>1 DEF Value, HasRoom
  <2> QED BY <2>1, <2>2
<1>9. live' \in Int /\ live' - live = Blocks(v) - Blocks(heap[o])
  BY <1>2, <1>7, <1>8, KeyBlocksType DEF TableBlocks
<1> QED BY <1>6, <1>9, ChangeBalances

LEMMA FreeBalances ==
  ASSUME Inv, Inv', live \in Int, NEW n \in roots, Free(n)
  PROVE  Balanced
<1>1. FreeTree(n)
  BY DEF Free
<1>2. n \in DOMAIN heap /\ Below(n) \in SUBSET DOMAIN heap
  BY OwnedFacts DEF Tops
<1>3. PICK S \in SUBSET DOMAIN heap : S = Below(n)
  BY <1>2
<1>4. /\ DOMAIN heap' = DOMAIN heap \ S /\ \A m \in DOMAIN heap' : heap'[m] = heap[m]
      /\ live' = live - BlocksOf(S)
  BY <1>1, <1>3 DEF FreeTree, Restrict
<1>5. Memory(heap) /\ Memory(heap') /\ Total(heap) \in Nat
  BY MemoryTypes DEF Inv
<1>6. Weight(Sizes(heap), S) \in Nat /\ Total(heap') = Total(heap) - Weight(Sizes(heap), S)
  BY <1>4, <1>5, TotalFree
<1>7. BlocksOf(S) = Weight(Sizes(heap), S)
  <2>1. IsFiniteSet(S)
    BY <1>5, FS_Subset DEF Memory
  <2>2. \A m \in S : Blocks(heap[m]) \in Nat
    BY MemoryTypes
  <2> QED BY <2>1, <2>2, BlocksOfIs
<1> QED BY <1>4, <1>5, <1>6, <1>7 DEF Balanced

-----------------------------------------------------------------------------
(* The steps of json_copy.                                                 *)

LEMMA KeysSame ==
  ASSUME NEW s, NEW t, NEW m \in Nat, 1 .. m \subseteq DOMAIN s, 1 .. m \subseteq DOMAIN t,
         \A k \in 1 .. m : t[k] = s[k]
  PROVE  Weight(KeyWeights(t), 1 .. m) = Weight(KeyWeights(s), 1 .. m)
<1>1. \A k \in 1 .. m : KeyWeights(t)[k] = KeyWeights(s)[k]
  BY DEF KeyWeights
<1> QED BY <1>1, WeightSame

LEMMA KeysOneMore ==
  ASSUME NEW s, NEW m \in Nat, NEW n, n = m + 1, 1 .. n \subseteq DOMAIN s
  PROVE  /\ Weight(KeyWeights(s), 1 .. m) \in Nat
         /\ Weight(KeyWeights(s), 1 .. n) = Weight(KeyWeights(s), 1 .. m) + KeyBlocks(s[n].key)
<1>1. IsFiniteSet(1 .. n)
  BY FS_Interval
<1>2. n \in 1 .. n /\ (1 .. n) \ {n} = 1 .. m
  OBVIOUS
<1>3. \A k \in 1 .. n : KeyWeights(s)[k] = KeyBlocks(s[k].key) /\ KeyWeights(s)[k] \in Nat
  BY KeyBlocksType DEF KeyWeights
<1>4. PICK S, w : S = 1 .. n /\ w = KeyWeights(s)
  OBVIOUS
<1>5. Weight(w, S \ {n}) \in Nat /\ Weight(w, S) = w[n] + Weight(w, S \ {n})
  BY <1>1, <1>2, <1>3, <1>4, WeightRemove
<1>6. PICK a, b : a = Weight(w, S \ {n}) /\ b = KeyBlocks(s[n].key)
  OBVIOUS
<1>7. w[n] = b /\ b \in Nat /\ a \in Nat /\ Weight(w, S) = b + a
  BY <1>2, <1>3, <1>4, <1>5, <1>6
<1>8. Weight(w, S) = a + b
  BY <1>7
<1> QED BY <1>2, <1>4, <1>6, <1>7, <1>8, Zenon

LEMMA KeysType ==
  ASSUME NEW s, NEW m \in Nat, 1 .. m \subseteq DOMAIN s
  PROVE  Weight(KeyWeights(s), 1 .. m) \in Nat
<1>1. IsFiniteSet(1 .. m)
  BY FS_Interval
<1>2. \A k \in 1 .. m : KeyWeights(s)[k] \in Nat
  BY KeyBlocksType DEF KeyWeights
<1> QED BY <1>1, <1>2, WeightType

\* A step after which json_copy fails, or goes on without an array.
LEMMA FailsLedger ==
  ASSUME Ledger, live' \in Int, before' = before,
         (pc' = "return" /\ ret' = NULL) \/ (\E f \in DOMAIN stack' : stack'[f].kind = "arr")
  PROVE  Ledger'
BY DEF Ledger, GoesWell

LEMMA BeginCopyLedger == ASSUME Inv, Ledger, NEW n, Copy(n) PROVE Ledger'
<1>1. /\ pc = "idle" /\ pc' = "copy" /\ stack' = stack /\ heap' = heap /\ live' = live
      /\ before'.lost = Lost
  BY DEF Copy, Call, memory
<1>2. stack = <<>> /\ Lost = live - Total(heap) /\ Total(heap) \in Nat /\ live \in Int
  BY <1>1, Idle, IdleLost, MemoryTypes DEF Ledger
<1>3. HeldKeys' = 0
  <2>1. WithKey' = 0
    BY <1>1, <1>2 DEF WithKey
  <2>2. 1 .. WithKey' = {}
    BY <2>1
  <2> QED BY <2>2, WeightEmpty DEF HeldKeys
<1> QED BY <1>1, <1>2, <1>3 DEF Ledger

\* A step that leaves the frames with a key alone, and owns what it allocates.
LEMMA SameKeysLedger ==
  ASSUME Inv, Ledger, pc # "idle", GoesWell, before' = before,
         NEW m \in Nat, WithKey = m, WithKey' = m, 1 .. m \subseteq DOMAIN stack, 1 .. m \subseteq DOMAIN stack',
         \A k \in 1 .. m : stack'[k] = stack[k],
         live' \in Int, live' - live = Total(heap') - Total(heap), Total(heap') \in Nat
  PROVE  Ledger'
<1>1. HeldKeys' = HeldKeys /\ HeldKeys \in Nat
  BY KeysSame, KeysType DEF HeldKeys
<1>2. Total(heap) \in Nat /\ before.lost \in Int /\ live \in Int
      /\ live = Total(heap) + HeldKeys + before.lost
  BY MemoryTypes DEF Ledger
<1> QED BY <1>1, <1>2 DEF Ledger

LEMMA MadeBlocks ==
  ASSUME Inv, Inv', live \in Int, NEW v, Make(v)
  PROVE  live' \in Int /\ live' - live = Total(heap') - Total(heap) /\ Total(heap') \in Nat
<1>1. PICK n : n = NewNode
  OBVIOUS
<1>2. n \notin DOMAIN heap
  BY <1>1, NewNodeIs DEF Make, Unused
<1>3. /\ DOMAIN heap' = DOMAIN heap \cup {n} /\ heap'[n] = v /\ \A m \in DOMAIN heap : heap'[m] = heap[m]
      /\ live' = live + Blocks(v)
  BY <1>1, <1>2 DEF Make
<1>4. Memory(heap) /\ Memory(heap') /\ Total(heap) \in Nat
  BY MemoryTypes DEF Inv
<1>5. Total(heap') = Total(heap) + Blocks(v)
  BY <1>2, <1>3, <1>4, TotalNew
<1>6. Blocks(v) \in Nat
  <2>1. heap'[n] \in ValueSet
    BY <1>3, <1>4 DEF Memory, Value
  <2> QED BY <1>3, <2>1, BlocksType
<1> QED BY <1>3, <1>4, <1>5, <1>6

LEMMA CopyLeafLedger == ASSUME Inv, Inv', Ledger, CopyLeaf PROVE Ledger'
<1>1. pc = "copy" /\ pc' = "return" /\ stack' = stack /\ before' = before /\ live \in Int
  BY DEF CopyLeaf, Return, Ledger
<1>2. CASE ret' = NULL /\ live' = live
  BY <1>1, <1>2, FailsLedger
<1>3. CASE ~(ret' = NULL /\ live' = live)
  <2>1. Make(heap[at])
    BY <1>3 DEF CopyLeaf, Return, memory
  <2>2. PICK v : v = heap[at]
    OBVIOUS
  <2>3. live' \in Int /\ live' - live = Total(heap') - Total(heap) /\ Total(heap') \in Nat
    BY <1>1, <2>1, <2>2, MadeBlocks
  <2>4. PICK m \in Nat : m = Len(stack)
    BY FrameFacts
  <2>5. WithKey = m /\ WithKey' = m /\ DOMAIN stack = 1 .. m /\ DOMAIN stack' = 1 .. m
    BY <1>1, <2>4, FrameFacts DEF WithKey
  <2>6. CASE GoesWell
    BY <1>1, <2>3, <2>5, <2>6, SameKeysLedger
  <2>7. CASE ~GoesWell
    BY <1>1, <2>3, <2>7, FailsLedger DEF GoesWell
  <2> QED BY <2>6, <2>7
<1> QED BY <1>2, <1>3

LEMMA CopyArrayLedger == ASSUME Inv, Ledger, CopyArray PROVE Ledger'
<1>1. pc = "copy" /\ before' = before /\ live \in Int
  BY DEF CopyArray, Ledger
<1>2. live' \in Int
  <2>1. \A n : Blocks(ArrayOf(n, <<>>)) \in {1, 2}
    BY DEF Blocks, ArrayOf
  <2>2. live' = live \/ \E n : live' = live + Blocks(ArrayOf(n, <<>>))
    BY DEF CopyArray
  <2> QED BY <1>1, <2>1, <2>2
<1>3. CASE Return(NULL)
  BY <1>1, <1>2, <1>3, FailsLedger DEF Return
<1>4. CASE ~Return(NULL)
  <2>1. Push([kind |-> "arr"])
    BY <1>4 DEF CopyArray
  <2>2. stack \in Seq(FrameSet) /\ [kind |-> "arr"] \in FrameSet
    BY FrameFacts DEF FrameSet, ArrayFrame
  <2>3. Len(stack) + 1 \in DOMAIN stack' /\ stack'[Len(stack) + 1].kind = "arr"
    BY <2>1, <2>2 DEF Push
  <2> QED BY <1>1, <1>2, <2>3, FailsLedger
<1> QED BY <1>3, <1>4

LEMMA GivesUpLedger == ASSUME Inv, Ledger, EndArray \/ CopyKeyFails \/ EntryFails PROVE Ledger'
<1>1. /\ pc' = "return" /\ ret' = NULL /\ before' = before /\ live \in Int
      /\ \E n \in 0 .. 3 : live' = live - n
  BY KeyBlocksType DEF EndArray, CopyKeyFails, EntryFails, GiveUp, Return, memory, Ledger
<1> QED BY <1>1, FailsLedger

LEMMA CopyObjectLedger == ASSUME Inv, Inv', Ledger, CopyObject PROVE Ledger'
<1>1. pc = "copy" /\ before' = before /\ live \in Int
  BY DEF CopyObject, Ledger
<1>2. CASE Return(NULL) /\ live' = live
  BY <1>1, <1>2, FailsLedger DEF Return
<1>3. CASE ~(Return(NULL) /\ live' = live)
  <2>1. /\ Make(ObjectOf(CopyTable(heap[at]), <<>>)) /\ pc' = "loop"
        /\ Push([kind |-> "obj", object |-> at, copy |-> NewNode, i |-> 0, key |-> NULL])
    BY <1>3 DEF CopyObject, memory
  <2>2. PICK v : v = ObjectOf(CopyTable(heap[at]), <<>>)
    OBVIOUS
  <2>3. live' \in Int /\ live' - live = Total(heap') - Total(heap) /\ Total(heap') \in Nat
    BY <1>1, <2>1, <2>2, MadeBlocks
  <2>4. PICK m \in Nat : m = Len(stack)
    BY FrameFacts
  <2>5. stack \in Seq(FrameSet) /\ DOMAIN stack = 1 .. m
    BY <2>4, FrameFacts
  <2>6. PICK frame : Push(frame)
    BY <2>1
  <2>7. /\ DOMAIN stack' = 1 .. m + 1 /\ Len(stack') = m + 1
        /\ \A k \in 1 .. m : stack'[k] = stack[k]
    BY <2>4, <2>5, <2>6 DEF Push
  <2>8. WithKey = m /\ WithKey' = m
    BY <1>1, <2>1, <2>4, <2>7 DEF WithKey
  <2>9. CASE GoesWell
    BY <1>1, <2>3, <2>5, <2>7, <2>8, <2>9, SameKeysLedger
  <2>10. CASE ~GoesWell
    <3>1. PICK f \in DOMAIN stack : stack[f].kind = "arr"
      BY <1>1, <2>10 DEF GoesWell
    <3>2. f \in DOMAIN stack' /\ stack'[f].kind = "arr"
      BY <2>5, <2>7, <3>1
    <3> QED BY <1>1, <2>3, <3>2, FailsLedger
  <2> QED BY <2>9, <2>10
<1> QED BY <1>2, <1>3

LEMMA CopyKeyLedger == ASSUME Inv, Ledger, CopyKey PROVE Ledger'
<1>1. pc = "loop" /\ pc' = "copy" /\ heap' = heap /\ before' = before /\ live \in Int
  BY DEF CopyKey, Looping, Ledger
<1>2. PICK key : live' = live + KeyBlocks(key) /\ SetTop([Top EXCEPT !.key = key])
  BY DEF CopyKey
<1>3. stack # <<>> /\ Top.kind = "obj"
  BY <1>1 DEF Inv, Control
<1>4. Len(stack) \in Nat \ {0} /\ DOMAIN stack = 1 .. Len(stack) /\ Top \in ObjectFrame
      /\ Top = stack[Len(stack)] /\ stack \in Seq(FrameSet)
  BY <1>3, FrameFacts, TopFacts, EmptySeq
<1>5. PICK m \in Nat : Len(stack) = m + 1
  <2>1. Len(stack) - 1 \in Nat /\ Len(stack) = (Len(stack) - 1) + 1
    BY <1>4
  <2> QED BY <2>1
<1>6. PICK n : n = m + 1
  OBVIOUS
<1>7. n \in Nat /\ DOMAIN stack = 1 .. n /\ n \in 1 .. n /\ Len(stack) = n
  BY <1>4, <1>5, <1>6
<1>8. PICK frame : frame = [Top EXCEPT !.key = key]
  OBVIOUS
<1>9. frame.key = key /\ frame.kind = "obj"
  BY <1>3, <1>4, <1>8 DEF ObjectFrame
<1>10. /\ DOMAIN stack' = 1 .. n /\ Len(stack') = n /\ stack'[n] = frame
       /\ \A k \in 1 .. m : stack'[k] = stack[k]
  <2>1. stack' = [stack EXCEPT ![n] = frame]
    BY <1>2, <1>5, <1>6, <1>8 DEF SetTop
  <2>2. DOMAIN stack' = 1 .. n /\ stack'[n] = frame /\ \A k \in 1 .. m : stack'[k] = stack[k]
    BY <1>4, <1>5, <1>6, <2>1
  <2>3. Len(stack') = n
    BY <1>4, <1>5, <1>6, <2>2
  <2> QED BY <2>2, <2>3
<1>11. WithKey = m /\ WithKey' = n
  BY <1>1, <1>5, <1>6, <1>10 DEF WithKey
<1>12. /\ HeldKeys \in Nat /\ HeldKeys' = HeldKeys + KeyBlocks(key)
  <2>1. 1 .. m \subseteq DOMAIN stack /\ 1 .. m \subseteq DOMAIN stack' /\ 1 .. n \subseteq DOMAIN stack'
    BY <1>4, <1>5, <1>6, <1>10
  <2>2. Weight(KeyWeights(stack'), 1 .. m) = HeldKeys
    BY <1>10, <1>11, <2>1, KeysSame DEF HeldKeys
  <2>3. /\ Weight(KeyWeights(stack'), 1 .. m) \in Nat
        /\ HeldKeys' = Weight(KeyWeights(stack'), 1 .. m) + KeyBlocks(stack'[n].key)
    BY <1>6, <1>11, <2>1, KeysOneMore DEF HeldKeys
  <2> QED BY <1>9, <1>10, <2>2, <2>3
<1>13. live' \in Int
  BY <1>1, <1>2, KeyBlocksType
<1>14. CASE GoesWell
  <2>1. live = Total(heap) + HeldKeys + before.lost /\ Total(heap) \in Nat /\ before.lost \in Int
    BY <1>1, <1>14, MemoryTypes DEF Ledger
  <2>2. live' = Total(heap) + HeldKeys' + before.lost
    BY <1>1, <1>2, <1>12, <2>1, KeyBlocksType
  <2> QED BY <1>1, <1>13, <2>1, <2>2 DEF Ledger
<1>15. CASE ~GoesWell
  <2>1. PICK f \in DOMAIN stack : stack[f].kind = "arr"
    BY <1>1, <1>15 DEF GoesWell
  <2>2. f \in DOMAIN stack' /\ stack'[f].kind = "arr"
    <3>1. f # n
      BY <1>3, <1>4, <1>5, <1>6, <2>1
    <3>2. f \in 1 .. m /\ f \in 1 .. n
      BY <1>4, <1>5, <1>6, <2>1, <3>1
    <3> QED BY <1>10, <2>1, <3>2
  <2> QED BY <1>1, <1>13, <2>2, FailsLedger
<1> QED BY <1>14, <1>15

LEMMA AddCopyLedger == ASSUME Inv, Inv', Ledger, AddCopy, ~Abort PROVE Ledger'
<1>1. /\ pc = "return" /\ stack # <<>> /\ Top.kind = "obj" /\ ret # NULL /\ pc' = "loop"
      /\ SetTop([Top EXCEPT !.i = @ + 1, !.key = NULL])
      /\ live' = live /\ before' = before /\ live \in Int
  BY DEF AddCopy, Ledger
<1>2. PICK place \in Places(heap[Top.copy]) :
        heap' = [heap EXCEPT ![Top.copy] = WithEntry(@, Top.key, ret, place)]
  BY DEF AddCopy
<1>3. /\ Top = stack[Len(stack)] /\ Top \in ObjectFrame /\ Top.copy \in DOMAIN heap
      /\ heap[Top.copy] \in ObjectSet
      /\ Len(stack) \in Nat \ {0} /\ DOMAIN stack = 1 .. Len(stack)
  BY <1>1, TopFacts, FrameFacts, EmptySeq
<1>4. PICK a, key, v : a = Top.copy /\ key = Top.key /\ v = WithEntry(heap[a], key, ret, place)
  OBVIOUS
<1>5. /\ a \in DOMAIN heap /\ heap[a] \in ObjectSet /\ key \in Text \cup Dataless /\ ret \in Node
      /\ place \in Places(heap[a]) /\ heap' = [heap EXCEPT ![a] = v]
  BY <1>1, <1>2, <1>3, <1>4 DEF ObjectFrame, Inv, Shape
<1>6. v.capacity = heap[a].capacity
  <2>1. ~Grows(heap[a])
    BY <1>1, <1>4, CopyRoom
  <2> QED BY <1>4, <1>5, <2>1, ObjectGets
<1>7. Total(heap') = Total(heap) + KeyBlocks(key) /\ Total(heap) \in Nat
  <2>1. DOMAIN heap' = DOMAIN heap /\ heap'[a] = v /\ \A m \in DOMAIN heap \ {a} : heap'[m] = heap[m]
    BY <1>5
  <2>2. Memory(heap) /\ Memory(heap') /\ Total(heap) \in Nat /\ Blocks(heap[a]) \in Nat
    BY <1>5, MemoryTypes DEF Inv
  <2>3. Total(heap') = Total(heap) - Blocks(heap[a]) + Blocks(heap'[a])
    BY <1>5, <2>1, <2>2, TotalSet
  <2>4. Blocks(v) = Blocks(heap[a]) + KeyBlocks(key)
                      - TableBlocks(heap[a].capacity) + TableBlocks(v.capacity)
    BY <1>4, <1>5, EntryBlocks
  <2>5. Blocks(v) = Blocks(heap[a]) + KeyBlocks(key)
    BY <1>6, <2>2, <2>4, KeyBlocksType DEF TableBlocks
  <2> QED BY <2>1, <2>2, <2>3, <2>5, KeyBlocksType
<1>8. PICK n, m : n = Len(stack) /\ m = n - 1
  OBVIOUS
<1>9. n \in Nat /\ m \in Nat /\ n = m + 1 /\ DOMAIN stack = 1 .. n /\ stack[n] = Top
  BY <1>3, <1>8
<1>10. PICK frame : frame = [Top EXCEPT !.i = @ + 1, !.key = NULL]
  OBVIOUS
<1>11. /\ DOMAIN stack' = 1 .. n /\ Len(stack') = n /\ \A k \in 1 .. m : stack'[k] = stack[k]
  <2>1. stack' = [stack EXCEPT ![n] = frame]
    BY <1>1, <1>8, <1>10 DEF SetTop
  <2> HIDE <1>10
  <2>2. DOMAIN stack' = 1 .. n /\ \A k \in 1 .. m : stack'[k] = stack[k]
    BY <1>9, <2>1
  <2>3. Len(stack') = n
    BY <1>9, <2>2
  <2> QED BY <2>2, <2>3
<1>12. WithKey = n /\ WithKey' = m
  BY <1>1, <1>8, <1>11 DEF WithKey
<1>13. HeldKeys' \in Nat /\ HeldKeys = HeldKeys' + KeyBlocks(key)
  <2>1. 1 .. m \subseteq DOMAIN stack /\ 1 .. m \subseteq DOMAIN stack' /\ 1 .. n \subseteq DOMAIN stack
    BY <1>9, <1>11
  <2>2. HeldKeys' = Weight(KeyWeights(stack), 1 .. m)
    BY <1>9, <1>11, <1>12, <2>1, KeysSame DEF HeldKeys
  <2>3. /\ Weight(KeyWeights(stack), 1 .. m) \in Nat
        /\ HeldKeys = Weight(KeyWeights(stack), 1 .. m) + KeyBlocks(stack[n].key)
    BY <1>9, <1>12, <2>1, KeysOneMore DEF HeldKeys
  <2> QED BY <1>4, <1>9, <2>2, <2>3
<1>14. CASE GoesWell
  <2>1. live = Total(heap) + HeldKeys + before.lost /\ before.lost \in Int
    BY <1>1, <1>14 DEF Ledger
  <2>2. live' = Total(heap') + HeldKeys' + before.lost
    BY <1>1, <1>7, <1>13, <2>1, KeyBlocksType
  <2> QED BY <1>1, <2>1, <2>2 DEF Ledger
<1>15. CASE ~GoesWell
  <2>1. PICK f \in DOMAIN stack : stack[f].kind = "arr"
    BY <1>1, <1>15 DEF GoesWell
  <2>2. f \in 1 .. m /\ f \in 1 .. n
    BY <1>1, <1>9, <2>1
  <2> QED BY <1>1, <1>11, <2>1, <2>2, FailsLedger
<1> QED BY <1>14, <1>15

LEMMA EndObjectLedger == ASSUME Inv, Ledger, EndObject PROVE Ledger'
<1>1. /\ pc = "loop" /\ pc' = "return" /\ Pop /\ heap' = heap /\ live' = live /\ before' = before
      /\ live \in Int /\ Total(heap) \in Nat
  BY MemoryTypes DEF EndObject, Return, memory, Ledger
<1>2. stack # <<>> /\ Top.kind = "obj"
  BY <1>1 DEF Inv, Control
<1>3. /\ Len(stack) \in Nat \ {0} /\ DOMAIN stack = 1 .. Len(stack) /\ stack \in Seq(FrameSet)
      /\ Top = stack[Len(stack)]
  BY <1>2, FrameFacts, TopFacts, EmptySeq
<1>4. PICK n, m : n = Len(stack) /\ m = n - 1
  OBVIOUS
<1>5. n \in Nat /\ m \in Nat /\ n = m + 1 /\ DOMAIN stack = 1 .. n /\ stack[n] = Top
  BY <1>3, <1>4
<1>6. /\ stack' \in Seq(FrameSet) /\ Len(stack') = m /\ \A k \in 1 .. m : stack'[k] = stack[k]
  BY <1>1, <1>2, <1>3, <1>4, SequenceOps DEF Pop
<1>7. DOMAIN stack' = 1 .. m
  BY <1>6
<1>8. WithKey = m /\ WithKey' = m
  BY <1>1, <1>4, <1>6 DEF WithKey
<1>9. CASE GoesWell
  <2>1. 1 .. m \subseteq DOMAIN stack /\ 1 .. m \subseteq DOMAIN stack'
    BY <1>5, <1>7
  <2>2. live' \in Int /\ live' - live = Total(heap') - Total(heap) /\ Total(heap') \in Nat
    BY <1>1
  <2> QED BY <1>1, <1>5, <1>6, <1>8, <1>9, <2>1, <2>2, SameKeysLedger
<1>10. CASE ~GoesWell
  <2>1. PICK f \in DOMAIN stack : stack[f].kind = "arr"
    BY <1>1, <1>10 DEF GoesWell
  <2>2. f \in 1 .. m
    BY <1>2, <1>5, <2>1
  <2> QED BY <1>1, <1>6, <1>7, <2>1, <2>2, FailsLedger
<1> QED BY <1>9, <1>10

LEMMA EndCopyLedger == ASSUME Inv, Ledger, EndCopy PROVE Ledger' /\ (result' => live' = Total(heap') + before.lost)
<1>1. /\ pc = "return" /\ pc' = "idle" /\ stack = <<>> /\ heap' = heap /\ live' = live
      /\ before' = before /\ result' = (ret # NULL)
  BY DEF EndCopy, memory
<1>2. ASSUME result' PROVE live = Total(heap) + before.lost
  <2>1. GoesWell
    <3>1. ret # NULL
      BY <1>1, <1>2, Zenon
    <3>2. DOMAIN stack = {}
      BY <1>1
    <3> QED BY <3>1, <3>2 DEF GoesWell
  <2>2. HeldKeys = 0
    <3>1. WithKey = 0
      BY <1>1 DEF WithKey
    <3>2. 1 .. WithKey = {}
      BY <3>1
    <3> QED BY <3>2, WeightEmpty DEF HeldKeys
  <2> QED BY <1>1, <2>1, <2>2, MemoryTypes DEF Ledger
<1> QED BY <1>1, <1>2 DEF Ledger

-----------------------------------------------------------------------------
(* Nothing is lost.                                                        *)

\* A call in one step, when nothing ends the program.
LEMMA CallLedger ==
  ASSUME Inv, Inv', pc = "idle", pc' = "idle", Ledger, Next
  PROVE  Balanced /\ Ledger'
<1>1. live \in Int
  BY DEF Ledger
<1>2. PICK r : Done(r)
  BY DEF Next, Create, CreateFails, SetScalar, SetString, ArrayAppend, Add, AddFails, AddAborts, Abort,
         Copy, Free, CopyStep, CopyLeaf, CopyArray, EndArray, CopyObject, CopyKey, CopyKeyAborts,
         CopyKeyFails, EntryFails, AddCopy, EndObject, EndCopy, Looping
<1>3. Balanced
  <2>1. CASE \E v \in NewValues : Create(v)
    BY <1>1, <2>1, CreateBalances
  <2>2. CASE CreateFails \/ \E n \in DOMAIN heap, t \in Text : AddFails(n, t)
    <3>1. result' = FALSE /\ live' \in {live, live + 1, live + 2}
      BY <2>2, KeyBlocksType DEF CreateFails, AddFails, Done, memory
    <3> QED BY <1>1, <3>1 DEF Balanced
  <2>3. CASE \E n \in DOMAIN heap : (\E s \in Scalar : SetScalar(n, s)) \/ (\E t \in Text : SetString(n, t))
    BY <1>1, <2>3, SetBalances
  <2>4. CASE \E n \in DOMAIN heap, m \in roots : ArrayAppend(n, m) \/ \E t \in Text : Add(n, t, m)
    <3>1. ~Abort
      BY DEF Abort
    <3> QED BY <1>1, <2>4, <3>1, AppendBalances, AddBalances
  <2>5. CASE \E n \in roots : Free(n)
    BY <1>1, <2>5, FreeBalances
  <2>6. ~CopyStep /\ ~(\E n : AddAborts(n)) /\ ~(\E n : Copy(n))
    BY DEF AddAborts, Abort, Copy, CopyStep, CopyLeaf, CopyArray, EndArray, CopyObject, CopyKey,
           CopyKeyAborts, CopyKeyFails, EntryFails, AddCopy, EndObject, EndCopy, Looping
  <2>7. Reachable(roots) \subseteq DOMAIN heap
    BY ReachableType
  <2> QED BY <2>1, <2>2, <2>3, <2>4, <2>5, <2>6, <2>7 DEF Next
<1>4. before'.lost = 0 /\ live' \in Int
  BY <1>2, <1>3 DEF Done, None, Balanced
<1> QED BY <1>3, <1>4 DEF Ledger

LEMMA CopyLedger ==
  ASSUME Inv, Inv', pc # "idle", pc' # "aborted", Ledger, Next
  PROVE  Ledger' /\ (pc' = "idle" /\ result' => live' = Total(heap') + before.lost)
<1>1. ~Abort
  BY DEF Abort
<1>2. CopyStep /\ ~CopyKeyAborts
  BY <1>1 DEF Next, Create, CreateFails, SetScalar, SetString, ArrayAppend, Add, AddFails, AddAborts,
         Copy, Free, Call, CopyKeyAborts
<1>3. CASE EndCopy
  BY <1>3, EndCopyLedger
<1>4. CASE ~EndCopy
  <2>1. pc' # "idle"
    BY <1>1, <1>2, <1>4 DEF CopyStep, CopyLeaf, CopyArray, EndArray, CopyObject, CopyKey,
           CopyKeyFails, EntryFails, AddCopy, EndObject, Looping, Return, GiveUp
  <2> QED BY <1>1, <1>2, <1>4, <2>1, CopyLeafLedger, CopyArrayLedger, GivesUpLedger, CopyObjectLedger,
             CopyKeyLedger, AddCopyLedger, EndObjectLedger DEF CopyStep
<1> QED BY <1>3, <1>4

LEMMA NextLInv ==
  ASSUME IInv, IInv', LInv, Next
  PROVE  LInv'
<1>1. CASE pc = "aborted" \/ pc' = "aborted"
  BY <1>1 DEF LInv, Next, Create, CreateFails, SetScalar, SetString, ArrayAppend, Add, AddFails, AddAborts,
       Copy, Free, Call, CopyStep, CopyLeaf, CopyArray, EndArray, CopyObject, CopyKey, CopyKeyAborts,
       CopyKeyFails, EntryFails, AddCopy, EndObject, EndCopy, Looping
<1>2. CASE pc # "aborted" /\ pc' # "aborted"
  <2>1. Inv /\ Inv' /\ Ledger
    BY <1>2 DEF IInv, LInv
  <2>2. CASE pc # "idle"
    BY <1>2, <2>1, <2>2, CopyLedger DEF LInv
  <2>3. CASE pc = "idle" /\ pc' = "idle"
    BY <2>1, <2>3, CallLedger DEF LInv
  <2>4. CASE pc = "idle" /\ pc' # "idle"
    <3>1. PICK n : Copy(n)
      BY <1>2, <2>4 DEF Next, Create, CreateFails, SetScalar, SetString, ArrayAppend, Add, AddFails,
         AddAborts, Abort, Done, Free, CopyStep, CopyLeaf, CopyArray, EndArray, CopyObject, CopyKey,
         CopyKeyAborts, CopyKeyFails, EntryFails, AddCopy, EndObject, EndCopy, Looping
    <3> QED BY <2>1, <3>1, BeginCopyLedger DEF LInv
  <2> QED BY <2>2, <2>3, <2>4
<1> QED BY <1>1, <1>2

\* (SuccessLosesNothing) What a call that succeeds has allocated is owned when
\* it returns, by the user or by a value of his, however many allocations
\* failed in it and whatever was lost before (json.c:15-246, 335-355, 411-493).
THEOREM SuccessLeavesNothing == Spec => SuccessLosesNothing
<1> DEFINE L == Inv /\ pc = "idle" => Lost = live - Total(heap)
<1>1. Init => LInv
  BY DEF Init, LInv, Ledger, None
<1>2. IInv /\ IInv' /\ LInv /\ [Next]_vars => LInv'
  <2>1. LInv /\ UNCHANGED vars => LInv'
    BY DEF vars, memory, copying, LInv, Ledger, GoesWell, HeldKeys, WithKey
  <2> QED BY <2>1, NextLInv
<1>3. IInv /\ IInv' /\ LInv /\ L /\ L' /\ [Next]_vars =>
        [pc' = "idle" /\ result' => Lost' = IF pc = "idle" THEN Lost ELSE before.lost]_vars
  <2> SUFFICES ASSUME IInv, IInv', LInv, L, L', Next, pc' = "idle", result'
               PROVE  Lost' = IF pc = "idle" THEN Lost ELSE before.lost
    OBVIOUS
  <2>1. pc # "aborted"
    BY DEF Next, Create, CreateFails, SetScalar, SetString, ArrayAppend, Add, AddFails, AddAborts,
       Copy, Free, Call, CopyStep, CopyLeaf, CopyArray, EndArray, CopyObject, CopyKey, CopyKeyAborts,
       CopyKeyFails, EntryFails, AddCopy, EndObject, EndCopy, Looping
  <2>2. Inv /\ Inv' /\ Ledger
    BY <2>1 DEF IInv, LInv
  <2>3. Lost' = live' - Total(heap')
    BY <2>2
  <2>4. Total(heap) \in Nat /\ Total(heap') \in Nat
    BY <2>2, SizesType DEF Inv
  <2>5. CASE pc = "idle"
    <3>1. live' - Total(heap') = live - Total(heap)
      BY <2>2, <2>5, CallLedger DEF Balanced
    <3> QED BY <2>2, <2>3, <2>5, <3>1
  <2>6. CASE pc # "idle"
    <3>1. live' = Total(heap') + before.lost /\ before.lost \in Int
      BY <2>2, <2>6, CopyLedger DEF Ledger
    <3> QED BY <2>3, <2>4, <2>6, <3>1
  <2> QED BY <2>5, <2>6
<1>4. L
  BY IdleLost
<1> HIDE DEF L
<1> QED BY <1>1, <1>2, <1>3, <1>4, SpecIInv, PTL DEF Spec, SuccessLosesNothing

-----------------------------------------------------------------------------
(* What values say.                                                        *)

\* g[n] is what n says, for all values of h.
IsSaid(h, g) == g = [m \in DOMAIN h |-> Content(h[m], g)]
Says(h) == CHOOSE g : IsSaid(h, g)

LEMMA MeaningIs == \A n : Meaning(n) = Says(heap)[n]
BY DEF Meaning, Says, IsSaid

LEMMA SameContent ==
  ASSUME NEW v \in ValueSet, NEW g, NEW w,
         \A k \in DOMAIN Slots(v) : g[Slots(v)[k]] = w[Slots(v)[k]]
  PROVE  Content(v, g) = Content(v, w)
<1>1. v.kind \in {"scalar", "str", "arr", "obj"}
  BY DEF ValueSet, ScalarSet, StringSet, ArraySet, ObjectSet
<1>2. CASE v.kind \in {"scalar", "str"}
  BY <1>2 DEF Content
<1>3. CASE v.kind = "arr"
  <2>1. [k \in DOMAIN v.values |-> g[v.values[k]]] = [k \in DOMAIN v.values |-> w[v.values[k]]]
    BY <1>3, Kinds
  <2> QED BY <1>3, <2>1 DEF Content
<1>4. CASE v.kind = "obj"
  <2>1. \A k \in DOMAIN v.entries : g[v.entries[k].value] = w[v.entries[k].value]
    BY <1>4, Kinds
  <2>2. [k \in DOMAIN v.entries |-> <<v.entries[k].key, g[v.entries[k].value]>>]
          = [k \in DOMAIN v.entries |-> <<v.entries[k].key, w[v.entries[k].value]>>]
    BY <2>1
  <2> QED BY <1>4, <2>2 DEF Content
<1> QED BY <1>1, <1>2, <1>3, <1>4

\* There is a g as the definition of Meaning asks for: of all closed sets of
\* values that have one the largest has all values.
LEMMA SaysIsSaid ==
  ASSUME NEW h, Memory(h), NEW tops, Forest(Kids(h), tops)
  PROVE  IsSaid(h, Says(h))
<1> DEFINE D == DOMAIN h
           kids == Kids(h)
           Solves(R, g) == \A m \in D \ R : g[m] = Content(h[m], g)
           Left == {R \in SUBSET D : Closed(kids, D \ R) /\ \E g : Solves(R, g)}
<1>1. /\ IsFiniteSet(D) /\ DOMAIN kids = D /\ \A m \in D : h[m] \in ValueSet /\ kids[m] = Slots(h[m])
  BY KidsIs DEF Memory, Value
<1>2. Acyclic(kids) /\ \A m \in D : \A k \in DOMAIN kids[m] : kids[m][k] \in D
  BY <1>1 DEF Forest, Inside
<1> HIDE DEF D, kids
<1>3. D \in Left
  BY DEF Closed
<1>4. PICK R \in Left : \A P \in Left : ~(P \subseteq R /\ P # R)
  <2>1. Left \subseteq FiniteSubsetsOf(D)
    BY <1>1, FS_Subset DEF FiniteSubsetsOf
  <2>2. PICK R \in Left : \A P \in Left : ~(<<P, R>> \in StrictSubsetOrdering(D))
    <3> HIDE DEF Left
    <3> QED BY <1>3, <2>1, FS_StrictSubsetOrderingWellFounded, WFMin
  <2> QED BY <2>2 DEF StrictSubsetOrdering
<1>5. PICK g : Solves(R, g)
  BY <1>4
<1>6. ASSUME R # {} PROVE FALSE
  <2>1. PICK n \in R : \A k \in DOMAIN kids[n] : kids[n][k] \notin R
    BY <1>1, <1>2, <1>6 DEF Acyclic
  <2>2. n \in D /\ \A k \in DOMAIN kids[n] : kids[n][k] \in D \ R
    BY <1>2, <2>1
  <2>3. \A m \in D \ R : \A k \in DOMAIN kids[m] : kids[m][k] \in D \ R
    BY DEF Closed
  <2> DEFINE P == R \ {n}
             w == [m \in D |-> IF m = n THEN Content(h[n], g) ELSE g[m]]
  <2>4. ASSUME NEW m \in D \ P PROVE w[m] = Content(h[m], w)
    <3>1. \A k \in DOMAIN Slots(h[m]) : Slots(h[m])[k] \in D /\ Slots(h[m])[k] # n
      BY <1>1, <2>1, <2>2, <2>3
    <3>2. w[m] = Content(h[m], g)
      BY <1>5
    <3>3. \A k \in DOMAIN Slots(h[m]) : g[Slots(h[m])[k]] = w[Slots(h[m])[k]]
      BY <3>1
    <3> HIDE DEF w
    <3>4. Content(h[m], g) = Content(h[m], w)
      BY <1>1, <3>3, SameContent
    <3> QED BY <3>2, <3>4
  <2>5. Closed(kids, D \ P)
    BY <2>2, <2>3 DEF Closed
  <2> HIDE DEF w
  <2>6. Solves(P, w)
    BY <2>4
  <2>7. P \in Left
    <3> HIDE DEF Solves
    <3> QED BY <2>5, <2>6
  <2> QED BY <1>4, <2>1, <2>7
<1>7. \A m \in D : g[m] = Content(h[m], g)
  BY <1>5, <1>6
<1> DEFINE w == [m \in D |-> g[m]]
<1>8. \A m \in D : Content(h[m], g) = Content(h[m], w)
  <2> SUFFICES ASSUME NEW m \in D PROVE Content(h[m], g) = Content(h[m], w)
    OBVIOUS
  <2>1. \A k \in DOMAIN Slots(h[m]) : g[Slots(h[m])[k]] = w[Slots(h[m])[k]]
    BY <1>1, <1>2
  <2> HIDE DEF w
  <2> QED BY <1>1, <2>1, SameContent
<1>9. \A m \in D : w[m] = Content(h[m], w)
  BY <1>7, <1>8
<1>10. w = [m \in D |-> Content(h[m], w)]
  BY <1>9
<1>11. IsSaid(h, w)
  BY <1>10 DEF IsSaid, D
<1> HIDE DEF w
<1> QED BY <1>11 DEF Says

\* What n says does not depend on what is not below it.
LEMMA SaysTheSame ==
  ASSUME NEW h, Memory(h), NEW tops, Forest(Kids(h), tops), NEW new, NEW others,
         Memory(new), Forest(Kids(new), others),
         NEW T, T \subseteq DOMAIN h, T \subseteq DOMAIN new, Closed(Kids(h), T),
         \A m \in T : new[m] = h[m]
  PROVE  \A m \in T : Says(new)[m] = Says(h)[m]
<1> DEFINE S == {m \in T : Says(new)[m] # Says(h)[m]}
<1>1. Says(h) = [m \in DOMAIN h |-> Content(h[m], Says(h))]
  BY SaysIsSaid DEF IsSaid
<1>2. Says(new) = [m \in DOMAIN new |-> Content(new[m], Says(new))]
  BY SaysIsSaid DEF IsSaid
<1>3. \A m \in T : /\ Says(h)[m] = Content(h[m], Says(h))
                   /\ Says(new)[m] = Content(h[m], Says(new))
  BY <1>1, <1>2
<1>4. ASSUME S # {} PROVE FALSE
  <2>1. PICK m \in S : \A k \in DOMAIN Kids(h)[m] : Kids(h)[m][k] \notin S
    <3>1. S \in SUBSET DOMAIN Kids(h)
      BY KidsIs
    <3> QED BY <1>4, <3>1 DEF Forest, Acyclic
  <2>2. h[m] \in ValueSet /\ Kids(h)[m] = Slots(h[m])
    BY KidsIs DEF Memory, Value
  <2>3. \A k \in DOMAIN Slots(h[m]) : Says(new)[Slots(h[m])[k]] = Says(h)[Slots(h[m])[k]]
    BY <2>1, <2>2 DEF Closed
  <2>4. Content(h[m], Says(new)) = Content(h[m], Says(h))
    BY <2>2, <2>3, SameContent
  <2> QED BY <1>3, <2>4
<1> QED BY <1>4

-----------------------------------------------------------------------------
(* Copies of the entries of an object.                                     *)

\* The entries c are the first i of o, in some order, and what they hold says
\* the same.
HalfCopy(c, o, i, g) ==
  \E p \in [1 .. i -> 1 .. i] :
    /\ \A j, k \in 1 .. i : p[j] = p[k] => j = k
    /\ \A k \in 1 .. i : c[k].key = o[p[k]].key /\ g[c[k].value] = g[o[p[k]].value]

LEMMA HalfSame ==
  ASSUME NEW c, NEW o, NEW i \in Nat, NEW g, NEW w, HalfCopy(c, o, i, g),
         \A k \in 1 .. i : w[c[k].value] = g[c[k].value] /\ w[o[k].value] = g[o[k].value]
  PROVE  HalfCopy(c, o, i, w)
<1>1. PICK p \in [1 .. i -> 1 .. i] :
        /\ \A j, k \in 1 .. i : p[j] = p[k] => j = k
        /\ \A k \in 1 .. i : c[k].key = o[p[k]].key /\ g[c[k].value] = g[o[p[k]].value]
  BY DEF HalfCopy
<1>2. \A k \in 1 .. i : p[k] \in 1 .. i
  BY <1>1
<1>3. \A k \in 1 .. i : c[k].key = o[p[k]].key /\ w[c[k].value] = w[o[p[k]].value]
  BY <1>1, <1>2
<1> QED BY <1>1, <1>3 DEF HalfCopy

LEMMA HalfGrows ==
  ASSUME NEW S, NEW c \in Seq(S), NEW o, NEW i \in Nat, NEW g, HalfCopy(c, o, i, g), Len(c) = i,
         NEW e, NEW place \in 1 .. i + 1, NEW d, IsPut(S, c, place, e, d),
         e.key = o[i + 1].key, g[e.value] = g[o[i + 1].value]
  PROVE  HalfCopy(d, o, i + 1, g)
<1>1. PICK p \in [1 .. i -> 1 .. i] :
        /\ \A j, k \in 1 .. i : p[j] = p[k] => j = k
        /\ \A k \in 1 .. i : c[k].key = o[p[k]].key /\ g[c[k].value] = g[o[p[k]].value]
  BY DEF HalfCopy
<1> DEFINE q == [k \in 1 .. i + 1 |-> IF k < place THEN p[k] ELSE IF k = place THEN i + 1 ELSE p[k - 1]]
<1>2. ASSUME NEW k \in 1 .. i + 1
      PROVE  \/ k < place /\ k \in 1 .. i /\ q[k] = p[k] /\ d[k] = c[k]
             \/ k = place /\ q[k] = i + 1 /\ d[k] = e
             \/ k > place /\ k - 1 \in 1 .. i /\ q[k] = p[k - 1] /\ d[k] = c[k - 1]
  <2>1. d[k] = IF k < place THEN c[k] ELSE IF k = place THEN e ELSE c[k - 1]
    BY DEF IsPut
  <2>2. CASE k < place
    BY <2>1, <2>2
  <2>3. CASE k = place
    BY <2>1, <2>3
  <2>4. CASE k > place
    BY <2>1, <2>4
  <2> QED BY <2>2, <2>3, <2>4
<1>3. \A k \in 1 .. i : p[k] \in 1 .. i
  BY <1>1
<1>4. q \in [1 .. i + 1 -> 1 .. i + 1]
  <2>1. \A k \in 1 .. i + 1 : q[k] \in 1 .. i + 1
    <3> HIDE DEF q
    <3> QED BY <1>2, <1>3
  <2> QED BY <2>1
<1> HIDE DEF q
<1>5. ASSUME NEW j \in 1 .. i + 1, NEW k \in 1 .. i + 1, q[j] = q[k] PROVE j = k
  <2>1. CASE j = place \/ k = place
    BY <1>2, <1>3, <1>5, <2>1
  <2>2. CASE j # place /\ k # place
    <3>1. PICK x \in 1 .. i : q[j] = p[x] /\ ((j < place /\ x = j) \/ (j > place /\ x = j - 1))
      BY <1>2, <2>2
    <3>2. PICK y \in 1 .. i : q[k] = p[y] /\ ((k < place /\ y = k) \/ (k > place /\ y = k - 1))
      BY <1>2, <2>2
    <3>3. p[x] = p[y]
      BY <1>5, <3>1, <3>2
    <3>4. x = y
      BY <1>1, <3>3, Zenon
    <3> QED BY <3>1, <3>2, <3>4
  <2> QED BY <2>1, <2>2
<1>6. ASSUME NEW k \in 1 .. i + 1 PROVE d[k].key = o[q[k]].key /\ g[d[k].value] = g[o[q[k]].value]
  <2>1. CASE k = place
    <3>1. d[k] = e /\ q[k] = i + 1
      BY <1>2, <2>1
    <3> QED BY <3>1
  <2>2. CASE k # place
    <3>1. PICK x \in 1 .. i : d[k] = c[x] /\ q[k] = p[x]
      BY <1>2, <2>2
    <3> QED BY <1>1, <3>1
  <2> QED BY <2>1, <2>2
<1> QED BY <1>4, <1>5, <1>6 DEF HalfCopy

\* Fields in another order are the same bag.
Shuffled(N, p, f, h) ==
  /\ N \in Nat /\ DOMAIN f = 1 .. N /\ DOMAIN h = 1 .. N
  /\ p \in [1 .. N -> 1 .. N] /\ \A j, k \in 1 .. N : p[j] = p[k] => j = k
  /\ \A k \in 1 .. N : f[k] = h[p[k]]

LEMMA SameBag ==
  ASSUME NEW N, NEW p, NEW f, NEW h, Shuffled(N, p, f, h)
  PROVE  Counted(f) = Counted(h)
<1>0. /\ N \in Nat /\ DOMAIN f = 1 .. N /\ DOMAIN h = 1 .. N
      /\ p \in [1 .. N -> 1 .. N] /\ \A j, k \in 1 .. N : p[j] = p[k] => j = k
      /\ \A k \in 1 .. N : f[k] = h[p[k]]
  BY DEF Shuffled
<1>1. \A k \in 1 .. N : \E j \in 1 .. N : p[j] = k
  <2>1. IsFiniteSet(1 .. N)
    BY <1>0, FS_Interval
  <2>2. p \in Injection(1 .. N, 1 .. N)
    BY <1>0 DEF Injection, IsInjective
  <2>3. p \in Surjection(1 .. N, 1 .. N)
    BY <2>1, <2>2, FS_Injection
  <2> QED BY <2>3 DEF Surjection
<1>2. \A k \in 1 .. N : p[k] \in 1 .. N
  BY <1>0
<1>3. ToSet(f) = ToSet(h)
  <2>1. ASSUME NEW x \in ToSet(f) PROVE x \in ToSet(h)
    <3>1. PICK k \in 1 .. N : x = f[k]
      BY <1>0 DEF ToSet
    <3>2. p[k] \in DOMAIN h /\ x = h[p[k]]
      BY <1>0, <1>2, <3>1
    <3> QED BY <3>2 DEF ToSet
  <2>2. ASSUME NEW x \in ToSet(h) PROVE x \in ToSet(f)
    <3>1. PICK k \in 1 .. N : x = h[k]
      BY <1>0 DEF ToSet
    <3>2. PICK j \in 1 .. N : p[j] = k
      BY <1>1
    <3>3. j \in DOMAIN f /\ x = f[j]
      BY <1>0, <3>1, <3>2
    <3> QED BY <3>3 DEF ToSet
  <2> QED BY <2>1, <2>2
<1>4. ASSUME NEW x \in ToSet(f)
      PROVE  Cardinality({k \in DOMAIN f : f[k] = x}) = Cardinality({k \in DOMAIN h : h[k] = x})
  <2> DEFINE A == {k \in 1 .. N : f[k] = x}
             B == {k \in 1 .. N : h[k] = x}
             q == [k \in A |-> p[k]]
  <2>1. IsFiniteSet(A)
    BY <1>0, FS_Interval, FS_Subset
  <2>2. q \in [A -> B]
    BY <1>0, <1>2
  <2>3. \A y \in B : \E k \in A : q[k] = y
    BY <1>0, <1>1
  <2>4. \A j, k \in A : q[j] = q[k] => j = k
    BY <1>0
  <2>5. q \in Bijection(A, B)
    <3> HIDE DEF q, A, B
    <3> QED BY <2>2, <2>3, <2>4 DEF Bijection, Injection, Surjection, IsInjective
  <2> HIDE DEF q, A, B
  <2>6. Cardinality(B) = Cardinality(A)
    BY <2>1, <2>5, FS_Bijection, Zenon DEF ExistsBijection
  <2> QED BY <1>0, <2>6 DEF A, B
<1> QED BY <1>3, <1>4 DEF Counted

\* When all entries are copied the copy says the same.
LEMMA CopySays ==
  ASSUME NEW v \in ObjectSet, NEW u \in ObjectSet, NEW g,
         Len(v.entries) = Len(u.entries), HalfCopy(v.entries, u.entries, Len(u.entries), g)
  PROVE  Content(v, g) = Content(u, g)
<1>1. PICK c, o, N : c = v.entries /\ o = u.entries /\ N = Len(u.entries)
  OBVIOUS
<1>2. /\ N \in Nat /\ DOMAIN c = 1 .. N /\ DOMAIN o = 1 .. N
      /\ v.kind = "obj" /\ u.kind = "obj"
  BY <1>1 DEF ObjectSet
<1>3. PICK p \in [1 .. N -> 1 .. N] :
        /\ \A j, k \in 1 .. N : p[j] = p[k] => j = k
        /\ \A k \in 1 .. N : c[k].key = o[p[k]].key /\ g[c[k].value] = g[o[p[k]].value]
  BY <1>1 DEF HalfCopy
<1>4. PICK f, h : /\ f = [k \in DOMAIN c |-> <<c[k].key, g[c[k].value]>>]
                  /\ h = [k \in DOMAIN o |-> <<o[k].key, g[o[k].value]>>]
  OBVIOUS
<1>5. \A k \in 1 .. N : f[k] = h[p[k]]
  BY <1>2, <1>3, <1>4
<1>6. DOMAIN f = 1 .. N /\ DOMAIN h = 1 .. N
  BY <1>2, <1>4
<1>7. Shuffled(N, p, f, h)
  BY <1>2, <1>3, <1>5, <1>6 DEF Shuffled
<1>8. Content(v, g) = <<"obj", Counted(f)>> /\ Content(u, g) = <<"obj", Counted(h)>>
  BY <1>1, <1>2, <1>4 DEF Content
<1> QED BY <1>7, <1>8, SameBag

-----------------------------------------------------------------------------
(* What json_copy has made so far is faithful.                             *)

\* What the f-th call of json_copy copies.
Argument(f) ==
  IF f = 1 THEN source ELSE heap[stack[f - 1].object].entries[stack[f - 1].i + 1].value

\* The call of duplicate_object with this frame copies n, and has the first
\* entries of it.
Fine(frame, n, keyed, h, g) ==
  /\ frame.kind = "obj" /\ frame.object = n
  /\ keyed => frame.key = h[n].entries[frame.i + 1].key
  /\ HalfCopy(h[frame.copy].entries, h[n].entries, frame.i, g)

GoesRight ==
  /\ \A f \in 1 .. Len(stack) :
       Fine(stack[f], Argument(f), f < Len(stack) \/ pc # "loop", heap, Says(heap))
  /\ pc = "copy" => at = Argument(Len(stack) + 1)
  /\ pc = "return" /\ ret # NULL => Says(heap)[ret] = Says(heap)[Argument(Len(stack) + 1)]

Faithful ==
  /\ failures \in Int /\ before.failures \in Int
  /\ pc = "idle" /\ source # NULL /\ ret # NULL /\ failures = before.failures =>
       Says(heap)[ret] = Says(heap)[source]
  /\ pc # "idle" => before.failures <= failures /\ (failures = before.failures => GoesRight)

FInv == pc # "aborted" => Faithful

LEMMA FrameIn ==
  ASSUME Inv, NEW S, Source(S), NEW f \in 1 .. Len(stack), stack[f].kind = "obj"
  PROVE  /\ f \in CopyFrames /\ stack[f].i \in Nat
         /\ stack[f].object \in S /\ stack[f].copy \in DOMAIN heap /\ stack[f].copy \in Copies
         /\ heap[stack[f].object] \in ObjectSet /\ heap[stack[f].copy] \in ObjectSet
         /\ Len(heap[stack[f].copy].entries) = stack[f].i
         /\ stack[f].i <= Len(heap[stack[f].object].entries)
         /\ \A k \in 1 .. stack[f].i :
              \E j \in DOMAIN Kids(heap)[stack[f].copy] :
                heap[stack[f].copy].entries[k].value = Kids(heap)[stack[f].copy][j]
         /\ \A k \in 1 .. Len(heap[stack[f].object].entries) :
              heap[stack[f].object].entries[k].value \in S
<1>1. f \in CopyFrames /\ stack[f] \in ObjectFrame
  BY FrameFacts DEF CopyFrames
<1>2. PICK o, c, i : o = stack[f].object /\ c = stack[f].copy /\ i = stack[f].i
  OBVIOUS
<1>3. o \in S /\ o \in DOMAIN heap /\ c \in DOMAIN heap /\ c \in Copies /\ i \in Nat
  BY <1>1, <1>2, SourceFacts DEF ObjectFrame
<1>4. /\ heap[o].kind = "obj" /\ heap[c].kind = "obj"
      /\ Len(heap[c].entries) = i /\ i <= Len(heap[o].entries)
  BY <1>1, <1>2 DEF Inv, Progress
<1>5. ASSUME NEW n \in {o, c}
      PROVE  /\ heap[n] \in ObjectSet /\ heap[n].entries \in Seq(Entry) /\ n \in DOMAIN heap
             /\ Kids(heap)[n] = Slots(heap[n])
             /\ Slots(heap[n]) = [k \in DOMAIN heap[n].entries |-> heap[n].entries[k].value]
  <2>1. n \in DOMAIN heap /\ heap[n] \in ValueSet /\ heap[n].kind = "obj"
    BY <1>3, <1>4, OwnedFacts
  <2> QED BY <2>1, Kinds, KidsIs
<1>6. ASSUME NEW k \in 1 .. i
      PROVE  \E j \in DOMAIN Kids(heap)[c] : heap[c].entries[k].value = Kids(heap)[c][j]
  <2>1. k \in DOMAIN heap[c].entries
    BY <1>4, <1>5
  <2> QED BY <1>5, <2>1
<1>7. ASSUME NEW k \in 1 .. Len(heap[o].entries) PROVE heap[o].entries[k].value \in S
  <2>1. k \in DOMAIN heap[o].entries
    BY <1>5
  <2>2. k \in DOMAIN Slots(heap[o]) /\ heap[o].entries[k].value = Slots(heap[o])[k]
    BY <1>5, <2>1
  <2> QED BY <1>3, <2>2, SourceFacts
<1> QED BY <1>1, <1>2, <1>3, <1>4, <1>5, <1>6, <1>7

LEMMA KeepArgument ==
  ASSUME Inv, NEW S, Source(S), NEW f \in 1 .. Len(stack) + 1,
         f # 1 => /\ stack[f - 1].kind = "obj" /\ stack'[f - 1].object = stack[f - 1].object
                  /\ stack'[f - 1].i = stack[f - 1].i,
         source' = source, \A m \in S : heap'[m] = heap[m]
  PROVE  Argument(f)' = Argument(f)
<1>1. CASE f = 1
  BY <1>1 DEF Argument
<1>2. CASE f # 1
  <2>1. f - 1 \in 1 .. Len(stack)
    BY <1>2, FrameFacts
  <2>2. stack[f - 1].object \in S
    BY <1>2, <2>1, FrameIn
  <2> QED BY <1>2, <2>2 DEF Argument
<1> QED BY <1>1, <1>2

\* What a step leaves as it is, and says the same.
Kept(T) ==
  /\ T \subseteq DOMAIN heap /\ Closed(Kids(heap), T)
  /\ \A m \in T : heap'[m] = heap[m] /\ Says(heap')[m] = Says(heap)[m]

LEMMA KeepFine ==
  ASSUME Inv, NEW S, Source(S), GoesRight, NEW T, Kept(T), S \subseteq T, source' = source,
         NEW f \in 1 .. Len(stack), f < Len(stack) \/ pc # "loop",
         stack[f].copy \in T, stack'[f] = stack[f], f # 1 => stack'[f - 1] = stack[f - 1]
  PROVE  \A keyed : Fine(stack'[f], Argument(f)', keyed, heap', Says(heap'))
<1>1. Fine(stack[f], Argument(f), TRUE, heap, Says(heap))
  BY DEF GoesRight
<1>2. stack[f].kind = "obj" /\ stack[f].object = Argument(f)
  BY <1>1 DEF Fine
<1>3. Argument(f)' = Argument(f)
  <2>1. f # 1 => stack[f - 1].kind = "obj"
    <3>1. f # 1 => f - 1 \in 1 .. Len(stack)
      BY FrameFacts
    <3> QED BY <3>1 DEF GoesRight, Fine
  <2>2. \A m \in S : heap'[m] = heap[m]
    BY DEF Kept
  <2>3. f \in 1 .. Len(stack) + 1
    BY FrameFacts
  <2> QED BY <2>1, <2>2, <2>3, KeepArgument
<1>4. PICK frame, n, c, g, w : /\ frame = stack[f] /\ n = Argument(f) /\ c = stack[f].copy
                               /\ g = Says(heap) /\ w = Says(heap')
  OBVIOUS
<1>5. n \in S /\ n \in T /\ c \in T
  BY <1>2, <1>4, FrameIn
<1>6. heap'[n] = heap[n] /\ heap'[c] = heap[c]
  BY <1>5 DEF Kept
<1>7. /\ frame.i \in Nat
      /\ \A k \in 1 .. frame.i : heap[c].entries[k].value \in T /\ heap[n].entries[k].value \in T
  <2>1. /\ stack[f].i \in Nat /\ stack[f].i <= Len(heap[n].entries)
        /\ heap[n] \in ObjectSet
        /\ \A k \in 1 .. stack[f].i :
              \E j \in DOMAIN Kids(heap)[c] : heap[c].entries[k].value = Kids(heap)[c][j]
        /\ \A k \in 1 .. Len(heap[n].entries) : heap[n].entries[k].value \in S
    BY <1>2, <1>4, FrameIn
  <2>2. Len(heap[n].entries) \in Nat
    BY <2>1 DEF ObjectSet
  <2>3. \A k \in 1 .. frame.i : k \in 1 .. Len(heap[n].entries)
    BY <1>4, <2>1, <2>2
  <2> QED BY <1>4, <1>5, <2>1, <2>3 DEF Kept, Closed
<1>8. \A m \in T : w[m] = g[m]
  BY <1>4 DEF Kept
<1>9. PICK a, b : a = heap[c].entries /\ b = heap[n].entries
  OBVIOUS
<1>10. HalfCopy(a, b, frame.i, g) /\ frame.kind = "obj" /\ frame.object = n
       /\ frame.key = b[frame.i + 1].key
  BY <1>1, <1>4, <1>9 DEF Fine
<1>11. HalfCopy(a, b, frame.i, w)
  <2>1. \A k \in 1 .. frame.i : w[a[k].value] = g[a[k].value] /\ w[b[k].value] = g[b[k].value]
    BY <1>7, <1>8, <1>9
  <2> QED BY <1>7, <1>10, <2>1, HalfSame
<1>12. \A keyed : Fine(frame, n, keyed, heap', w)
  BY <1>4, <1>6, <1>9, <1>10, <1>11 DEF Fine
<1> QED BY <1>3, <1>4, <1>12

LEMMA SameKept == ASSUME Inv, heap' = heap PROVE Kept(DOMAIN heap)
BY OwnedFacts DEF Kept, Closed, Inside

LEMMA NewKept ==
  ASSUME Inv, Inv', DOMAIN heap \subseteq DOMAIN heap', \A m \in DOMAIN heap : heap'[m] = heap[m]
  PROVE  Kept(DOMAIN heap)
<1>1. PICK h, new : h = heap /\ new = heap'
  OBVIOUS
<1>2. PICK tops, others : tops = Tops /\ others = Tops'
  OBVIOUS
<1>3. Memory(h) /\ Forest(Kids(h), tops) /\ Memory(new) /\ Forest(Kids(new), others)
  BY <1>1, <1>2 DEF Inv
<1>4. Closed(Kids(h), DOMAIN h)
  BY <1>1, OwnedFacts DEF Closed, Inside
<1>5. \A m \in DOMAIN h : Says(new)[m] = Says(h)[m]
  <2>1. DOMAIN h \subseteq DOMAIN new /\ \A m \in DOMAIN h : new[m] = h[m]
    BY <1>1
  <2> QED BY <1>3, <1>4, <2>1, SaysTheSame
<1> QED BY <1>1, <1>4, <1>5 DEF Kept

LEMMA BeginCopyFaithful == ASSUME Inv, Faithful, NEW n, Copy(n) PROVE Faithful'
<1>1. /\ pc = "idle" /\ pc' = "copy" /\ at' = n /\ source' = n /\ stack' = stack /\ failures' = failures
      /\ before'.failures = failures
  BY DEF Copy, Call
<1>2. stack' = <<>> /\ Len(stack') = 0
  BY <1>1, Idle
<1>3. GoesRight'
  BY <1>1, <1>2 DEF GoesRight, Argument
<1> QED BY <1>1, <1>3 DEF Faithful

\* When an allocation fails in it json_copy need not be faithful.
LEMMA FailFaithful ==
  ASSUME Faithful, pc # "idle", Fail, before' = before, pc' # "idle"
  PROVE  Faithful'
BY DEF Faithful, Fail

\* A step of json_copy that fails no allocation.
LEMMA StepFaithful ==
  ASSUME Faithful, pc # "idle", pc' # "idle", failures' = failures, before' = before,
         GoesRight => GoesRight'
  PROVE  Faithful'
BY DEF Faithful

\* All frames stay, and what they refer to.
LEMMA SameFrames ==
  ASSUME Inv, Inv', NEW S, Source(S), GoesRight, pc = "copy", source' = source, stack' = stack,
         DOMAIN heap \subseteq DOMAIN heap', \A m \in DOMAIN heap : heap'[m] = heap[m]
  PROVE  /\ \A f \in 1 .. Len(stack) :
              \A keyed : Fine(stack'[f], Argument(f)', keyed, heap', Says(heap'))
         /\ Argument(Len(stack) + 1)' = Argument(Len(stack) + 1)
<1>1. Kept(DOMAIN heap) /\ S \subseteq DOMAIN heap /\ Len(stack) \in Nat
  BY NewKept, FrameFacts DEF Source, Separate
<1>2. \A f \in 1 .. Len(stack) : stack[f].kind = "obj"
  BY DEF GoesRight, Fine
<1>3. ASSUME NEW f \in 1 .. Len(stack)
      PROVE  \A keyed : Fine(stack'[f], Argument(f)', keyed, heap', Says(heap'))
  <2>1. stack[f].copy \in DOMAIN heap
    BY <1>2, FrameIn
  <2> QED BY <1>1, <2>1, KeepFine
<1>4. Argument(Len(stack) + 1)' = Argument(Len(stack) + 1)
  <2>1. PICK f : f = Len(stack) + 1
    OBVIOUS
  <2>2. f \in 1 .. Len(stack) + 1 /\ (f # 1 => f - 1 \in 1 .. Len(stack))
    BY <1>1, <2>1
  <2>3. \A m \in S : heap'[m] = heap[m]
    BY <1>1
  <2>4. Argument(f)' = Argument(f)
    BY <1>2, <2>2, <2>3, KeepArgument
  <2>5. stack' = stack
    OBVIOUS
  <2> QED BY <2>1, <2>4 DEF Argument
<1> QED BY <1>3, <1>4

LEMMA NothingCopiedFaithful ==
  ASSUME Inv, Inv', Faithful, pc = "copy", pc' = "return", ret' = NULL, heap' = heap, stack' = stack,
         source' = source, failures' = failures, before' = before
  PROVE  Faithful'
<1> SUFFICES ASSUME GoesRight PROVE GoesRight'
  BY StepFaithful
<1>1. PICK S \in SUBSET DOMAIN heap : Source(S)
  BY DEF Inv
<1>2. \A f \in 1 .. Len(stack) : \A keyed : Fine(stack'[f], Argument(f)', keyed, heap', Says(heap'))
  BY <1>1, SameFrames
<1> QED BY <1>2 DEF GoesRight

LEMMA LeafCopiedFaithful ==
  ASSUME Inv, Inv', Faithful, pc = "copy", heap[at].kind \in {"scalar", "str"}, Make(heap[at]),
         pc' = "return", ret' = NewNode, stack' = stack,
         source' = source, failures' = failures, before' = before
  PROVE  Faithful'
<1> SUFFICES ASSUME GoesRight PROVE GoesRight'
  BY StepFaithful
<1>1. PICK S \in SUBSET DOMAIN heap : Source(S)
  BY DEF Inv
<1>2. PICK n : n = NewNode
  OBVIOUS
<1>3. PICK a, v : a = at /\ v = heap[at]
  OBVIOUS
<1>4. a \in DOMAIN heap /\ v = heap[a] /\ v \in ValueSet /\ v.kind \in {"scalar", "str"}
  BY <1>1, <1>3, OwnedFacts DEF Source
<1>5. n \notin DOMAIN heap
  BY <1>2, NewNodeIs DEF Make, Unused
<1>6. DOMAIN heap' = DOMAIN heap \cup {n} /\ heap'[n] = v /\ \A m \in DOMAIN heap : heap'[m] = heap[m]
  BY <1>2, <1>3, <1>5 DEF Make
<1>7. /\ \A f \in 1 .. Len(stack) :
           \A keyed : Fine(stack'[f], Argument(f)', keyed, heap', Says(heap'))
      /\ Argument(Len(stack) + 1)' = Argument(Len(stack) + 1)
  BY <1>1, <1>6, SameFrames
<1>8. Says(heap')[n] = Says(heap')[a]
  <2>1. PICK h, tops : h = heap' /\ tops = Tops'
    OBVIOUS
  <2>2. IsSaid(h, Says(h))
    BY <2>1, SaysIsSaid DEF Inv
  <2>3. PICK g : g = Says(h)
    OBVIOUS
  <2>4. g = [m \in DOMAIN h |-> Content(h[m], g)]
    BY <2>2, <2>3 DEF IsSaid
  <2>5. g[n] = Content(v, g) /\ g[a] = Content(v, g)
    BY <1>4, <1>6, <2>1, <2>4
  <2> QED BY <2>1, <2>3, <2>5
<1>9. a = Argument(Len(stack) + 1)
  BY <1>3 DEF GoesRight
<1>10. \A f \in 1 .. Len(stack') :
         Fine(stack'[f], Argument(f)', f < Len(stack') \/ pc' # "loop", heap', Says(heap'))
  BY <1>7
<1>11. Says(heap')[ret'] = Says(heap')[Argument(Len(stack) + 1)']
  BY <1>2, <1>7, <1>8, <1>9
<1> QED BY <1>10, <1>11 DEF GoesRight

LEMMA CopyLeafFaithful == ASSUME Inv, Inv', Faithful, CopyLeaf PROVE Faithful'
<1>1. pc = "copy" /\ pc' = "return" /\ source' = source /\ before' = before /\ stack' = stack
  BY DEF CopyLeaf, Return
<1>2. CASE Fail
  BY <1>1, <1>2, FailFaithful
<1>3. CASE ~Fail
  BY <1>1, <1>3, NothingCopiedFaithful, LeafCopiedFaithful DEF CopyLeaf, Return, memory
<1> QED BY <1>2, <1>3

LEMMA CopyArrayFaithful == ASSUME Inv, Inv', Faithful, CopyArray PROVE Faithful'
<1>1. /\ pc = "copy" /\ pc' \in {"return", "copy"} /\ heap' = heap
      /\ source' = source /\ before' = before
  BY DEF CopyArray, Return
<1>2. CASE Fail
  BY <1>1, <1>2, FailFaithful
<1>3. CASE ~Fail
  BY <1>1, <1>3, NothingCopiedFaithful DEF CopyArray, Return
<1> QED BY <1>2, <1>3

\* There are no calls of duplicate_array under way when no allocation failed.
LEMMA EndArrayFaithful == ASSUME Inv, Faithful, EndArray PROVE Faithful'
<1>1. /\ pc = "return" /\ pc' = "return" /\ stack # <<>> /\ Top.kind = "arr"
      /\ failures' = failures /\ before' = before
  BY DEF EndArray, Return
<1>2. ~GoesRight
  <2>1. Len(stack) \in 1 .. Len(stack)
    BY <1>1, FrameFacts
  <2> QED BY <1>1, <2>1 DEF GoesRight, Fine, Top
<1> QED BY <1>1, <1>2, StepFaithful

LEMMA EndCopyFaithful == ASSUME Inv, Faithful, EndCopy PROVE Faithful'
<1>1. /\ pc = "return" /\ pc' = "idle" /\ stack = <<>> /\ heap' = heap /\ ret' = ret /\ source' = source
      /\ failures' = failures /\ before' = before
  BY DEF EndCopy, memory
<1>2. Len(stack) + 1 = 1
  BY <1>1
<1>3. Argument(1) = source
  BY DEF Argument
<1>4. GoesRight /\ ret # NULL => Says(heap)[ret] = Says(heap)[source]
  BY <1>1, <1>2, <1>3 DEF GoesRight
<1>5. Says(heap') = Says(heap)
  BY <1>1
<1> QED BY <1>1, <1>4, <1>5 DEF Faithful

LEMMA CopyObjectFaithful == ASSUME Inv, Inv', Faithful, CopyObject PROVE Faithful'
<1>1. pc = "copy" /\ heap[at].kind = "obj" /\ source' = source /\ before' = before
  BY DEF CopyObject
<1>2. CASE Fail
  BY <1>1, <1>2, FailFaithful DEF CopyObject, Return
<1>3. CASE ~Fail
  <2>1. /\ Make(ObjectOf(CopyTable(heap[at]), <<>>))
        /\ Push([kind |-> "obj", object |-> at, copy |-> NewNode, i |-> 0, key |-> NULL])
        /\ pc' = "loop" /\ failures' = failures
    BY <1>3 DEF CopyObject
  <2> SUFFICES ASSUME GoesRight PROVE GoesRight'
    BY <1>1, <2>1, StepFaithful
  <2>2. PICK S \in SUBSET DOMAIN heap : Source(S)
    BY DEF Inv
  <2>3. PICK a, n, frame, N :
          /\ a = at /\ n = NewNode /\ N = Len(stack)
          /\ frame = [kind |-> "obj", object |-> a, copy |-> n, i |-> 0, key |-> NULL]
    OBVIOUS
  <2>4. N \in Nat /\ DOMAIN stack = 1 .. N /\ stack \in Seq(FrameSet)
    BY <2>3, FrameFacts
  <2>5. /\ a \in DOMAIN heap /\ n \in Node /\ n \notin DOMAIN heap /\ DOMAIN heap \subseteq DOMAIN heap'
        /\ \A m \in DOMAIN heap : heap'[m] = heap[m]
    <3>1. a \in DOMAIN heap
      BY <1>1, <2>2, <2>3 DEF Source
    <3>2. n \in Node /\ n \notin DOMAIN heap
      BY <2>1, <2>3, NewNodeIs DEF Make, Unused
    <3> QED BY <2>1, <2>3, <3>1, <3>2 DEF Make
  <2>6. /\ Len(stack') = N + 1 /\ stack'[N + 1] = frame
        /\ \A k \in 1 .. N : stack'[k] = stack[k]
    <3>1. frame \in FrameSet
      <4>1. a \in Node
        BY <2>5, OwnedFacts
      <4> QED BY <2>3, <2>5, <4>1 DEF FrameSet, ObjectFrame, Dataless
    <3>2. stack' = Append(stack, frame)
      BY <2>1, <2>3 DEF Push
    <3> QED BY <2>3, <2>4, <3>1, <3>2, AppendProperties
  <2>7. Kept(DOMAIN heap)
    BY <2>5, NewKept
  <2>8. \A f \in 1 .. N : stack[f].kind = "obj" /\ stack[f].copy \in DOMAIN heap
    <3>1. \A f \in 1 .. Len(stack) : stack[f].kind = "obj"
      BY DEF GoesRight, Fine
    <3> QED BY <2>2, <2>3, <3>1, FrameIn
  <2>9. \A f \in 1 .. N + 1 : Argument(f)' = Argument(f)
    <3> SUFFICES ASSUME NEW f \in 1 .. N + 1 PROVE Argument(f)' = Argument(f)
      OBVIOUS
    <3>1. f # 1 => f - 1 \in 1 .. N
      BY <2>4
    <3>2. f \in 1 .. Len(stack) + 1 /\ \A m \in S : heap'[m] = heap[m]
      BY <2>3, <2>5
    <3> QED BY <1>1, <2>2, <2>6, <2>8, <3>1, <3>2, KeepArgument
  <2>10. ASSUME NEW f \in 1 .. N
         PROVE  \A keyed : Fine(stack'[f], Argument(f)', keyed, heap', Says(heap'))
    <3>1. f # 1 => f - 1 \in 1 .. N
      BY <2>4
    <3>2. f \in 1 .. Len(stack) /\ stack[f].copy \in DOMAIN heap
          /\ stack'[f] = stack[f] /\ (f # 1 => stack'[f - 1] = stack[f - 1])
      BY <2>3, <2>6, <2>8, <3>1
    <3>3. f < Len(stack) \/ pc # "loop"
      BY <1>1
    <3> QED BY <1>1, <2>2, <2>7, <3>2, <3>3, KeepFine
  <2>11. a = Argument(N + 1)
    BY <1>1, <2>3 DEF GoesRight
  <2>12. HalfCopy(heap'[n].entries, heap'[a].entries, 0, Says(heap'))
    <3>1. \E p \in [1 .. 0 -> 1 .. 0] : TRUE
      <4>1. [k \in 1 .. 0 |-> k] \in [1 .. 0 -> 1 .. 0]
        OBVIOUS
      <4> QED BY <4>1
    <3>2. \A k \in 1 .. 0 : FALSE
      OBVIOUS
    <3> QED BY <3>1, <3>2 DEF HalfCopy
  <2>13. Fine(stack'[N + 1], Argument(N + 1)', FALSE, heap', Says(heap'))
    BY <2>3, <2>4, <2>6, <2>9, <2>11, <2>12 DEF Fine
  <2>14. ASSUME NEW f \in 1 .. Len(stack')
         PROVE  Fine(stack'[f], Argument(f)', f < Len(stack') \/ pc' # "loop", heap', Says(heap'))
    <3>1. CASE f \in 1 .. N
      BY <2>10, <3>1
    <3>2. CASE f = N + 1
      <4>1. ~(f < Len(stack') \/ pc' # "loop")
        BY <2>1, <2>4, <2>6, <3>2
      <4> QED BY <2>13, <3>2, <4>1 DEF Fine
    <3> QED BY <2>4, <2>6, <3>1, <3>2
  <2> QED BY <2>1, <2>14 DEF GoesRight
<1> QED BY <1>2, <1>3

LEMMA CopyKeyFaithful == ASSUME Inv, Inv', Faithful, CopyKey PROVE Faithful'
<1>1. /\ pc = "loop" /\ pc' = "copy" /\ heap' = heap /\ source' = source /\ before' = before
      /\ at' = Upcoming.value
  BY DEF CopyKey, Looping
<1>2. CASE Fail
  BY <1>1, <1>2, FailFaithful
<1>3. CASE ~Fail
  <2>1. SetTop([Top EXCEPT !.key = Upcoming.key]) /\ failures' = failures
    BY <1>3 DEF CopyKey
  <2> SUFFICES ASSUME GoesRight PROVE GoesRight'
    BY <1>1, <2>1, StepFaithful
  <2>2. PICK S \in SUBSET DOMAIN heap : Source(S)
    BY DEF Inv
  <2>3. stack # <<>> /\ Top.kind = "obj"
    BY <1>1 DEF Inv, Control
  <2>4. PICK top, key, frame, N :
          /\ top = Top /\ key = Upcoming.key /\ frame = [Top EXCEPT !.key = key] /\ N = Len(stack)
    OBVIOUS
  <2>5. N \in 1 .. N /\ N \in Nat /\ DOMAIN stack = 1 .. N /\ top = stack[N] /\ top \in ObjectFrame
    BY <2>3, <2>4, FrameFacts, TopFacts DEF Top
  <2>6. /\ frame.kind = "obj" /\ frame.object = top.object /\ frame.copy = top.copy
        /\ frame.i = top.i /\ frame.key = key
    BY <2>4, <2>5 DEF ObjectFrame
  <2>7. /\ Len(stack') = N /\ stack'[N] = frame
        /\ \A k \in 1 .. N : k # N => stack'[k] = stack[k]
    <3>1. stack' = [stack EXCEPT ![N] = frame]
      BY <2>1, <2>4 DEF SetTop
    <3>2. DOMAIN stack' = 1 .. N
      BY <2>5, <3>1
    <3>3. Len(stack') \in Nat /\ DOMAIN stack' = 1 .. Len(stack')
      BY DEF Inv, Shape
    <3>4. Len(stack') = N
      BY <2>5, <3>2, <3>3
    <3> QED BY <2>5, <3>1, <3>4
  <2>8. Kept(DOMAIN heap)
    BY <1>1, SameKept
  <2>9. \A f \in 1 .. N : stack[f].kind = "obj" /\ stack[f].copy \in DOMAIN heap
    <3>1. \A f \in 1 .. Len(stack) : stack[f].kind = "obj"
      BY DEF GoesRight, Fine
    <3> QED BY <2>2, <2>4, <3>1, FrameIn
  <2>10. ASSUME NEW f \in 1 .. N, f # N
         PROVE  \A keyed : Fine(stack'[f], Argument(f)', keyed, heap', Says(heap'))
    <3>1. f < N /\ (f # 1 => f - 1 \in 1 .. N /\ f - 1 # N)
      BY <2>5, <2>10
    <3>2. f \in 1 .. Len(stack) /\ stack[f].copy \in DOMAIN heap /\ f < Len(stack)
          /\ stack'[f] = stack[f] /\ (f # 1 => stack'[f - 1] = stack[f - 1])
      BY <2>4, <2>7, <2>9, <2>10, <3>1
    <3> QED BY <1>1, <2>2, <2>8, <3>2, KeepFine
  <2>11. Argument(N)' = Argument(N)
    <3>1. N # 1 => N - 1 \in 1 .. N /\ N - 1 # N
      BY <2>5
    <3>2. N \in 1 .. Len(stack) + 1
      BY <2>4, <2>5
    <3> QED BY <1>1, <2>2, <2>7, <2>9, <3>1, <3>2, KeepArgument
  <2>12. Fine(top, Argument(N), FALSE, heap, Says(heap))
    BY <2>4, <2>5 DEF GoesRight, Fine
  <2>13. Upcoming = heap[top.object].entries[top.i + 1]
    BY <2>4 DEF Upcoming
  <2>14. Fine(stack'[N], Argument(N)', TRUE, heap', Says(heap'))
    BY <1>1, <2>4, <2>6, <2>7, <2>11, <2>12, <2>13 DEF Fine
  <2>15. ASSUME NEW f \in 1 .. Len(stack')
         PROVE  Fine(stack'[f], Argument(f)', f < Len(stack') \/ pc' # "loop", heap', Says(heap'))
    <3>1. CASE f = N
      BY <1>1, <2>14, <3>1 DEF Fine
    <3>2. CASE f # N
      BY <2>7, <2>10, <3>2
    <3> QED BY <3>1, <3>2
  <2>16. at' = Argument(N + 1)'
    <3>1. N + 1 # 1 /\ N + 1 - 1 = N
      BY <2>5
    <3> QED BY <1>1, <2>6, <2>7, <2>13, <3>1 DEF Argument
  <2> QED BY <1>1, <2>7, <2>15, <2>16 DEF GoesRight
<1> QED BY <1>2, <1>3

\* The frame of the call of duplicate_object that returns is taken off.
LEMMA PopFine ==
  ASSUME Inv, NEW S, Source(S), GoesRight, NEW T, Kept(T), S \subseteq T, source' = source,
         stack # <<>>, Pop, \A f \in 1 .. Len(stack) - 1 : stack[f].copy \in T
  PROVE  /\ Len(stack') = Len(stack) - 1
         /\ \A f \in 1 .. Len(stack') :
              Fine(stack'[f], Argument(f)', f < Len(stack') \/ pc' # "loop", heap', Says(heap'))
         /\ \A f \in 1 .. Len(stack) : Argument(f)' = Argument(f)
<1>1. PICK N : N = Len(stack)
  OBVIOUS
<1>2. N \in Nat /\ N \in 1 .. N /\ stack \in Seq(FrameSet)
  BY <1>1, FrameFacts
<1>3. Len(stack') = N - 1 /\ \A k \in 1 .. N - 1 : stack'[k] = stack[k]
  BY <1>1, <1>2, SequenceOps DEF Pop
<1>4. \A f \in 1 .. N : stack[f].kind = "obj"
  BY <1>1 DEF GoesRight, Fine
<1>5. ASSUME NEW f \in 1 .. N - 1
      PROVE  Fine(stack'[f], Argument(f)', f < Len(stack') \/ pc' # "loop", heap', Says(heap'))
  <2>1. f \in 1 .. N /\ f < N /\ (f # 1 => f - 1 \in 1 .. N - 1)
    BY <1>2
  <2>2. f \in 1 .. Len(stack) /\ stack[f].copy \in T /\ f < Len(stack)
        /\ stack'[f] = stack[f] /\ (f # 1 => stack'[f - 1] = stack[f - 1])
    BY <1>1, <1>3, <2>1
  <2>3. \A keyed : Fine(stack'[f], Argument(f)', keyed, heap', Says(heap'))
    BY <2>2, KeepFine
  <2> QED BY <2>3
<1>6. ASSUME NEW f \in 1 .. N PROVE Argument(f)' = Argument(f)
  <2>1. f \in 1 .. N + 1 /\ (f # 1 => f - 1 \in 1 .. N - 1 /\ f - 1 \in 1 .. N)
    BY <1>2
  <2>2. f \in 1 .. Len(stack) + 1 /\ \A m \in S : heap'[m] = heap[m]
    BY <1>1, <2>1 DEF Kept
  <2> QED BY <1>3, <1>4, <2>1, <2>2, KeepArgument
<1> QED BY <1>1, <1>3, <1>5, <1>6

LEMMA EntryFailsFaithful == ASSUME Inv, Inv', Faithful, EntryFails PROVE Faithful'
<1>1. /\ pc = "return" /\ pc' = "return" /\ ret' = NULL /\ stack # <<>> /\ Top.kind = "obj" /\ Pop
      /\ heap' = Restrict(heap, DOMAIN heap \ Below(Top.copy))
      /\ source' = source /\ failures' = failures /\ before' = before
  BY DEF EntryFails, GiveUp, Return
<1> SUFFICES ASSUME GoesRight PROVE GoesRight'
  BY <1>1, StepFaithful
<1>2. PICK S \in SUBSET DOMAIN heap : Source(S)
  BY DEF Inv
<1>3. PICK c : c = Top.copy
  OBVIOUS
<1>4. c \in Copies /\ c \in Tops /\ c \notin S
  BY <1>1, <1>2, <1>3, TopFacts DEF Tops, Source
<1>5. Separate(heap', S) /\ \A m \in DOMAIN heap' : heap'[m] = heap[m]
  BY <1>1, <1>2, <1>3, <1>4, FreeTop
<1>6. DOMAIN heap' = DOMAIN heap \ Below(c)
  BY <1>1, <1>3 DEF Restrict
<1>7. Kept(DOMAIN heap')
  <2>1. PICK h, new, tops, others : h = heap' /\ new = heap /\ tops = Tops' /\ others = Tops
    OBVIOUS
  <2>2. Memory(h) /\ Forest(Kids(h), tops) /\ Memory(new) /\ Forest(Kids(new), others)
    BY <2>1 DEF Inv
  <2>3. Closed(Kids(h), DOMAIN h)
    BY <2>2, KidsIs DEF Forest, Inside, Closed
  <2>4. DOMAIN h \subseteq DOMAIN new /\ \A m \in DOMAIN h : new[m] = h[m]
    BY <1>5, <1>6, <2>1
  <2>5. \A m \in DOMAIN h : Says(new)[m] = Says(h)[m]
    BY <2>2, <2>3, <2>4, SaysTheSame
  <2>6. \A m \in DOMAIN h : Kids(new)[m] = Kids(h)[m]
    BY <2>4, KidsIs
  <2>7. Closed(Kids(new), DOMAIN h)
    BY <2>3, <2>6 DEF Closed
  <2> QED BY <2>1, <2>4, <2>5, <2>7 DEF Kept
<1>8. \A f \in 1 .. Len(stack) - 1 : stack[f].copy \in DOMAIN heap'
  <2> SUFFICES ASSUME NEW f \in 1 .. Len(stack) - 1 PROVE stack[f].copy \in DOMAIN heap'
    OBVIOUS
  <2>1. f \in 1 .. Len(stack) /\ f # Len(stack)
    <3>1. Len(stack) \in Nat
      BY FrameFacts
    <3> QED BY <3>1
  <2>2. stack[f].kind = "obj"
    BY <2>1 DEF GoesRight, Fine
  <2>3. f \in CopyFrames /\ stack[f].copy \in Copies /\ Len(stack) \in CopyFrames /\ Top = stack[Len(stack)]
    BY <1>1, <1>2, <2>1, <2>2, FrameIn, TopFacts
  <2>4. stack[f].copy # c
    BY <1>3, <2>1, <2>3 DEF Inv, Distinct
  <2>5. Copies' = Copies \ {c}
    BY <1>1, <1>3, PopFrame
  <2>6. stack[f].copy \in Tops'
    BY <2>3, <2>4, <2>5 DEF Tops
  <2> QED BY <2>6, KidsIs DEF Inv, Forest, Inside
<1>9. S \subseteq DOMAIN heap'
  BY <1>5 DEF Separate
<1>10. \A f \in 1 .. Len(stack') :
         Fine(stack'[f], Argument(f)', f < Len(stack') \/ pc' # "loop", heap', Says(heap'))
  BY <1>1, <1>2, <1>7, <1>8, <1>9, PopFine
<1> QED BY <1>1, <1>10 DEF GoesRight

LEMMA EndObjectFaithful == ASSUME Inv, Inv', Faithful, EndObject PROVE Faithful'
<1>1. /\ pc = "loop" /\ pc' = "return" /\ ret' = Top.copy /\ Pop /\ heap' = heap
      /\ Top.i = Len(heap[Top.object].entries)
      /\ source' = source /\ failures' = failures /\ before' = before
  BY DEF EndObject, Return, memory
<1> SUFFICES ASSUME GoesRight PROVE GoesRight'
  BY <1>1, StepFaithful
<1>2. stack # <<>> /\ Top.kind = "obj"
  BY <1>1 DEF Inv, Control
<1>3. PICK S \in SUBSET DOMAIN heap : Source(S)
  BY DEF Inv
<1>4. Kept(DOMAIN heap)
  BY <1>1, SameKept
<1>5. \A f \in 1 .. Len(stack) - 1 : stack[f].copy \in DOMAIN heap
  <2>1. \A f \in 1 .. Len(stack) - 1 : f \in 1 .. Len(stack)
    BY FrameFacts
  <2>2. \A f \in 1 .. Len(stack) : stack[f].kind = "obj"
    BY DEF GoesRight, Fine
  <2> QED BY <1>3, <2>1, <2>2, FrameIn
<1>6. /\ Len(stack') = Len(stack) - 1
      /\ \A f \in 1 .. Len(stack') :
           Fine(stack'[f], Argument(f)', f < Len(stack') \/ pc' # "loop", heap', Says(heap'))
      /\ \A f \in 1 .. Len(stack) : Argument(f)' = Argument(f)
  BY <1>1, <1>2, <1>3, <1>4, <1>5, PopFine
<1>7. PICK N, c, o : N = Len(stack) /\ c = Top.copy /\ o = Top.object
  OBVIOUS
<1>8. /\ N \in 1 .. N /\ N \in Nat /\ Top = stack[N]
      /\ c \in DOMAIN heap /\ heap[c] \in ObjectSet /\ o \in DOMAIN heap /\ heap[o] \in ObjectSet
      /\ Len(heap[c].entries) = Len(heap[o].entries)
  <2>1. Progress(Len(stack))
    BY <1>2, TopFacts
  <2>2. Len(heap[c].entries) = Len(heap[o].entries)
    BY <1>1, <1>7, <2>1 DEF Progress, Top
  <2> QED BY <1>2, <1>7, <2>2, FrameFacts, TopFacts
<1>9. o = Argument(N) /\ HalfCopy(heap[c].entries, heap[o].entries, Len(heap[o].entries), Says(heap))
  <2>1. Fine(stack[N], Argument(N), FALSE, heap, Says(heap))
    BY <1>7, <1>8 DEF GoesRight, Fine
  <2> QED BY <1>1, <1>7, <1>8, <2>1 DEF Fine
<1>10. Says(heap)[c] = Says(heap)[o]
  <2>1. IsSaid(heap, Says(heap))
    BY SaysIsSaid DEF Inv
  <2>2. PICK g : g = Says(heap)
    OBVIOUS
  <2>3. g = [m \in DOMAIN heap |-> Content(heap[m], g)]
    BY <2>1, <2>2 DEF IsSaid
  <2>4. Content(heap[c], g) = Content(heap[o], g)
    BY <1>8, <1>9, <2>2, CopySays
  <2> QED BY <1>8, <2>2, <2>3, <2>4
<1>11. Argument(N)' = o
  BY <1>6, <1>7, <1>8, <1>9
<1>12. Argument(Len(stack) + 1)' = Argument(N)'
  <2>1. Len(stack') + 1 = N
    BY <1>6, <1>7, <1>8
  <2> QED BY <2>1 DEF Argument
<1>13. Says(heap')[ret'] = Says(heap')[Argument(Len(stack) + 1)']
  BY <1>1, <1>7, <1>10, <1>11, <1>12
<1> QED BY <1>1, <1>6, <1>13 DEF GoesRight

LEMMA AddCopyFaithful == ASSUME Inv, Inv', Faithful, AddCopy, ~Abort PROVE Faithful'
<1>1. /\ pc = "return" /\ stack # <<>> /\ Top.kind = "obj" /\ ret # NULL
      /\ SetTop([Top EXCEPT !.i = @ + 1, !.key = NULL])
      /\ pc' = "loop" /\ source' = source /\ failures' = failures /\ before' = before
  BY DEF AddCopy
<1>2. PICK place \in Places(heap[Top.copy]) :
        heap' = [heap EXCEPT ![Top.copy] = WithEntry(@, Top.key, ret, place)]
  BY DEF AddCopy
<1> SUFFICES ASSUME GoesRight PROVE GoesRight'
  BY <1>1, StepFaithful
<1>3. PICK S \in SUBSET DOMAIN heap : Source(S)
  BY DEF Inv
<1>4. PICK top, a, n, e, N, frame, o :
        /\ top = Top /\ a = Top.copy /\ n = ret /\ e = [key |-> Top.key, value |-> n] /\ N = Len(stack)
        /\ frame = [Top EXCEPT !.i = @ + 1, !.key = NULL] /\ o = Top.object
  OBVIOUS
<1>5. N \in 1 .. N /\ N \in Nat /\ DOMAIN stack = 1 .. N /\ top = stack[N] /\ top \in ObjectFrame
  BY <1>1, <1>4, FrameFacts, TopFacts
<1>6. /\ frame.kind = "obj" /\ frame.object = o /\ frame.copy = a /\ frame.i = top.i + 1
      /\ top.kind = "obj" /\ top.object = o /\ top.copy = a /\ top.i \in Nat /\ top.key \in Text \cup Dataless
  BY <1>4, <1>5 DEF ObjectFrame
<1>7. /\ Len(stack') = N /\ stack'[N] = frame
      /\ \A k \in 1 .. N : k # N => stack'[k] = stack[k]
  <2>1. stack' = [stack EXCEPT ![N] = frame]
    BY <1>1, <1>4 DEF SetTop
  <2>2. DOMAIN stack' = 1 .. N
    BY <1>5, <2>1
  <2>3. Len(stack') \in Nat /\ DOMAIN stack' = 1 .. Len(stack')
    BY DEF Inv, Shape
  <2>4. Len(stack') = N
    BY <1>5, <2>2, <2>3
  <2> QED BY <1>5, <2>1, <2>4
<1>8. /\ a \in DOMAIN heap /\ a \in Tops /\ a \in Copies /\ a \notin S /\ heap[a] \in ObjectSet
      /\ n \in DOMAIN heap /\ n \in Node /\ n # a
  <2>1. a \in DOMAIN heap /\ a \in Copies /\ a \in Tops /\ a \notin S /\ heap[a] \in ObjectSet
    BY <1>1, <1>3, <1>4, TopFacts DEF Tops, Source
  <2>2. n \in Returned
    BY <1>1, <1>4 DEF Returned
  <2>3. n \in DOMAIN heap /\ n \in Node
    BY <2>2, OwnedFacts DEF Tops
  <2> QED BY <2>1, <2>2, <2>3 DEF Inv, Distinct
<1>9. PICK v : v = WithEntry(heap[a], top.key, n, place)
  OBVIOUS
<1>10. DOMAIN heap' = DOMAIN heap /\ heap'[a] = v /\ \A m \in DOMAIN heap \ {a} : heap'[m] = heap[m]
  BY <1>2, <1>4, <1>8, <1>9
<1>11. Kept(DOMAIN heap \ {a})
  <2>1. PICK h, new, tops, others : h = heap /\ new = heap' /\ tops = Tops /\ others = Tops'
    OBVIOUS
  <2>2. Memory(h) /\ Forest(Kids(h), tops) /\ Memory(new) /\ Forest(Kids(new), others)
    BY <2>1 DEF Inv
  <2>3. Closed(Kids(h), DOMAIN h \ {a})
    BY <1>8, <2>1, OwnedFacts DEF Inside, Closed
  <2>4. PICK T : T = DOMAIN h \ {a}
    OBVIOUS
  <2>5. T \subseteq DOMAIN h /\ T \subseteq DOMAIN new /\ \A m \in T : new[m] = h[m]
    BY <1>10, <2>1, <2>4
  <2>6. \A m \in T : Says(new)[m] = Says(h)[m]
    BY <2>2, <2>3, <2>4, <2>5, SaysTheSame
  <2> QED BY <2>1, <2>3, <2>4, <2>5, <2>6 DEF Kept
<1>12. S \subseteq DOMAIN heap \ {a}
  BY <1>8
<1>13. \A f \in 1 .. N : stack[f].kind = "obj"
  BY <1>4 DEF GoesRight, Fine
<1>14. ASSUME NEW f \in 1 .. N, f # N
       PROVE  \A keyed : Fine(stack'[f], Argument(f)', keyed, heap', Says(heap'))
  <2>1. f # 1 => f - 1 \in 1 .. N /\ f - 1 # N
    BY <1>5, <1>14
  <2>2. f \in 1 .. Len(stack) /\ stack'[f] = stack[f] /\ (f # 1 => stack'[f - 1] = stack[f - 1])
    BY <1>4, <1>7, <1>14, <2>1
  <2>3. stack[f].copy \in DOMAIN heap \ {a}
    <3>1. f \in CopyFrames /\ stack[f].copy \in DOMAIN heap /\ N \in CopyFrames
      BY <1>1, <1>3, <1>4, <1>13, <2>2, FrameIn, TopFacts
    <3>2. stack[f].copy # stack[N].copy
      BY <1>14, <3>1 DEF Inv, Distinct
    <3> QED BY <1>5, <1>6, <3>1, <3>2
  <2>4. f < Len(stack) \/ pc # "loop"
    BY <1>1
  <2> QED BY <1>1, <1>3, <1>11, <1>12, <2>2, <2>3, <2>4, KeepFine
<1>15. Argument(N)' = Argument(N)
  <2>1. N # 1 => N - 1 \in 1 .. N /\ N - 1 # N
    BY <1>5
  <2>2. N \in 1 .. Len(stack) + 1 /\ \A m \in S : heap'[m] = heap[m]
    BY <1>4, <1>5, <1>10, <1>12
  <2> QED BY <1>1, <1>3, <1>7, <1>13, <2>1, <2>2, KeepArgument
<1>16. PICK c, b, i, d, g, w : /\ c = heap[a].entries /\ b = heap[o].entries /\ i = top.i
                               /\ d = v.entries /\ g = Says(heap) /\ w = Says(heap')
  OBVIOUS
<1>17. /\ o = Argument(N) /\ top.key = b[i + 1].key /\ HalfCopy(c, b, i, g)
  <2>1. Fine(top, Argument(N), TRUE, heap, Says(heap))
    BY <1>1, <1>4, <1>5 DEF GoesRight
  <2> QED BY <1>6, <1>16, <2>1 DEF Fine
<1>18. g[n] = g[b[i + 1].value]
  <2>1. N + 1 # 1 /\ N + 1 - 1 = N
    BY <1>5
  <2>2. Argument(N + 1) = b[i + 1].value
    BY <1>5, <1>6, <1>16, <2>1 DEF Argument
  <2> QED BY <1>1, <1>4, <1>16, <2>2 DEF GoesRight
<1>19. /\ i \in Nat /\ c \in Seq(Entry) /\ Len(c) = i /\ i + 1 \in 1 .. Len(b) /\ o \in S
       /\ \A k \in 1 .. i : c[k].value \in DOMAIN heap \ {a}
       /\ \A k \in 1 .. Len(b) : b[k].value \in S
       /\ \A k \in 1 .. i : k \in 1 .. Len(b)
  <2>1. /\ stack[N].object \in S /\ Len(heap[stack[N].copy].entries) = stack[N].i
        /\ heap[stack[N].object] \in ObjectSet
        /\ \A k \in 1 .. stack[N].i :
             \E j \in DOMAIN Kids(heap)[stack[N].copy] :
               heap[stack[N].copy].entries[k].value = Kids(heap)[stack[N].copy][j]
        /\ \A k \in 1 .. Len(heap[stack[N].object].entries) :
             heap[stack[N].object].entries[k].value \in S
    BY <1>3, <1>4, <1>5, <1>13, FrameIn
  <2>2. o \in S /\ Len(c) = i /\ \A k \in 1 .. Len(b) : b[k].value \in S
    BY <1>5, <1>6, <1>16, <2>1
  <2>3. c \in Seq(Entry) /\ i \in Nat /\ Len(b) \in Nat
    BY <1>5, <1>6, <1>8, <1>16, <2>1 DEF ObjectSet
  <2>4. i < Len(b)
    BY <1>1, <1>4, <1>16, CopyRoom
  <2>5. \A k \in 1 .. i : c[k].value \in DOMAIN heap \ {a}
    <3>1. \A k \in 1 .. i : \E j \in DOMAIN Kids(heap)[a] : c[k].value = Kids(heap)[a][j]
      BY <1>5, <1>6, <1>16, <2>1
    <3>2. \A j \in DOMAIN Kids(heap)[a] : Kids(heap)[a][j] \in DOMAIN heap \ {a}
      BY <1>8, OwnedFacts DEF Inside
    <3> QED BY <3>1, <3>2
  <2>6. i + 1 \in 1 .. Len(b) /\ \A k \in 1 .. i : k \in 1 .. Len(b)
    BY <2>3, <2>4
  <2> QED BY <2>2, <2>3, <2>5, <2>6
<1>20. \A m \in DOMAIN heap \ {a} : w[m] = g[m]
  BY <1>11, <1>16 DEF Kept
<1>21. HalfCopy(d, b, i + 1, w)
  <2>1. HalfCopy(c, b, i, w)
    <3>1. \A k \in 1 .. i : w[c[k].value] = g[c[k].value] /\ w[b[k].value] = g[b[k].value]
      BY <1>12, <1>19, <1>20
    <3> QED BY <1>17, <1>19, <3>1, HalfSame
  <2>2. e.key = b[i + 1].key /\ e.value = n /\ e \in Entry
    BY <1>4, <1>6, <1>8, <1>17 DEF Entry
  <2>3. w[e.value] = w[b[i + 1].value]
    <3>1. w[n] = g[n] /\ w[b[i + 1].value] = g[b[i + 1].value]
      BY <1>8, <1>12, <1>19, <1>20
    <3> QED BY <1>18, <2>2, <3>1
  <2>4. place \in 1 .. i + 1
    BY <1>2, <1>4, <1>16, <1>19 DEF Places
  <2>5. d = InsertAt(c, place, e)
    BY <1>4, <1>8, <1>9, <1>16 DEF WithEntry, ObjectSet
  <2>6. IsPut(Entry, c, place, e, d)
    <3>1. place \in 1 .. Len(c) + 1
      BY <1>19, <2>4
    <3>2. IsPut(Entry, c, place, e, InsertAt(c, place, e))
      BY <1>19, <2>2, <3>1, InsertAtPuts
    <3> QED BY <2>5, <3>2
  <2> QED BY <1>19, <2>1, <2>2, <2>3, <2>4, <2>6, HalfGrows
<1>22. heap'[o] = heap[o]
  BY <1>10, <1>12, <1>19
<1>23. Fine(stack'[N], Argument(N)', FALSE, heap', Says(heap'))
  BY <1>6, <1>7, <1>10, <1>15, <1>16, <1>17, <1>21, <1>22 DEF Fine
<1>24. ASSUME NEW f \in 1 .. Len(stack')
       PROVE  Fine(stack'[f], Argument(f)', f < Len(stack') \/ pc' # "loop", heap', Says(heap'))
  <2>1. CASE f = N
    <3>1. ~(f < Len(stack') \/ pc' # "loop")
      BY <1>1, <1>5, <1>7, <2>1
    <3> QED BY <1>23, <2>1, <3>1 DEF Fine
  <2>2. CASE f # N
    BY <1>7, <1>14, <2>2
  <2> QED BY <2>1, <2>2
<1> QED BY <1>1, <1>24 DEF GoesRight

\* A call in one step, when nothing ends the program.
LEMMA CallFaithful ==
  ASSUME Faithful, pc = "idle", pc' = "idle", Next
  PROVE  Faithful'
<1>1. PICK r : Done(r)
  BY DEF Next, Create, CreateFails, SetScalar, SetString, ArrayAppend, Add, AddFails, AddAborts, Abort,
         Copy, Free, CopyStep, CopyLeaf, CopyArray, EndArray, CopyObject, CopyKey, CopyKeyAborts,
         CopyKeyFails, EntryFails, AddCopy, EndObject, EndCopy, Looping
<1>2. failures' \in {failures, failures + 1, failures + 2}
  BY DEF Next, Create, CreateFails, SetScalar, SetString, ArrayAppend, Add, AddFails, AddAborts, Abort, Fail,
         Copy, Free, CopyStep, CopyLeaf, CopyArray, EndArray, CopyObject, CopyKey, CopyKeyAborts,
         CopyKeyFails, EntryFails, AddCopy, EndObject, EndCopy, Looping
<1>3. source' = NULL /\ before'.failures = 0
  BY <1>1 DEF Done, None
<1> QED BY <1>2, <1>3 DEF Faithful

LEMMA CopyStepFaithful ==
  ASSUME Inv, Inv', pc # "idle", pc' # "aborted", Faithful, Next
  PROVE  Faithful'
<1>1. ~Abort
  BY DEF Abort
<1>2. CopyStep /\ ~CopyKeyAborts
  BY <1>1 DEF Next, Create, CreateFails, SetScalar, SetString, ArrayAppend, Add, AddFails, AddAborts,
         Copy, Free, Call, CopyKeyAborts
<1>3. CASE CopyKeyFails
  BY <1>3, FailFaithful DEF CopyKeyFails, GiveUp, Return
<1> QED BY <1>1, <1>2, <1>3, CopyLeafFaithful, CopyArrayFaithful, EndArrayFaithful, CopyObjectFaithful,
           CopyKeyFaithful, EntryFailsFaithful, AddCopyFaithful, EndObjectFaithful, EndCopyFaithful
       DEF CopyStep

LEMMA NextFInv ==
  ASSUME IInv, IInv', FInv, Next
  PROVE  FInv'
<1>1. CASE pc = "aborted" \/ pc' = "aborted"
  BY <1>1 DEF FInv, Next, Create, CreateFails, SetScalar, SetString, ArrayAppend, Add, AddFails, AddAborts,
       Copy, Free, Call, CopyStep, CopyLeaf, CopyArray, EndArray, CopyObject, CopyKey, CopyKeyAborts,
       CopyKeyFails, EntryFails, AddCopy, EndObject, EndCopy, Looping
<1>2. CASE pc # "aborted" /\ pc' # "aborted"
  <2>1. Inv /\ Inv' /\ Faithful
    BY <1>2 DEF IInv, FInv
  <2>2. CASE pc # "idle"
    BY <1>2, <2>1, <2>2, CopyStepFaithful DEF FInv
  <2>3. CASE pc = "idle" /\ pc' = "idle"
    BY <2>1, <2>3, CallFaithful DEF FInv
  <2>4. CASE pc = "idle" /\ pc' # "idle"
    <3>1. PICK n : Copy(n)
      BY <1>2, <2>4 DEF Next, Create, CreateFails, SetScalar, SetString, ArrayAppend, Add, AddFails,
         AddAborts, Abort, Done, Free, CopyStep, CopyLeaf, CopyArray, EndArray, CopyObject, CopyKey,
         CopyKeyAborts, CopyKeyFails, EntryFails, AddCopy, EndObject, EndCopy, Looping
    <3> QED BY <2>1, <3>1, BeginCopyFaithful DEF FInv
  <2> QED BY <2>2, <2>3, <2>4
<1> QED BY <1>1, <1>2

\* (CopyIsFaithful) When no allocation fails in it, what json_copy returns says
\* the same as its argument, in whatever order the tables have the entries
\* (json.c:411-493).
THEOREM CopiesSayTheSame == Spec => []CopyIsFaithful
<1>1. Init => FInv
  BY DEF Init, FInv, Faithful, None
<1>2. IInv /\ IInv' /\ FInv /\ [Next]_vars => FInv'
  <2>1. FInv /\ UNCHANGED vars => FInv'
    BY DEF vars, memory, copying, FInv, Faithful, GoesRight, Argument
  <2> QED BY <2>1, NextFInv
<1>3. FInv => CopyIsFaithful
  BY MeaningIs DEF FInv, Faithful, CopyIsFaithful, Copied
<1> QED BY <1>1, <1>2, <1>3, SpecIInv, PTL DEF Spec
=============================================================================
