------------------------- MODULE ObjectTableProofs -------------------------
(***************************************************************************)
(* Theorems about the hash table of a JSON object (module ObjectTable),    *)
(* for every set of keys, hash function, array of capacities, number of    *)
(* threads and bound on the size that satisfy the assumptions there.       *)
(*                                                                         *)
(* TypeOK, HalfEmpty and NoGapOnPath are not inductive by themselves: that *)
(* a new entry leaves no gap depends on what the probe loop has passed     *)
(* before, and that half of the table stays empty depends on how many      *)
(* entries a rehash has still to move.  IInv adds both.  CInv adds what is *)
(* in the tables, from which the counts, the disposal and the refinement   *)
(* of Multimap follow, and WInv the order of ids, which holds as long as   *)
(* one thread uses the object.                                             *)
(***************************************************************************)
EXTENDS ObjectTable, FiniteSetTheorems, WellFoundedInduction, TLAPS

\* Which variables mean something in which phase of a call.
Phases ==
  /\ pc \in {"none", "freed"} => capacity = 0 /\ size = 0
  /\ pc = "none" => keyOf = <<>>
  /\ pc \notin {"rehash", "moving"} => old_capacity = 0
  /\ pc = "moving" => i < old_capacity /\ Occupied(old_entries[i])
  /\ pc \in {"rehash", "moving", "adding"} => key \in Key
  /\ pc \in {"moving", "adding"} => slot \in 0 .. capacity - 1
  /\ ~it.done => it.key \in Key

\* Nothing is lost between the two tables, and the new one has room for all
\* that must still go into it.
Room ==
  /\ pc # "freed" => size + Cardinality(OldOccupied) = Len(keyOf)
  /\ Len(keyOf) <= MaxSize
  /\ pc \in {"rehash", "moving", "adding"} =>
       /\ Len(keyOf) < MaxSize
       /\ InverseMaxOccupancy * (Len(keyOf) + 1) <= capacity

\* The rehash loop leaves cleared entries behind.
Moved == \A s \in 0 .. i - 1 : ~Occupied(old_entries[s])

\* The probe loop has passed only occupied entries.
Probed ==
  pc \in {"moving", "adding"} =>
    \A d \in 0 .. Distance(CurrentKey, slot) - 1 : Occupied(At(CurrentKey, d))

IInv == TypeOK /\ Phases /\ HalfEmpty /\ Room /\ Moved /\ NoGapOnPath /\ Probed

-----------------------------------------------------------------------------
(* Finite sets.                                                            *)

\* A nonempty family of finite sets has a smallest member: the principle of
\* induction used below, in the form of a least counterexample.
LEMMA SmallestFiniteSet ==
  ASSUME NEW F, F # {}, \A T \in F : IsFiniteSet(T)
  PROVE  \E T \in F : \A U \in F : U \subseteq T => U = T
<1> DEFINE S == UNION F
<1>1. F \subseteq FiniteSubsetsOf(S)
  BY DEF FiniteSubsetsOf
<1>2. IsWellFoundedOn(StrictSubsetOrdering(S), FiniteSubsetsOf(S))
  BY FS_StrictSubsetOrderingWellFounded
<1> HIDE DEF S
<1>3. PICK T \in F : \A U \in F : <<U, T>> \notin StrictSubsetOrdering(S)
  BY <1>1, <1>2, WFMin
<1>4. ASSUME NEW U \in F, U \subseteq T, U # T PROVE FALSE
  <2>1. U \in SUBSET S /\ T \in SUBSET S
    BY DEF S
  <2>2. <<U, T>> \in StrictSubsetOrdering(S)
    BY <1>4, <2>1 DEF StrictSubsetOrdering
  <2> QED BY <2>2, <1>3
<1> QED BY <1>4

\* An integer-valued function on a nonempty finite set has a maximum.
LEMMA ArgMax ==
  ASSUME NEW S, IsFiniteSet(S), S # {}, NEW f \in [S -> Int]
  PROVE  \E m \in S : \A x \in S : f[x] <= f[m]
<1> DEFINE NoMax(T) == \A m \in T : \E x \in T : f[x] > f[m]
           F == {T \in SUBSET S : T # {} /\ NoMax(T)}
<1>1. SUFFICES ASSUME S \in F PROVE FALSE
  OBVIOUS
<1>2. \A T \in F : IsFiniteSet(T)
  BY FS_Subset
<1>3. PICK T \in F : \A U \in F : U \subseteq T => U = T
  <2>1. F # {}
    BY <1>1
  <2> HIDE DEF F
  <2> QED BY <2>1, <1>2, SmallestFiniteSet
<1>4. PICK m \in T : TRUE
  BY <1>3
<1>5. PICK z \in T : f[z] > f[m]
  BY <1>3, <1>4
<1>6. z \in T \ {m}
  BY <1>3, <1>4, <1>5
<1>7. ASSUME NEW w \in T \ {m} PROVE \E x \in T \ {m} : f[x] > f[w]
  <2>1. PICK x \in T : f[x] > f[w]
    BY <1>3
  <2>2. CASE x # m
    BY <2>1, <2>2
  <2>3. CASE x = m
    <3>1. f[z] \in Int /\ f[m] \in Int /\ f[w] \in Int
      BY <1>3, <1>4, <1>5, <1>7
    <3> QED BY <2>1, <2>3, <1>5, <1>6, <3>1
  <2> QED BY <2>2, <2>3
<1>8. T \ {m} \in F
  BY <1>6, <1>7, <1>3
<1> QED BY <1>3, <1>4, <1>8

-----------------------------------------------------------------------------
(* The geometry of a probe.                                                *)

LEMMA ModRange == \A h \in Nat, c \in Nat \ {0} : h % c \in 0 .. c - 1
  OBVIOUS

\* A key's probe order enumerates the slots, and NextSlot follows it.
LEMMA ProbeGeometry ==
  ASSUME TypeOK, capacity > 0, NEW k \in Key
  PROVE  /\ Home(k) \in 0 .. capacity - 1
         /\ \A d \in 0 .. capacity - 1 :
              /\ SlotAt(k, d) \in 0 .. capacity - 1
              /\ Distance(k, SlotAt(k, d)) = d
         /\ \A s \in 0 .. capacity - 1 :
              /\ Distance(k, s) \in 0 .. capacity - 1
              /\ SlotAt(k, Distance(k, s)) = s
              /\ NextSlot(s) \in 0 .. capacity - 1
              /\ Distance(k, NextSlot(s)) \in {0, Distance(k, s) + 1}
<1>1. capacity \in Nat \ {0} /\ Hash[k] \in Nat
  BY HashAssumption DEF TypeOK
<1>2. Home(k) \in 0 .. capacity - 1
  BY <1>1, ModRange DEF Home
<1> QED BY <1>1, <1>2 DEF SlotAt, Distance, NextSlot

\* What an entry of the table is.
LEMMA EntryType ==
  ASSUME TypeOK, NEW s \in 0 .. capacity - 1
  PROVE  /\ entries[s].id \in Nat /\ entries[s].value \in Nat
         /\ entries[s].key \in Key \cup {NULL}
         /\ Occupied(entries[s]) => entries[s].key \in Key
  BY DEF TypeOK, Entry, Occupied

-----------------------------------------------------------------------------
(* What the lookups return.                                                *)

\* The places on the probe path of k that object_next considers.
Older(k, prev) == {d \in Path(k) : /\ At(k, d).key = k
                                   /\ prev = NoValue \/ At(k, d).id < IdOf(k, prev)}

\* object_next returns the value of the one with the greatest id, or the null
\* pointer.
LEMMA ObjectNextChoice ==
  ASSUME TypeOK, NEW k \in Key, NEW prev \in Nat
  PROVE  \/ Older(k, prev) = {} /\ ObjectNext(k, prev) = NoValue
         \/ \E d \in Older(k, prev) :
              /\ ObjectNext(k, prev) = At(k, d).value
              /\ \A e \in Older(k, prev) : At(k, e).id <= At(k, d).id
<1> DEFINE older == Older(k, prev)
           greatest(d) == \A e \in older : \/ At(k, e).id < At(k, d).id
                                           \/ At(k, e).id = At(k, d).id /\ d <= e
<1>1. CASE older = {}
  BY <1>1 DEF ObjectNext, NoValue, Older
<1>2. CASE older # {}
  <2>1. older \subseteq 0 .. capacity - 1 /\ capacity \in Nat
    BY DEF Older, Path, TypeOK
  <2>2. capacity > 0
    BY <2>1, <1>2
  <2>3. \A d \in older : At(k, d).id \in Nat /\ At(k, d).value \in Nat
    BY <2>1, <2>2, ProbeGeometry, EntryType DEF At
  <2>4. IsFiniteSet(older)
    <3>1. IsFiniteSet(0 .. capacity - 1)
      BY <2>1, FS_Interval
    <3> HIDE DEF older
    <3> QED BY <2>1, <3>1, FS_Subset
  <2> DEFINE id == [d \in older |-> At(k, d).id]
  <2>5. PICK m \in older : \A d \in older : id[d] <= id[m]
    <3>1. id \in [older -> Int]
      BY <2>3
    <3> HIDE DEF older, id
    <3> QED BY <3>1, <2>4, <1>2, ArgMax
  <2> DEFINE ties == {d \in older : At(k, d).id = At(k, m).id}
             early == [d \in ties |-> -d]
  <2>6. PICK first \in ties : \A d \in ties : early[d] <= early[first]
    <3>1. early \in [ties -> Int] /\ ties # {}
      BY <2>1, <2>5
    <3>2. IsFiniteSet(ties)
      BY <2>4, FS_Subset
    <3> HIDE DEF ties, early
    <3> QED BY <3>1, <3>2, ArgMax
  <2>7. first \in older /\ greatest(first)
    <3>1. first \in older /\ At(k, first).id = At(k, m).id
      BY <2>6
    <3>2. ASSUME NEW e \in older, ~(At(k, e).id < At(k, first).id)
          PROVE  At(k, e).id = At(k, first).id /\ first <= e
      <4> HIDE DEF older
      <4>1. At(k, e).id = At(k, first).id
        BY <2>3, <2>5, <3>1, <3>2
      <4>2. e \in ties
        BY <3>1, <4>1
      <4>3. early[e] <= early[first] /\ first \in ties
        BY <2>6, <4>2
      <4> QED BY <2>1, <3>1, <4>1, <4>2, <4>3
    <3> QED BY <3>1, <3>2
  <2> DEFINE c == CHOOSE d \in older : greatest(d)
  <2>8. c \in older /\ greatest(c)
    <3> HIDE DEF older, greatest
    <3> QED BY <2>7
  <2>9. ObjectNext(k, prev) = At(k, c).value
    BY <1>2 DEF ObjectNext, Older
  <2>10. \A e \in older : At(k, e).id <= At(k, c).id
    <3> HIDE DEF older, c
    <3> QED BY <2>3, <2>8
  <2> HIDE DEF older, greatest, c
  <2> QED BY <2>8, <2>9, <2>10 DEF older
<1> QED BY <1>1, <1>2

LEMMA ObjectNextType ==
  ASSUME TypeOK, NEW k \in Key, NEW prev \in Nat
  PROVE  ObjectNext(k, prev) \in Nat
<1>1. CASE ObjectNext(k, prev) = NoValue
  BY <1>1 DEF NoValue
<1>2. CASE \E d \in Older(k, prev) : ObjectNext(k, prev) = At(k, d).value
  <2>1. PICK d \in Older(k, prev) : ObjectNext(k, prev) = At(k, d).value
    BY <1>2
  <2>2. d \in 0 .. capacity - 1 /\ capacity \in Nat
    BY DEF Older, Path, TypeOK
  <2>3. SlotAt(k, d) \in 0 .. capacity - 1
    BY <2>2, ProbeGeometry
  <2> QED BY <2>1, <2>3, EntryType DEF At
<1> QED BY <1>1, <1>2, ObjectNextChoice

-----------------------------------------------------------------------------
(* The inductive invariant.                                                *)

LEMMA InitIInv == Init => IInv
<1> SUFFICES ASSUME Init PROVE IInv
  OBVIOUS
<1>1. OccupiedSlots = {} /\ OldOccupied = {}
  BY DEF Init, OccupiedSlots, OldOccupied
<1>2. Cardinality(OccupiedSlots) = 0 /\ Cardinality(OldOccupied) = 0
  BY <1>1, FS_EmptySet
<1>3. TypeOK
  <2>1. entries \in [0 .. capacity - 1 -> Entry]
    BY DEF Init, NoOldEntries
  <2>2. old_entries \in [0 .. old_capacity - 1 -> Entry]
    BY DEF Init, NoOldEntries
  <2>3. uniq \in [Thread -> Nat]
    BY FirstIdAssumption DEF Init
  <2>4. it \in [key : Key \cup {NULL}, prev : Nat, seen : Seq(Nat), all : SUBSET Nat,
                done : BOOLEAN, grown : BOOLEAN]
    BY DEF Init, NoIteration, NoValue
  <2>5. i \in 0 .. old_capacity /\ capacity \in Nat /\ size \in Nat
    BY DEF Init
  <2>6. keyOf \in Seq(Key)
    BY DEF Init
  <2> QED BY <2>1, <2>2, <2>3, <2>4, <2>5, <2>6 DEF Init, TypeOK
<1>4. Phases /\ Moved /\ Probed
  BY DEF Init, Phases, Moved, Probed, NoIteration
<1>5. HalfEmpty /\ Room
  BY <1>2, MaxSizeAssumption DEF Init, HalfEmpty, Room, InverseMaxOccupancy
<1>6. NoGapOnPath
  BY <1>1 DEF NoGapOnPath
<1> QED BY <1>3, <1>4, <1>5, <1>6 DEF IInv

\* A step that changes neither table, and no part of a call but its phase
\* between "none", "idle" and its bookkeeping, changes nothing of what the
\* invariant says about the tables.
LEMMA SameTables ==
  ASSUME IInv, UNCHANGED <<table, old_capacity, old_entries, i>>
  PROVE  /\ OccupiedSlots' = OccupiedSlots
         /\ OldOccupied' = OldOccupied
         /\ HalfEmpty' /\ Moved' /\ NoGapOnPath'
<1>1. OccupiedSlots' = OccupiedSlots /\ OldOccupied' = OldOccupied
  BY DEF table, OccupiedSlots, OldOccupied
<1>2. HalfEmpty'
  BY <1>1 DEF table, IInv, HalfEmpty
<1>3. Moved'
  BY DEF IInv, Moved
<1>4. NoGapOnPath'
  BY <1>1 DEF table, IInv, NoGapOnPath, Distance, At, SlotAt, Home
<1> QED BY <1>1, <1>2, <1>3, <1>4

LEMMA StutterIInv == IInv /\ UNCHANGED vars => IInv'
<1> SUFFICES ASSUME IInv, UNCHANGED vars PROVE IInv'
  OBVIOUS
<1>1. UNCHANGED <<table, rehashVars, probeVars, pc, key, keyOf>>
  BY DEF vars
<1>2. HalfEmpty' /\ Moved' /\ NoGapOnPath' /\ OldOccupied' = OldOccupied
  BY <1>1, SameTables DEF rehashVars
<1>3. TypeOK' /\ Phases'
  BY DEF IInv, TypeOK, Phases, vars, table, rehashVars, probeVars
<1>4. Room'
  BY <1>1, <1>2 DEF IInv, Room, table
<1>5. Probed'
  BY <1>1 DEF IInv, Probed, CurrentKey, Distance, At, SlotAt, Home, table, rehashVars, probeVars
<1> QED BY <1>2, <1>3, <1>4, <1>5 DEF IInv

-----------------------------------------------------------------------------
(* The ways in which a step changes the table.                             *)

\* The capacity chosen is a prime of the array, and large enough for what the
\* bound on the size allows to ask for.
LEMMA NewCapacity ==
  ASSUME NEW c, NEW n \in Nat, n <= MaxSize, IsNewCapacity(c, MinCapacity(n))
  PROVE  /\ c \in Nat \ {0}
         /\ InverseMaxOccupancy * n <= c
<1>1. NumPrimes \in Nat /\ \A m \in 1..NumPrimes : PrimeCapacities[m] \in Nat \ {0}
  BY PrimesAssumption DEF NumPrimes
<1>2. PICK m \in 1..NumPrimes :
        /\ c = PrimeCapacities[m]
        /\ MinCapacity(n) <= c \/ m = NumPrimes
  BY DEF IsNewCapacity
<1>3. InverseMaxOccupancy * n <= InverseMaxOccupancy * MaxSize
  BY MaxSizeAssumption DEF InverseMaxOccupancy
<1> QED BY <1>1, <1>2, <1>3, MemoryAssumption, MaxSizeAssumption DEF MinCapacity, InverseMaxOccupancy

LEMMA BlankTable ==
  ASSUME NEW c \in Nat, capacity' = c, entries' = [s \in 0 .. c - 1 |-> Blank]
  PROVE  /\ entries' \in [0 .. capacity' - 1 -> Entry]
         /\ OccupiedSlots' = {} /\ Cardinality(OccupiedSlots') = 0
         /\ NoGapOnPath'
<1>1. entries' \in [0 .. capacity' - 1 -> Entry]
  BY DEF Blank, Entry, NoValue
<1>2. OccupiedSlots' = {}
  BY DEF OccupiedSlots, Occupied, Blank
<1> QED BY <1>1, <1>2, FS_EmptySet DEF NoGapOnPath

\* The end of object_add, with room for one more entry and the probe loop at an
\* empty slot, keeps the table in order.
LEMMA StoreKeepsOrder ==
  ASSUME IInv, Store, pc \in {"moving", "adding"}, CurrentKey \in Key, CurrentValue \in Nat,
         InverseMaxOccupancy * (size + 1) <= capacity
  PROVE  /\ entries' \in [0 .. capacity' - 1 -> Entry] /\ uniq' \in [Thread -> Nat]
         /\ size' \in Nat /\ unique_size' \in Nat
         /\ HalfEmpty' /\ NoGapOnPath'
<1>1. /\ slot \in 0 .. capacity - 1 /\ capacity \in Nat /\ capacity > 0
      /\ entries \in [0 .. capacity - 1 -> Entry] /\ size \in Nat /\ unique_size \in Nat
      /\ uniq \in [Thread -> Nat] /\ thread \in Thread
  BY DEF IInv, TypeOK, Phases
<1>2. /\ capacity' = capacity /\ size' = size + 1
      /\ ~Occupied(entries[slot])
      /\ entries' = [entries EXCEPT ![slot] = [id |-> uniq[thread], key |-> CurrentKey,
                                               value |-> CurrentValue]]
      /\ uniq' = [uniq EXCEPT ![thread] = @ + 1]
      /\ unique_size' \in {unique_size, unique_size + 1}
  BY DEF Store
<1>3. /\ entries'[slot].key = CurrentKey /\ Occupied(entries'[slot])
      /\ \A s \in 0 .. capacity - 1 : s # slot => entries'[s] = entries[s]
  BY <1>1, <1>2, KeyAssumption DEF Occupied
<1>4. entries' \in [0 .. capacity' - 1 -> Entry] /\ uniq' \in [Thread -> Nat]
  BY <1>1, <1>2 DEF Entry
<1>5. OccupiedSlots' = OccupiedSlots \cup {slot} /\ slot \notin OccupiedSlots
  BY <1>1, <1>2, <1>3 DEF OccupiedSlots
<1>6. HalfEmpty'
  <2>1. IsFiniteSet(0 .. capacity - 1) /\ OccupiedSlots \in SUBSET (0 .. capacity - 1)
    BY <1>1, FS_Interval DEF OccupiedSlots
  <2>2. Cardinality(OccupiedSlots') = Cardinality(OccupiedSlots) + 1
    BY <2>1, <1>5, FS_Subset, FS_AddElement
  <2> QED BY <2>2, <1>1, <1>2 DEF IInv, HalfEmpty
<1>7. NoGapOnPath'
  <2> SUFFICES ASSUME NEW s \in OccupiedSlots',
                      NEW d \in (0 .. Distance(entries[s].key, s))'
               PROVE  Occupied(At(entries[s].key, d))'
    BY DEF NoGapOnPath
  <2>1. s \in 0 .. capacity - 1 /\ entries'[s].key \in Key
    BY <1>1, <1>3, <1>5, EntryType DEF IInv, OccupiedSlots
  <2>2. PICK k \in Key : k = entries'[s].key
    BY <2>1
  <2>3. Distance(k, s) \in 0 .. capacity - 1 /\ d \in 0 .. Distance(k, s)
    BY <2>1, <2>2, <1>1, <1>2, ProbeGeometry DEF IInv, Distance, Home
  <2>4. At(entries[s].key, d)' = entries'[SlotAt(k, d)]
    BY <2>2, <1>2 DEF At, SlotAt, Home
  <2>5. SlotAt(k, d) \in 0 .. capacity - 1
    <3>1. d \in 0 .. capacity - 1
      BY <2>3, <1>1
    <3> QED BY <3>1, <1>1, ProbeGeometry DEF IInv
  <2>6. Occupied(entries[SlotAt(k, d)]) => Occupied(At(entries[s].key, d))'
    BY <2>4, <2>5, <1>3 DEF Occupied
  <2>7. CASE s # slot
    <3>1. s \in OccupiedSlots /\ k = entries[s].key
      BY <2>1, <2>2, <2>7, <1>3, <1>5
    <3> QED BY <2>3, <2>6, <3>1 DEF IInv, NoGapOnPath, At
  <2>8. CASE s = slot /\ d < Distance(k, s)
    <3>1. k = CurrentKey /\ d \in 0 .. Distance(CurrentKey, slot) - 1
      BY <2>2, <2>3, <2>8, <1>1, <1>3
    <3> QED BY <2>6, <3>1 DEF IInv, Probed, At
  <2>9. CASE s = slot /\ d = Distance(k, s)
    <3>1. SlotAt(k, d) = slot
      BY <2>1, <2>9, <1>1, ProbeGeometry DEF IInv
    <3> QED BY <2>4, <3>1, <1>3 DEF Occupied
  <2> QED BY <2>3, <2>7, <2>8, <2>9
<1> QED BY <1>1, <1>2, <1>4, <1>6, <1>7

-----------------------------------------------------------------------------
(* One lemma per action.                                                   *)

LEMMA CreateIInv ==
  ASSUME IInv, NEW n \in 0..MaxSize, Create(n)
  PROVE  IInv'
<1>1. /\ pc = "none" /\ pc' = "idle" /\ capacity = 0 /\ size = 0 /\ old_capacity = 0
      /\ UNCHANGED <<size, unique_size, uniq, thread, key, rehashVars, probeVars,
                     result, keyOf, released, it>>
  BY DEF Create, IInv, Phases
<1>2. UNCHANGED old_entries /\ UNCHANGED old_capacity /\ UNCHANGED i
  BY <1>1 DEF rehashVars
<1>3. Moved' /\ Probed' /\ Phases'
  BY <1>1, <1>2 DEF IInv, Moved, Probed, Phases
<1>4. OldOccupied' = OldOccupied
  BY <1>2 DEF OldOccupied
<1>5. Room'
  BY <1>1, <1>4 DEF IInv, Room
<1>6. CASE Fits(n) /\ UNCHANGED <<capacity, entries>>
  <2>1. HalfEmpty' /\ NoGapOnPath'
    BY <1>1, <1>2, <1>6, SameTables DEF table
  <2>2. TypeOK'
    BY <1>1, <1>2, <1>6 DEF IInv, TypeOK, probeVars
  <2> QED BY <1>3, <1>5, <2>1, <2>2 DEF IInv
<1>7. CASE ~Fits(n)
  <2>1. PICK c \in 1..PrimeCapacities[NumPrimes] :
          /\ IsNewCapacity(c, MinCapacity(n))
          /\ capacity' = c
          /\ entries' = [s \in 0 .. c - 1 |-> Blank]
    BY <1>7 DEF Create
  <2>2. c \in Nat
    BY <2>1, NewCapacity, MaxSizeAssumption
  <2>3. /\ entries' \in [0 .. capacity' - 1 -> Entry]
        /\ Cardinality(OccupiedSlots') = 0 /\ NoGapOnPath'
    BY <2>1, <2>2, BlankTable
  <2>4. HalfEmpty'
    BY <1>1, <2>1, <2>2, <2>3 DEF HalfEmpty, InverseMaxOccupancy
  <2>5. TypeOK'
    BY <1>1, <1>2, <2>1, <2>2, <2>3 DEF IInv, TypeOK, probeVars
  <2> QED BY <1>3, <1>5, <2>3, <2>4, <2>5 DEF IInv
<1> QED BY <1>6, <1>7 DEF Create

LEMMA AddInPlaceIInv ==
  ASSUME IInv, NEW t \in Thread, NEW k \in Key, AddInPlace(t, k)
  PROVE  IInv'
<1>1. /\ pc = "idle" /\ Len(keyOf) < MaxSize /\ MinCapacity(size + 1) <= capacity
      /\ thread' = t /\ key' = k /\ pc' = "adding"
      /\ slot' = Hash[k] % capacity /\ is_duplicate' = FALSE
      /\ UNCHANGED <<table, uniq, rehashVars, result, keyOf, released, it>>
  BY DEF AddInPlace, Idle, Fits, StartProbe
<1>2. /\ UNCHANGED <<table, old_capacity, old_entries, i>>
      /\ UNCHANGED capacity /\ UNCHANGED size
  BY <1>1 DEF rehashVars, table
<1>3. HalfEmpty' /\ Moved' /\ NoGapOnPath' /\ OldOccupied' = OldOccupied
  BY <1>2, SameTables
<1>4. size \in Nat /\ capacity \in Nat \ {0} /\ Len(keyOf) \in Nat /\ MaxSize \in Nat
  BY <1>1, MaxSizeAssumption DEF IInv, TypeOK, MinCapacity, InverseMaxOccupancy
<1>5. slot' \in 0 .. capacity - 1
  BY <1>1, <1>4, ModRange, HashAssumption
<1>6. TypeOK' /\ Phases'
  <2>1. UNCHANGED <<capacity, size, unique_size, entries, old_capacity, old_entries, i>>
    BY <1>1 DEF rehashVars, table
  <2>2. TypeOK'
    <3>1. slot' \in Nat
      BY <1>4, <1>5
    <3>2. /\ UNCHANGED <<uniq, result, keyOf, it>>
          /\ thread' = t /\ key' = k /\ pc' = "adding" /\ is_duplicate' = FALSE
      BY <1>1
    <3> QED BY <3>1, <3>2, <2>1 DEF IInv, TypeOK
  <2>3. Phases'
    BY <1>1, <1>5, <2>1 DEF IInv, Phases
  <2> QED BY <2>2, <2>3
<1>7. Room'
  <2>1. OldOccupied = {}
    BY <1>1 DEF IInv, Phases, OldOccupied
  <2>2. size = Len(keyOf)
    BY <1>1, <1>4, <2>1, FS_EmptySet DEF IInv, Room
  <2> QED BY <1>1, <1>2, <1>3, <1>4, <2>2 DEF IInv, Room, MinCapacity, InverseMaxOccupancy
<1>8. Probed'
  <2>1. CurrentKey' = k
    BY <1>1 DEF CurrentKey
  <2>2. Distance(CurrentKey, slot)' = 0
    BY <1>1, <1>2, <1>4, <1>5, <2>1 DEF Distance, Home
  <2> QED BY <2>2 DEF Probed
<1> QED BY <1>3, <1>6, <1>7, <1>8 DEF IInv

LEMMA AddGrowIInv ==
  ASSUME IInv, NEW t \in Thread, NEW k \in Key, AddGrow(t, k)
  PROVE  IInv'
<1>1. /\ pc = "idle" /\ Len(keyOf) < MaxSize
      /\ old_capacity' = capacity /\ old_entries' = entries /\ i' = 0
      /\ size' = 0 /\ unique_size' = 0
      /\ thread' = t /\ key' = k /\ pc' = "rehash"
      /\ it' = [it EXCEPT !.grown = TRUE]
      /\ UNCHANGED <<uniq, probeVars, result, keyOf, released>>
  BY DEF AddGrow, Idle
<1>2. /\ size \in Nat /\ capacity \in Nat /\ Len(keyOf) \in Nat /\ MaxSize \in Nat
      /\ size = Cardinality(OccupiedSlots)
  BY MaxSizeAssumption DEF IInv, TypeOK, HalfEmpty
<1>3. size = Len(keyOf)
  <2>1. OldOccupied = {}
    BY <1>1 DEF IInv, Phases, OldOccupied
  <2> QED BY <1>1, <1>2, <2>1, FS_EmptySet DEF IInv, Room
<1>4. PICK c \in 1..PrimeCapacities[NumPrimes] :
        /\ IsNewCapacity(c, MinCapacity(size + 1))
        /\ capacity' = c
        /\ entries' = [s \in 0 .. c - 1 |-> Blank]
  BY DEF AddGrow
<1>5. c \in Nat \ {0} /\ InverseMaxOccupancy * (size + 1) <= c
  <2>1. size + 1 \in Nat /\ size + 1 <= MaxSize
    BY <1>1, <1>2, <1>3
  <2> QED BY <1>4, <2>1, NewCapacity
<1>6. /\ entries' \in [0 .. capacity' - 1 -> Entry]
      /\ Cardinality(OccupiedSlots') = 0 /\ NoGapOnPath'
  BY <1>4, <1>5, BlankTable
<1>7. OldOccupied' = OccupiedSlots
  BY <1>1 DEF OldOccupied, OccupiedSlots
<1>8. TypeOK'
  <2>1. it' \in [key : Key \cup {NULL}, prev : Nat, seen : Seq(Nat), all : SUBSET Nat,
                 done : BOOLEAN, grown : BOOLEAN]
    BY <1>1 DEF IInv, TypeOK
  <2>2. /\ capacity' \in Nat /\ size' \in Nat /\ unique_size' \in Nat
        /\ old_capacity' \in Nat /\ i' \in 0..old_capacity'
        /\ old_entries' \in [0 .. old_capacity' - 1 -> Entry]
    BY <1>1, <1>2, <1>4, <1>5 DEF IInv, TypeOK
  <2> QED BY <1>1, <1>6, <2>1, <2>2 DEF IInv, TypeOK, probeVars
<1>9. Phases' /\ Moved' /\ Probed'
  <2>1. it'.done = it.done /\ it'.key = it.key
    BY <1>1 DEF IInv, TypeOK
  <2> QED BY <1>1, <2>1 DEF IInv, Phases, Moved, Probed
<1>10. HalfEmpty'
  BY <1>1, <1>4, <1>5, <1>6 DEF HalfEmpty, InverseMaxOccupancy
<1>11. Room'
  <2>1. size' + Cardinality(OldOccupied') = Len(keyOf')
    <3>1. Cardinality(OldOccupied') = size
      BY <1>2, <1>7
    <3> QED BY <1>1, <1>2, <1>3, <3>1
  <2>2. Len(keyOf') < MaxSize /\ InverseMaxOccupancy * (Len(keyOf') + 1) <= capacity'
    BY <1>1, <1>3, <1>4, <1>5
  <2> QED BY <1>1, <1>2, <2>1, <2>2 DEF Room
<1> QED BY <1>6, <1>8, <1>9, <1>10, <1>11 DEF IInv

\* The steps that leave both tables and the phase of the call alone.
LEMMA QuietIInv ==
  ASSUME IInv, pc = "idle",
         UNCHANGED <<table, uniq, pc, rehashVars, probeVars, keyOf>>,
         thread' \in Thread, key' \in Key \cup {NULL}, result' \in BOOLEAN,
         it' \in [key : Key \cup {NULL}, prev : Nat, seen : Seq(Nat), all : SUBSET Nat,
                  done : BOOLEAN, grown : BOOLEAN],
         ~it'.done => it'.key \in Key
  PROVE  IInv'
<1>1. /\ UNCHANGED <<table, old_capacity, old_entries, i>>
      /\ UNCHANGED size /\ UNCHANGED capacity
  BY DEF rehashVars, table
<1>2. HalfEmpty' /\ Moved' /\ NoGapOnPath' /\ OldOccupied' = OldOccupied
  BY <1>1, SameTables
<1>3. TypeOK' /\ Phases' /\ Probed'
  BY <1>1 DEF IInv, TypeOK, Phases, Probed, table, probeVars
<1>4. Room'
  BY <1>1, <1>2 DEF IInv, Room
<1> QED BY <1>2, <1>3, <1>4 DEF IInv

LEMMA AddNoMemoryIInv ==
  ASSUME IInv, NEW t \in Thread, NEW k \in Key, AddNoMemory(t, k)
  PROVE  IInv'
<1>1. it' \in [key : Key \cup {NULL}, prev : Nat, seen : Seq(Nat), all : SUBSET Nat,
               done : BOOLEAN, grown : BOOLEAN]
  BY DEF AddNoMemory, IInv, TypeOK
<1>2. ~it'.done => it'.key \in Key
  BY DEF AddNoMemory, IInv, Phases
<1> QED BY <1>1, <1>2, QuietIInv DEF AddNoMemory, Idle

LEMMA RehashSkipIInv == IInv /\ RehashSkip => IInv'
<1> SUFFICES ASSUME IInv, RehashSkip PROVE IInv'
  OBVIOUS
<1>1. /\ pc = "rehash" /\ i < old_capacity /\ ~Occupied(old_entries[i])
      /\ i' = i + 1 /\ i \in Nat /\ old_capacity \in Nat
      /\ UNCHANGED <<table, uniq, pc, thread, key, old_capacity, old_entries,
                     probeVars, result, keyOf, released, it>>
  BY DEF RehashSkip, IInv, TypeOK
<1>2. UNCHANGED <<capacity, size, unique_size, entries, slot, is_duplicate>>
  BY <1>1 DEF table, probeVars
<1>3. OccupiedSlots' = OccupiedSlots /\ OldOccupied' = OldOccupied
  BY <1>1, <1>2 DEF OccupiedSlots, OldOccupied
<1>4. TypeOK'
  <2>1. i' \in 0..old_capacity
    BY <1>1
  <2>2. UNCHANGED <<uniq, pc, thread, key, old_capacity, old_entries, result, keyOf, it>>
    BY <1>1
  <2> QED BY <1>2, <2>1, <2>2 DEF IInv, TypeOK
<1>5. Phases' /\ Probed'
  BY <1>1, <1>2 DEF IInv, Phases, Probed
<1>6. HalfEmpty' /\ Room'
  BY <1>1, <1>2, <1>3 DEF IInv, HalfEmpty, Room
<1>7. Moved'
  BY <1>1 DEF IInv, Moved
<1>8. NoGapOnPath'
  BY <1>2, <1>3 DEF IInv, NoGapOnPath, Distance, At, SlotAt, Home
<1> QED BY <1>4, <1>5, <1>6, <1>7, <1>8 DEF IInv

\* While an entry is being moved or added, the table has room for it; when
\* it is being moved, it is the next of the entries counted by Room.
LEMMA MoveHasRoom ==
  ASSUME IInv, pc \in {"rehash", "moving"}, i < old_capacity, Occupied(old_entries[i])
  PROVE  /\ InverseMaxOccupancy * (size + 1) <= capacity
         /\ i \in OldOccupied
         /\ IsFiniteSet(OldOccupied)
<1>1. /\ size \in Nat /\ capacity \in Nat /\ Len(keyOf) \in Nat
      /\ old_capacity \in Nat /\ i \in 0 .. old_capacity - 1
  BY DEF IInv, TypeOK
<1>2. i \in OldOccupied
  BY <1>1 DEF OldOccupied
<1>3. IsFiniteSet(0 .. old_capacity - 1) /\ OldOccupied \in SUBSET (0 .. old_capacity - 1)
  <2>1. IsFiniteSet(0 .. old_capacity - 1)
    BY <1>1, FS_Interval
  <2> QED BY <2>1 DEF OldOccupied
<1>4. IsFiniteSet(OldOccupied)
  BY <1>3, FS_Subset
<1>5. Cardinality(OldOccupied) \in Nat /\ Cardinality(OldOccupied) # 0
  BY <1>2, <1>4, FS_CardinalityType, FS_EmptySet
<1>6. size + 1 <= Len(keyOf)
  BY <1>1, <1>5 DEF IInv, Room
<1>7. InverseMaxOccupancy * (Len(keyOf) + 1) <= capacity
  BY DEF IInv, Room
<1> QED BY <1>1, <1>2, <1>4, <1>6, <1>7 DEF InverseMaxOccupancy

\* (NestedAddNeverGrows) follows from the invariant.
LEMMA IInvNested == IInv => NestedAddNeverGrows
  BY MoveHasRoom DEF NestedAddNeverGrows, Fits, MinCapacity, InverseMaxOccupancy, IInv, TypeOK

LEMMA RehashMoveIInv == IInv /\ RehashMove => IInv'
<1> SUFFICES ASSUME IInv, RehashMove PROVE IInv'
  OBVIOUS
<1>1. /\ pc = "rehash" /\ i < old_capacity /\ Occupied(old_entries[i])
      /\ slot' = Hash[old_entries[i].key] % capacity /\ is_duplicate' = FALSE
      /\ pc' = "moving"
      /\ UNCHANGED <<table, uniq, thread, key, rehashVars, result, keyOf, released, it>>
  BY DEF RehashMove, StartProbe
<1>2. UNCHANGED <<capacity, size, unique_size, entries, old_capacity, old_entries, i>>
  BY <1>1 DEF table, rehashVars
<1>3. HalfEmpty' /\ Moved' /\ NoGapOnPath' /\ OldOccupied' = OldOccupied
  BY <1>2, SameTables DEF table
<1>4. capacity \in Nat \ {0} /\ old_entries[i].key \in Key
  <2>1. size \in Nat /\ capacity \in Nat /\ i \in 0 .. old_capacity - 1
    BY <1>1 DEF IInv, TypeOK
  <2>2. capacity > 0
    BY <1>1, <2>1, MoveHasRoom DEF InverseMaxOccupancy
  <2> QED BY <1>1, <2>1, <2>2 DEF IInv, TypeOK, Entry, Occupied
<1>5. slot' \in 0 .. capacity - 1
  BY <1>1, <1>4, ModRange, HashAssumption
<1>6. TypeOK'
  <2>1. slot' \in Nat /\ UNCHANGED <<uniq, thread, key, result, keyOf, it>>
    BY <1>1, <1>4, <1>5
  <2> QED BY <1>1, <1>2, <2>1 DEF IInv, TypeOK
<1>7. Phases' /\ Room'
  BY <1>1, <1>2, <1>3, <1>5 DEF IInv, Phases, Room
<1>8. Probed'
  <2>1. CurrentKey' = old_entries[i].key
    BY <1>1, <1>2 DEF CurrentKey
  <2>2. Distance(CurrentKey, slot)' = 0
    BY <1>1, <1>2, <1>4, <1>5, <2>1 DEF Distance, Home
  <2> QED BY <2>2 DEF Probed
<1> QED BY <1>3, <1>6, <1>7, <1>8 DEF IInv

LEMMA RehashDoneIInv == IInv /\ RehashDone => IInv'
<1> SUFFICES ASSUME IInv, RehashDone PROVE IInv'
  OBVIOUS
<1>1. /\ pc = "rehash" /\ i = old_capacity
      /\ old_capacity' = 0 /\ old_entries' = NoOldEntries /\ i' = 0
      /\ slot' = Hash[key] % capacity /\ is_duplicate' = FALSE
      /\ pc' = "adding"
      /\ UNCHANGED <<table, uniq, thread, key, result, keyOf, released, it>>
  BY DEF RehashDone, StartProbe
<1>2. UNCHANGED <<capacity, size, unique_size, entries>>
  BY <1>1 DEF table
<1>3. /\ size \in Nat /\ capacity \in Nat \ {0} /\ Len(keyOf) \in Nat /\ key \in Key
      /\ old_capacity \in Nat
  BY <1>1 DEF IInv, TypeOK, Phases, Room, InverseMaxOccupancy
<1>4. slot' \in 0 .. capacity - 1
  BY <1>1, <1>3, ModRange, HashAssumption
<1>5. OccupiedSlots' = OccupiedSlots /\ OldOccupied = {} /\ OldOccupied' = {}
  BY <1>1, <1>2, <1>3 DEF IInv, Moved, OccupiedSlots, OldOccupied
<1>6. TypeOK'
  <2>1. slot' \in Nat /\ UNCHANGED <<uniq, thread, key, result, keyOf, it>>
    BY <1>1, <1>3, <1>4
  <2>2. old_entries' \in [0 .. old_capacity' - 1 -> Entry] /\ i' \in 0..old_capacity'
    BY <1>1 DEF NoOldEntries
  <2> QED BY <1>1, <1>2, <2>1, <2>2 DEF IInv, TypeOK
<1>7. Phases' /\ Room' /\ Moved'
  BY <1>1, <1>2, <1>3, <1>4, <1>5 DEF IInv, Phases, Room, Moved
<1>8. HalfEmpty' /\ NoGapOnPath'
  BY <1>2, <1>5 DEF IInv, HalfEmpty, NoGapOnPath, Distance, At, SlotAt, Home
<1>9. Probed'
  <2>1. CurrentKey' = key
    BY <1>1 DEF CurrentKey
  <2>2. Distance(CurrentKey, slot)' = 0
    BY <1>1, <1>2, <1>3, <1>4, <2>1 DEF Distance, Home
  <2> QED BY <2>2 DEF Probed
<1> QED BY <1>6, <1>7, <1>8, <1>9 DEF IInv

LEMMA CurrentKeyType ==
  ASSUME IInv, pc \in {"moving", "adding"}
  PROVE  /\ CurrentKey \in Key /\ CurrentValue \in Nat
         /\ InverseMaxOccupancy * (size + 1) <= capacity
         /\ capacity \in Nat \ {0} /\ slot \in 0 .. capacity - 1
<1>1. /\ capacity \in Nat /\ size \in Nat /\ Len(keyOf) \in Nat
      /\ slot \in 0 .. capacity - 1
  BY DEF IInv, TypeOK, Phases
<1>2. CASE pc = "moving"
  <2>1. /\ i < old_capacity /\ Occupied(old_entries[i])
        /\ old_entries[i] \in Entry
    BY <1>2 DEF IInv, TypeOK, Phases
  <2> QED BY <1>1, <1>2, <2>1, MoveHasRoom DEF CurrentKey, CurrentValue, Entry, Occupied
<1>3. CASE pc = "adding"
  <2>1. OldOccupied = {}
    BY <1>3 DEF IInv, Phases, OldOccupied
  <2>2. size = Len(keyOf)
    BY <1>1, <1>3, <2>1, FS_EmptySet DEF IInv, Room
  <2> QED BY <1>1, <1>3, <2>2 DEF IInv, Phases, Room, CurrentKey, CurrentValue
<1> QED BY <1>2, <1>3

LEMMA ProbeNextIInv == IInv /\ ProbeNext => IInv'
<1> SUFFICES ASSUME IInv, ProbeNext PROVE IInv'
  OBVIOUS
<1>1. /\ pc \in {"moving", "adding"} /\ Occupied(entries[slot])
      /\ is_duplicate' = (is_duplicate \/ entries[slot].key = CurrentKey)
      /\ slot' = NextSlot(slot)
      /\ UNCHANGED <<table, uniq, pc, thread, key, rehashVars, result, keyOf, released, it>>
  BY DEF ProbeNext
<1>2. UNCHANGED <<capacity, size, unique_size, entries, old_capacity, old_entries, i>>
  BY <1>1 DEF table, rehashVars
<1>3. HalfEmpty' /\ Moved' /\ NoGapOnPath' /\ OldOccupied' = OldOccupied
  BY <1>2, SameTables DEF table
<1>4. /\ CurrentKey \in Key /\ CurrentKey' = CurrentKey
      /\ capacity \in Nat \ {0} /\ slot \in 0 .. capacity - 1
  BY <1>1, <1>2, CurrentKeyType DEF CurrentKey
<1> DEFINE k == CurrentKey
<1>5. /\ Distance(k, slot) \in 0 .. capacity - 1
      /\ SlotAt(k, Distance(k, slot)) = slot
      /\ slot' \in 0 .. capacity - 1
      /\ Distance(k, slot') \in {0, Distance(k, slot) + 1}
  BY <1>1, <1>4, ProbeGeometry DEF IInv
<1>6. TypeOK'
  <2>1. slot' \in Nat /\ is_duplicate' \in BOOLEAN
        /\ UNCHANGED <<uniq, pc, thread, key, result, keyOf, it>>
    BY <1>1, <1>4, <1>5 DEF IInv, TypeOK
  <2> QED BY <1>2, <2>1 DEF IInv, TypeOK
<1>7. Phases' /\ Room'
  BY <1>1, <1>2, <1>3, <1>5 DEF IInv, Phases, Room
<1>8. Probed'
  <2>1. \A d \in 0 .. Distance(k, slot) : Occupied(At(k, d))
    BY <1>1, <1>5 DEF IInv, Probed, At
  <2>2. Distance(CurrentKey, slot)' = Distance(k, slot')
    BY <1>2, <1>4 DEF Distance, Home
  <2>3. \A d : At(CurrentKey, d)' = At(k, d)
    BY <1>2, <1>4 DEF At, SlotAt, Home
  <2> HIDE DEF k
  <2>4. \A d \in 0 .. Distance(k, slot') - 1 : d \in 0 .. Distance(k, slot)
    BY <1>4, <1>5
  <2> QED BY <2>1, <2>2, <2>3, <2>4 DEF Probed
<1> QED BY <1>3, <1>6, <1>7, <1>8 DEF IInv

LEMMA PlaceMovedIInv == IInv /\ PlaceMoved => IInv'
<1> SUFFICES ASSUME IInv, PlaceMoved PROVE IInv'
  OBVIOUS
<1>1. /\ pc = "moving" /\ Store
      /\ old_entries' = [old_entries EXCEPT ![i].key = NULL, ![i].value = NoValue]
      /\ i' = i + 1 /\ pc' = "rehash"
      /\ UNCHANGED <<thread, key, old_capacity, result, keyOf, released, it>>
  BY DEF PlaceMoved
<1>2. /\ capacity' = capacity /\ size' = size + 1 /\ UNCHANGED <<slot, is_duplicate>>
  BY <1>1 DEF Store, probeVars
<1>3. /\ entries' \in [0 .. capacity' - 1 -> Entry] /\ uniq' \in [Thread -> Nat]
      /\ size' \in Nat /\ unique_size' \in Nat
      /\ HalfEmpty' /\ NoGapOnPath'
  BY <1>1, CurrentKeyType, StoreKeepsOrder
<1>4. /\ i \in 0 .. old_capacity - 1 /\ old_capacity \in Nat
      /\ old_entries \in [0 .. old_capacity - 1 -> Entry]
  BY <1>1 DEF IInv, TypeOK, Phases
<1>5. /\ old_entries' \in [0 .. old_capacity - 1 -> Entry]
      /\ ~Occupied(old_entries'[i])
      /\ \A s \in 0 .. old_capacity - 1 : s # i => old_entries'[s] = old_entries[s]
  BY <1>1, <1>4 DEF Entry, NoValue, Occupied
<1>6. TypeOK'
  <2>1. i' \in 0 .. old_capacity'
    BY <1>1, <1>4
  <2>2. /\ UNCHANGED <<capacity, thread, key, old_capacity, result, keyOf, it>>
        /\ pc' = "rehash"
    BY <1>1, <1>2
  <2> QED BY <1>2, <1>3, <1>5, <2>1, <2>2 DEF IInv, TypeOK
<1>7. Room'
  <2>1. OldOccupied' = OldOccupied \ {i}
    BY <1>1, <1>4, <1>5 DEF OldOccupied
  <2>2. IsFiniteSet(OldOccupied) /\ i \in OldOccupied
    BY <1>1, MoveHasRoom DEF IInv, Phases
  <2>3. Cardinality(OldOccupied') = Cardinality(OldOccupied) - 1
    BY <2>1, <2>2, FS_RemoveElement
  <2>4. Cardinality(OldOccupied) \in Nat /\ size \in Nat /\ Len(keyOf) \in Nat
    BY <2>2, FS_CardinalityType DEF IInv, TypeOK
  <2> QED BY <1>1, <1>2, <2>3, <2>4 DEF IInv, Room
<1>8. Moved'
  <2>1. \A s \in 0 .. i' - 1 : s \in 0 .. old_capacity - 1 /\ (s = i \/ s \in 0 .. i - 1)
    BY <1>1, <1>4
  <2> QED BY <1>4, <1>5, <2>1 DEF IInv, Moved, Occupied
<1>9. Phases' /\ Probed'
  BY <1>1, <1>2 DEF IInv, Phases, Probed
<1> QED BY <1>3, <1>6, <1>7, <1>8, <1>9 DEF IInv

LEMMA PlaceAddedIInv == IInv /\ PlaceAdded => IInv'
<1> SUFFICES ASSUME IInv, PlaceAdded PROVE IInv'
  OBVIOUS
<1>1. /\ pc = "adding" /\ Store /\ keyOf' = Append(keyOf, key)
      /\ result' = TRUE /\ pc' = "idle"
      /\ UNCHANGED <<thread, key, rehashVars, released, it>>
  BY DEF PlaceAdded
<1>2. /\ UNCHANGED <<capacity, slot, is_duplicate, old_capacity, old_entries, i>>
      /\ size' = size + 1
  BY <1>1 DEF Store, probeVars, rehashVars
<1>3. /\ entries' \in [0 .. capacity' - 1 -> Entry] /\ uniq' \in [Thread -> Nat]
      /\ size' \in Nat /\ unique_size' \in Nat
      /\ HalfEmpty' /\ NoGapOnPath'
  BY <1>1, CurrentKeyType, StoreKeepsOrder
<1>4. /\ key \in Key /\ keyOf \in Seq(Key) /\ capacity \in Nat /\ size \in Nat
      /\ MaxSize \in Nat
  BY <1>1, MaxSizeAssumption DEF IInv, TypeOK, Phases
<1>5. keyOf' \in Seq(Key) /\ Len(keyOf') = Len(keyOf) + 1 /\ Len(keyOf) \in Nat
  BY <1>1, <1>4
<1>6. TypeOK'
  <2>1. UNCHANGED <<capacity, thread, key, old_capacity, old_entries, i, slot, is_duplicate, it>>
    BY <1>1, <1>2
  <2> QED BY <1>1, <1>3, <1>5, <2>1 DEF IInv, TypeOK
<1>7. Phases' /\ Moved' /\ Probed'
  BY <1>1, <1>2 DEF IInv, Phases, Moved, Probed
<1>8. Room'
  <2>1. OldOccupied' = {} /\ OldOccupied = {}
    BY <1>1, <1>2 DEF IInv, Phases, OldOccupied
  <2>2. size = Len(keyOf)
    BY <1>1, <1>4, <1>5, <2>1, FS_EmptySet DEF IInv, Room
  <2>3. Len(keyOf) + 1 <= MaxSize
    BY <1>1, <1>4, <1>5 DEF IInv, Room
  <2> QED BY <1>1, <1>2, <1>5, <2>1, <2>2, <2>3, FS_EmptySet DEF Room
<1> QED BY <1>3, <1>6, <1>7, <1>8 DEF IInv

LEMMA LookupFirstIInv ==
  ASSUME IInv, NEW k \in Key, LookupFirst(k)
  PROVE  IInv'
<1>1. TypeOK /\ pc = "idle"
  BY DEF IInv, LookupFirst
<1>2. PICK v \in Nat : v = ObjectNext(k, NoValue)
  BY <1>1, ObjectNextType DEF NoValue
<1>3. it' = [key |-> k, prev |-> v, seen |-> IF v = NoValue THEN <<>> ELSE <<v>>,
             all |-> ValuesOf(k), done |-> v = NoValue, grown |-> FALSE]
  BY <1>2 DEF LookupFirst
<1>4. ValuesOf(k) \in SUBSET Nat
  BY <1>1 DEF ValuesOf, TypeOK
<1>5. (IF v = NoValue THEN <<>> ELSE <<v>>) \in Seq(Nat)
  OBVIOUS
<1>6. it' \in [key : Key \cup {NULL}, prev : Nat, seen : Seq(Nat), all : SUBSET Nat,
               done : BOOLEAN, grown : BOOLEAN]
  BY <1>3, <1>4, <1>5
<1>7. thread' \in Thread /\ key' \in Key \cup {NULL} /\ result' \in BOOLEAN
  BY <1>1 DEF LookupFirst, TypeOK
<1>8. ~it'.done => it'.key \in Key
  BY <1>3
<1> QED BY <1>1, <1>6, <1>7, <1>8, QuietIInv DEF LookupFirst

LEMMA LookupNextIInv == IInv /\ LookupNext => IInv'
<1> SUFFICES ASSUME IInv, LookupNext PROVE IInv'
  OBVIOUS
<1>1. TypeOK /\ pc = "idle"
  BY DEF IInv, LookupNext
<1>2. PICK v : /\ v = ObjectNext(it.key, it.prev)
               /\ it' = [it EXCEPT !.prev = v, !.done = (v = NoValue),
                                   !.seen = IF v = NoValue THEN @ ELSE Append(@, v)]
  BY DEF LookupNext
<1>3. it \in [key : Key \cup {NULL}, prev : Nat, seen : Seq(Nat), all : SUBSET Nat,
              done : BOOLEAN, grown : BOOLEAN]
  BY <1>1 DEF TypeOK
<1>4. v \in Nat
  <2>1. it.key \in Key
    BY DEF IInv, Phases, LookupNext
  <2> QED BY <1>1, <1>2, <1>3, <2>1, ObjectNextType
<1>5. (IF v = NoValue THEN it.seen ELSE Append(it.seen, v)) \in Seq(Nat)
  BY <1>3, <1>4
<1>6. it' \in [key : Key \cup {NULL}, prev : Nat, seen : Seq(Nat), all : SUBSET Nat,
               done : BOOLEAN, grown : BOOLEAN]
  BY <1>2, <1>3, <1>4, <1>5
<1>7. thread' \in Thread /\ key' \in Key \cup {NULL} /\ result' \in BOOLEAN
  BY <1>1 DEF LookupNext, TypeOK
<1>8. ~it'.done => it'.key \in Key
  BY <1>2, <1>3 DEF IInv, Phases, LookupNext
<1> QED BY <1>1, <1>6, <1>7, <1>8, QuietIInv DEF LookupNext

LEMMA FreeIInv == IInv /\ Free => IInv'
<1> SUFFICES ASSUME IInv, Free PROVE IInv'
  OBVIOUS
<1>1. /\ pc = "idle" /\ pc' = "freed"
      /\ capacity' = 0 /\ size' = 0 /\ entries' = NoOldEntries
      /\ it' = NoIteration
      /\ UNCHANGED <<unique_size, uniq, thread, key, rehashVars, probeVars, result, keyOf>>
  BY DEF Free
<1>2. UNCHANGED <<old_capacity, old_entries, i, slot, is_duplicate>>
  BY <1>1 DEF rehashVars, probeVars
<1>3. OccupiedSlots' = {} /\ Cardinality({}) = 0
  BY <1>1, FS_EmptySet DEF OccupiedSlots
<1>4. TypeOK'
  <2>1. entries' \in [0 .. capacity' - 1 -> Entry] /\ capacity' \in Nat /\ size' \in Nat
    BY <1>1 DEF NoOldEntries
  <2>2. it' \in [key : Key \cup {NULL}, prev : Nat, seen : Seq(Nat), all : SUBSET Nat,
                 done : BOOLEAN, grown : BOOLEAN]
    BY <1>1 DEF NoIteration, NoValue
  <2>3. UNCHANGED <<unique_size, uniq, thread, key, result, keyOf>>
    BY <1>1
  <2> QED BY <1>1, <1>2, <2>1, <2>2, <2>3 DEF IInv, TypeOK
<1>5. Phases' /\ Moved' /\ Probed'
  BY <1>1, <1>2 DEF IInv, Phases, Moved, Probed, NoIteration
<1>6. HalfEmpty' /\ NoGapOnPath'
  BY <1>1, <1>3 DEF HalfEmpty, NoGapOnPath, InverseMaxOccupancy
<1>7. Room'
  BY <1>1 DEF IInv, Room
<1> QED BY <1>4, <1>5, <1>6, <1>7 DEF IInv

LEMMA NextIInv == IInv /\ [Next]_vars => IInv'
<1> SUFFICES ASSUME IInv, [Next]_vars PROVE IInv'
  OBVIOUS
<1>1. CASE \E n \in 0..MaxSize : Create(n)
  BY <1>1, CreateIInv
<1>2. CASE \E t \in Thread, k \in Key : AddInPlace(t, k) \/ AddGrow(t, k) \/ AddNoMemory(t, k)
  BY <1>2, AddInPlaceIInv, AddGrowIInv, AddNoMemoryIInv
<1>3. CASE Step
  BY <1>3, RehashSkipIInv, RehashMoveIInv, RehashDoneIInv, ProbeNextIInv,
     PlaceMovedIInv, PlaceAddedIInv DEF Step
<1>4. CASE \E k \in Key : LookupFirst(k)
  BY <1>4, LookupFirstIInv
<1>5. CASE LookupNext
  BY <1>5, LookupNextIInv
<1>6. CASE Free
  BY <1>6, FreeIInv
<1>7. CASE UNCHANGED vars
  BY <1>7, StutterIInv
<1> QED BY <1>1, <1>2, <1>3, <1>4, <1>5, <1>6, <1>7 DEF Next

LEMMA SpecIInv == Spec => []IInv
  BY InitIInv, NextIInv, PTL DEF Spec

-----------------------------------------------------------------------------
\* Every variable has its type in every reachable state, an index never leaves
\* its array: the loops of object.c read no entry outside the two buffers.
THEOREM TypeCorrect == Spec => []TypeOK
<1>1. IInv => TypeOK
  BY DEF IInv
<1> QED BY <1>1, SpecIInv, PTL

\* `size` is exact and half of every table is empty, for whatever keys, hashes
\* and numbers of entries: every probe loop of object.c meets an empty entry.
THEOREM HalfOfTheTableIsEmpty == Spec => []HalfEmpty
<1>1. IInv => HalfEmpty
  BY DEF IInv
<1> QED BY <1>1, SpecIInv, PTL

\* No search stops short of an entry that is stored, even in a table that is
\* only half rehashed.
THEOREM SearchesMeetNoGap == Spec => []NoGapOnPath
<1>1. IInv => NoGapOnPath
  BY DEF IInv
<1> QED BY <1>1, SpecIInv, PTL

\* The object_add inside object_reserve neither allocates nor fails: the
\* assertion around it (src/src/object.c:92) holds.
THEOREM RehashNeverNests == Spec => []NestedAddNeverGrows
  BY IInvNested, SpecIInv, PTL

-----------------------------------------------------------------------------
(* What is in the tables.  IInv counts entries; that they are the right    *)
(* ones, that none is there twice and that the duplicate test of           *)
(* object_add tells the truth is a second invariant on top of it.          *)

\* An entry holds a value that was added, under the key it was added with.
Truthful ==
  /\ \A s \in OccupiedSlots : /\ entries[s].value \in 1..Len(keyOf)
                              /\ keyOf[entries[s].value] = entries[s].key
  /\ \A s \in OldOccupied : /\ old_entries[s].value \in 1..Len(keyOf)
                            /\ keyOf[old_entries[s].value] = old_entries[s].key

\* No two entries hold the same value, neither in one table nor in both.
Unshared ==
  /\ \A s, r \in OccupiedSlots : entries[s].value = entries[r].value => s = r
  /\ \A s, r \in OldOccupied : old_entries[s].value = old_entries[r].value => s = r
  /\ \A s \in OccupiedSlots, r \in OldOccupied : entries[s].value # old_entries[r].value

\* Every value is in one of the tables.
Complete ==
  pc # "freed" =>
    \A v \in 1..Len(keyOf) : \/ \E s \in OccupiedSlots : entries[s].value = v
                             \/ \E s \in OldOccupied : old_entries[s].value = v

\* unique_size counts the different keys of the table, a half-filled one too.
KeysIn == {entries[s].key : s \in OccupiedSlots}
KeysCounted == pc # "freed" => unique_size = Cardinality(KeysIn)

\* is_duplicate: the probe loop has passed an entry with the key.
DuplicateSeen ==
  pc \in {"moving", "adding"} =>
    (is_duplicate <=>
       \E d \in 0 .. Distance(CurrentKey, slot) - 1 : At(CurrentKey, d).key = CurrentKey)

Contents == Truthful /\ Unshared /\ Complete /\ KeysCounted
CInv == IInv /\ Contents /\ DuplicateSeen /\ FreedExactlyOnce

\* A step that leaves the entries of both tables alone.
LEMMA SameContents ==
  ASSUME Contents, OccupiedSlots' = OccupiedSlots, OldOccupied' = OldOccupied,
         \A s \in OccupiedSlots : entries'[s] = entries[s],
         \A s \in OldOccupied : old_entries'[s] = old_entries[s],
         UNCHANGED <<keyOf, unique_size>>, pc # "freed"
  PROVE  Contents'
<1>1. Truthful'
  BY DEF Contents, Truthful
<1>2. Unshared'
  BY DEF Contents, Unshared
<1>3. Complete'
  BY DEF Contents, Complete
<1>4. KeysCounted'
  BY DEF Contents, KeysCounted, KeysIn
<1> QED BY <1>1, <1>2, <1>3, <1>4 DEF Contents

\* The probe loop does not come back to the slot it started from: there is an
\* empty one before.
LEMMA ProbeGoesOn ==
  ASSUME IInv, pc \in {"moving", "adding"}, Occupied(entries[slot])
  PROVE  Distance(CurrentKey, NextSlot(slot)) = Distance(CurrentKey, slot) + 1
<1>1. /\ CurrentKey \in Key /\ capacity \in Nat \ {0} /\ slot \in 0 .. capacity - 1
      /\ TypeOK
  BY CurrentKeyType DEF IInv
<1> DEFINE k == CurrentKey
<1>2. /\ Distance(k, slot) \in 0 .. capacity - 1
      /\ SlotAt(k, Distance(k, slot)) = slot
      /\ Distance(k, NextSlot(slot)) \in {0, Distance(k, slot) + 1}
      /\ Home(k) \in 0 .. capacity - 1
  BY <1>1, ProbeGeometry
<1>3. CASE Distance(k, slot) < capacity - 1
  BY <1>1, <1>2, <1>3 DEF Distance, NextSlot
<1>4. CASE Distance(k, slot) = capacity - 1
  <2>1. ASSUME NEW s \in 0 .. capacity - 1 PROVE Occupied(entries[s])
    <3>1. Distance(k, s) \in 0 .. capacity - 1 /\ SlotAt(k, Distance(k, s)) = s
      BY <1>1, ProbeGeometry
    <3> HIDE DEF k
    <3>2. CASE Distance(k, s) = capacity - 1
      BY <1>2, <1>4, <3>1, <3>2
    <3>3. CASE Distance(k, s) \in 0 .. Distance(k, slot) - 1
      BY <3>1, <3>3 DEF IInv, Probed, At, k
    <3> QED BY <1>1, <1>4, <3>1, <3>2, <3>3
  <2>2. OccupiedSlots = 0 .. capacity - 1
    BY <2>1 DEF OccupiedSlots
  <2>3. Cardinality(OccupiedSlots) = capacity
    <3>1. 0 \in Int /\ capacity - 1 \in Int /\ ~(0 > capacity - 1)
      BY <1>1
    <3> QED BY <1>1, <2>2, <3>1, FS_Interval
  <2> QED BY <1>1, <2>3 DEF IInv, HalfEmpty, InverseMaxOccupancy
<1> QED BY <1>1, <1>2, <1>3, <1>4

\* When the probe loop has met an empty entry, is_duplicate tells whether the
\* key is in the table at all.
LEMMA DuplicateIsExact ==
  ASSUME IInv, DuplicateSeen, pc \in {"moving", "adding"}, ~Occupied(entries[slot])
  PROVE  is_duplicate <=> CurrentKey \in KeysIn
<1>1. /\ CurrentKey \in Key /\ capacity \in Nat \ {0} /\ slot \in 0 .. capacity - 1
      /\ TypeOK
  BY CurrentKeyType DEF IInv
<1> DEFINE k == CurrentKey
<1>2. /\ Distance(k, slot) \in 0 .. capacity - 1
      /\ SlotAt(k, Distance(k, slot)) = slot
  BY <1>1, ProbeGeometry
<1>3. ASSUME is_duplicate PROVE k \in KeysIn
  <2>1. PICK d \in 0 .. Distance(k, slot) - 1 : At(k, d).key = k
    BY <1>3 DEF DuplicateSeen
  <2>2. d \in 0 .. capacity - 1
    BY <1>1, <1>2, <2>1
  <2>3. SlotAt(k, d) \in 0 .. capacity - 1
    BY <1>1, <2>2, ProbeGeometry
  <2>4. Occupied(entries[SlotAt(k, d)])
    BY <2>1 DEF IInv, Probed, At
  <2> QED BY <2>1, <2>3, <2>4 DEF KeysIn, OccupiedSlots, At
<1>4. ASSUME k \in KeysIn PROVE is_duplicate
  <2>1. PICK s \in OccupiedSlots : entries[s].key = k
    BY <1>4 DEF KeysIn
  <2>2. s \in 0 .. capacity - 1
    BY DEF OccupiedSlots
  <2>3. Distance(k, s) \in 0 .. capacity - 1 /\ SlotAt(k, Distance(k, s)) = s
    BY <1>1, <2>2, ProbeGeometry
  <2>4. \A d \in 0 .. Distance(k, s) : Occupied(At(k, d))
    BY <2>1 DEF IInv, NoGapOnPath
  <2>5. ~Occupied(At(k, Distance(k, slot)))
    BY <1>2 DEF At
  <2>6. Distance(k, s) \in 0 .. Distance(k, slot) - 1
    <3> HIDE DEF k
    <3> QED BY <1>1, <1>2, <2>3, <2>4, <2>5
  <2>7. At(k, Distance(k, s)).key = k
    BY <2>1, <2>3 DEF At
  <2> QED BY <2>6, <2>7 DEF DuplicateSeen
<1> QED BY <1>3, <1>4

\* Storing an entry counts its key once.
LEMMA StoreCountsKey ==
  ASSUME IInv, DuplicateSeen, KeysCounted, pc \in {"moving", "adding"}, Store
  PROVE  /\ OccupiedSlots' = OccupiedSlots \cup {slot} /\ slot \notin OccupiedSlots
         /\ \A s \in OccupiedSlots : entries'[s] = entries[s]
         /\ entries'[slot].key = CurrentKey /\ entries'[slot].value = CurrentValue
         /\ entries'[slot].id = uniq[thread]
         /\ KeysCounted'
<1>1. /\ CurrentKey \in Key /\ capacity \in Nat \ {0} /\ slot \in 0 .. capacity - 1
      /\ entries \in [0 .. capacity - 1 -> Entry]
  BY CurrentKeyType DEF IInv, TypeOK
<1>2. /\ capacity' = capacity /\ ~Occupied(entries[slot])
      /\ entries' = [entries EXCEPT ![slot] = [id |-> uniq[thread], key |-> CurrentKey,
                                               value |-> CurrentValue]]
      /\ unique_size' = IF is_duplicate THEN unique_size ELSE unique_size + 1
  BY DEF Store
<1>3. /\ entries'[slot] = [id |-> uniq[thread], key |-> CurrentKey, value |-> CurrentValue]
      /\ \A s \in 0 .. capacity - 1 : s # slot => entries'[s] = entries[s]
  BY <1>1, <1>2
<1>4. Occupied(entries'[slot]) /\ entries'[slot].key = CurrentKey
  BY <1>1, <1>3, KeyAssumption DEF Occupied
<1>5. OccupiedSlots' = OccupiedSlots \cup {slot} /\ slot \notin OccupiedSlots
  BY <1>1, <1>2, <1>3, <1>4 DEF OccupiedSlots
<1>6. \A s \in OccupiedSlots : entries'[s] = entries[s]
  BY <1>3, <1>5 DEF OccupiedSlots
<1>7. KeysIn' = KeysIn \cup {CurrentKey}
  BY <1>4, <1>5, <1>6 DEF KeysIn
<1>8. IsFiniteSet(KeysIn)
  <2>1. IsFiniteSet(0 .. capacity - 1) /\ OccupiedSlots \in SUBSET (0 .. capacity - 1)
    BY <1>1, FS_Interval DEF OccupiedSlots
  <2>2. IsFiniteSet(OccupiedSlots)
    BY <2>1, FS_Subset
  <2> DEFINE f == [s \in OccupiedSlots |-> entries[s].key]
  <2>3. f \in Surjection(OccupiedSlots, KeysIn)
    BY DEF KeysIn, Surjection
  <2> HIDE DEF f
  <2> QED BY <2>2, <2>3, FS_Surjection
<1>9. KeysCounted'
  <2>1. is_duplicate <=> CurrentKey \in KeysIn
    BY <1>2, DuplicateIsExact
  <2>2. Cardinality(KeysIn') = IF CurrentKey \in KeysIn THEN Cardinality(KeysIn)
                                                        ELSE Cardinality(KeysIn) + 1
    BY <1>7, <1>8, FS_AddElement
  <2>3. unique_size = Cardinality(KeysIn)
    BY DEF KeysCounted
  <2> QED BY <1>2, <2>1, <2>2, <2>3 DEF KeysCounted
<1> QED BY <1>3, <1>5, <1>6, <1>9

LEMMA InitCInv == Init => CInv
<1> SUFFICES ASSUME Init PROVE CInv
  OBVIOUS
<1>1. OccupiedSlots = {} /\ OldOccupied = {} /\ KeysIn = {}
  BY DEF Init, OccupiedSlots, OldOccupied, KeysIn
<1>2. KeysCounted
  BY <1>1, FS_EmptySet DEF Init, KeysCounted
<1>3. Truthful /\ Unshared /\ Complete
  BY <1>1 DEF Init, Truthful, Unshared, Complete
<1> QED BY <1>2, <1>3, InitIInv DEF Init, CInv, Contents, DuplicateSeen, FreedExactlyOnce

\* The steps outside of Store that do not change what is in the tables.
LEMMA QuietCInv ==
  ASSUME CInv, IInv', UNCHANGED <<table, old_capacity, old_entries, keyOf>>,
         pc # "freed", pc' # "freed",
         pc' \in {"moving", "adding"} => ~is_duplicate' /\ Distance(CurrentKey, slot)' = 0
  PROVE  CInv'
<1>1. OccupiedSlots' = OccupiedSlots /\ OldOccupied' = OldOccupied
  BY DEF table, OccupiedSlots, OldOccupied
<1>2. Contents'
  BY <1>1, SameContents DEF CInv, table
<1>3. DuplicateSeen'
  BY DEF DuplicateSeen
<1> QED BY <1>2, <1>3 DEF CInv, FreedExactlyOnce

\* A probe begins at the home slot of its key.
LEMMA ProbeBegins ==
  ASSUME capacity' \in Nat \ {0}, CurrentKey' \in Key,
         slot' = Hash[CurrentKey'] % capacity'
  PROVE  Distance(CurrentKey, slot)' = 0
<1>1. slot' \in 0 .. capacity' - 1
  BY ModRange, HashAssumption
<1> QED BY <1>1 DEF Distance, Home

LEMMA StutterCInv == CInv /\ UNCHANGED vars => CInv'
<1> SUFFICES ASSUME CInv, UNCHANGED vars PROVE CInv'
  OBVIOUS
<1>1. /\ UNCHANGED <<capacity, size, unique_size, entries, old_capacity, old_entries, i>>
      /\ UNCHANGED <<pc, key, slot, is_duplicate, keyOf, released>>
  BY DEF vars, table, rehashVars, probeVars
<1>2. OccupiedSlots' = OccupiedSlots /\ OldOccupied' = OldOccupied /\ KeysIn' = KeysIn
  BY <1>1 DEF OccupiedSlots, OldOccupied, KeysIn
<1>3. Contents'
  <2>1. Truthful' /\ Unshared'
    BY <1>1, <1>2 DEF CInv, Contents, Truthful, Unshared
  <2>2. Complete' /\ KeysCounted'
    BY <1>1, <1>2 DEF CInv, Contents, Complete, KeysCounted
  <2> QED BY <2>1, <2>2 DEF Contents
<1>4. DuplicateSeen'
  BY <1>1 DEF CInv, DuplicateSeen, CurrentKey, Distance, At, SlotAt, Home
<1>5. FreedExactlyOnce'
  BY <1>1 DEF CInv, FreedExactlyOnce
<1> QED BY <1>3, <1>4, <1>5, StutterIInv DEF CInv

LEMMA CreateCInv ==
  ASSUME CInv, NEW n \in 0..MaxSize, Create(n)
  PROVE  CInv'
<1>1. /\ pc = "none" /\ pc' = "idle" /\ keyOf = <<>> /\ keyOf' = <<>>
      /\ capacity = 0 /\ old_capacity = 0 /\ old_capacity' = 0 /\ unique_size' = unique_size
  BY DEF Create, CInv, IInv, Phases, rehashVars
<1>2. OccupiedSlots = {} /\ OldOccupied' = {}
  BY <1>1 DEF OccupiedSlots, OldOccupied
<1>3. OccupiedSlots' = {}
  <2>1. CASE UNCHANGED <<capacity, entries>>
    BY <1>2, <2>1 DEF OccupiedSlots
  <2>2. CASE \E c \in 1..PrimeCapacities[NumPrimes] :
               capacity' = c /\ entries' = [s \in 0 .. c - 1 |-> Blank]
    BY <2>2, BlankTable
  <2> QED BY <2>1, <2>2 DEF Create
<1>4. KeysIn = {} /\ KeysIn' = {}
  BY <1>2, <1>3 DEF KeysIn
<1>5. Contents'
  <2>1. Truthful' /\ Unshared' /\ Complete'
    BY <1>1, <1>2, <1>3 DEF Truthful, Unshared, Complete
  <2>2. KeysCounted'
    BY <1>1, <1>4 DEF CInv, Contents, KeysCounted
  <2> QED BY <2>1, <2>2 DEF Contents
<1>6. IInv'
  BY CreateIInv DEF CInv
<1> QED BY <1>1, <1>5, <1>6 DEF CInv, DuplicateSeen, FreedExactlyOnce

LEMMA AddInPlaceCInv ==
  ASSUME CInv, NEW t \in Thread, NEW k \in Key, AddInPlace(t, k)
  PROVE  CInv'
<1>1. /\ pc = "idle" /\ pc' = "adding" /\ key' = k /\ ~is_duplicate'
      /\ slot' = Hash[k] % capacity /\ MinCapacity(size + 1) <= capacity
      /\ UNCHANGED <<table, old_capacity, old_entries, keyOf>>
      /\ capacity' = capacity /\ CurrentKey' = k
  BY DEF AddInPlace, Idle, Fits, StartProbe, CurrentKey, rehashVars, table
<1>2. capacity \in Nat \ {0}
  BY <1>1 DEF CInv, IInv, TypeOK, MinCapacity, InverseMaxOccupancy
<1>3. Distance(CurrentKey, slot)' = 0
  BY <1>1, <1>2, ProbeBegins
<1>4. IInv'
  BY AddInPlaceIInv DEF CInv
<1> QED BY <1>1, <1>3, <1>4, QuietCInv

LEMMA AddGrowCInv ==
  ASSUME CInv, NEW t \in Thread, NEW k \in Key, AddGrow(t, k)
  PROVE  CInv'
<1>1. /\ pc = "idle" /\ pc' = "rehash" /\ keyOf' = keyOf /\ unique_size' = 0
      /\ old_capacity' = capacity /\ old_entries' = entries
  BY DEF AddGrow, Idle
<1>2. OccupiedSlots' = {}
  <2>1. PICK c \in 1..PrimeCapacities[NumPrimes] :
          capacity' = c /\ entries' = [s \in 0 .. c - 1 |-> Blank]
    BY DEF AddGrow
  <2> QED BY <2>1, BlankTable
<1>3. OldOccupied = {} /\ OldOccupied' = OccupiedSlots
  BY <1>1 DEF CInv, IInv, Phases, OccupiedSlots, OldOccupied
<1>4. Truthful'
  BY <1>1, <1>2, <1>3 DEF CInv, Contents, Truthful
<1>5. Unshared'
  BY <1>1, <1>2, <1>3 DEF CInv, Contents, Unshared
<1>6. Complete'
  BY <1>1, <1>3 DEF CInv, Contents, Complete
<1>7. KeysCounted'
  <2>1. KeysIn' = {}
    BY <1>2 DEF KeysIn
  <2> QED BY <1>1, <2>1, FS_EmptySet DEF KeysCounted
<1>8. IInv'
  BY AddGrowIInv DEF CInv
<1> QED BY <1>1, <1>4, <1>5, <1>6, <1>7, <1>8 DEF CInv, Contents, DuplicateSeen, FreedExactlyOnce

LEMMA AddNoMemoryCInv ==
  ASSUME CInv, NEW t \in Thread, NEW k \in Key, AddNoMemory(t, k)
  PROVE  CInv'
<1>1. /\ pc = "idle" /\ pc' = "idle"
      /\ UNCHANGED <<table, old_capacity, old_entries, keyOf>>
  BY DEF AddNoMemory, Idle, rehashVars
<1>2. IInv'
  BY AddNoMemoryIInv DEF CInv
<1> QED BY <1>1, <1>2, QuietCInv

LEMMA LookupCInv ==
  ASSUME CInv, (\E k \in Key : LookupFirst(k)) \/ LookupNext
  PROVE  CInv'
<1>1. /\ pc = "idle" /\ pc' = "idle"
      /\ UNCHANGED <<table, old_capacity, old_entries, keyOf>>
  BY DEF LookupFirst, LookupNext, rehashVars
<1>2. IInv'
  BY LookupFirstIInv, LookupNextIInv DEF CInv
<1> QED BY <1>1, <1>2, QuietCInv

LEMMA RehashSkipCInv == ASSUME CInv, RehashSkip PROVE CInv'
<1>1. /\ pc = "rehash" /\ pc' = "rehash"
      /\ UNCHANGED <<table, old_capacity, old_entries, keyOf>>
  BY DEF RehashSkip
<1>2. IInv'
  BY RehashSkipIInv DEF CInv
<1> QED BY <1>1, <1>2, QuietCInv

LEMMA RehashMoveCInv == ASSUME CInv, RehashMove PROVE CInv'
<1>1. /\ pc = "rehash" /\ pc' = "moving" /\ ~is_duplicate'
      /\ i < old_capacity /\ Occupied(old_entries[i])
      /\ slot' = Hash[old_entries[i].key] % capacity
      /\ UNCHANGED <<table, old_capacity, old_entries, i, keyOf>> /\ capacity' = capacity
      /\ CurrentKey' = old_entries[i].key
  BY DEF RehashMove, StartProbe, rehashVars, table, CurrentKey
<1>2. capacity \in Nat \ {0} /\ old_entries[i].key \in Key
  <2>1. size \in Nat /\ capacity \in Nat /\ i \in 0 .. old_capacity - 1
    BY <1>1 DEF CInv, IInv, TypeOK
  <2>2. capacity > 0
    BY <1>1, <2>1, MoveHasRoom DEF CInv, InverseMaxOccupancy
  <2> QED BY <1>1, <2>1, <2>2 DEF CInv, IInv, TypeOK, Entry, Occupied
<1>3. Distance(CurrentKey, slot)' = 0
  BY <1>1, <1>2, ProbeBegins
<1>4. IInv'
  BY RehashMoveIInv DEF CInv
<1> QED BY <1>1, <1>3, <1>4, QuietCInv

LEMMA RehashDoneCInv == ASSUME CInv, RehashDone PROVE CInv'
<1>1. /\ pc = "rehash" /\ pc' = "adding" /\ i = old_capacity /\ old_capacity' = 0
      /\ slot' = Hash[key] % capacity /\ ~is_duplicate'
      /\ UNCHANGED <<capacity, entries, unique_size, key, keyOf>>
      /\ CurrentKey' = key
  BY DEF RehashDone, StartProbe, table, CurrentKey
<1>2. OldOccupied = {} /\ OldOccupied' = {} /\ OccupiedSlots' = OccupiedSlots
  BY <1>1 DEF CInv, IInv, Moved, OldOccupied, OccupiedSlots
<1>3. Contents'
  BY <1>1, <1>2, SameContents DEF CInv
<1>4. capacity \in Nat \ {0} /\ key \in Key
  BY <1>1 DEF CInv, IInv, TypeOK, Phases, Room, InverseMaxOccupancy
<1>5. Distance(CurrentKey, slot)' = 0
  BY <1>1, <1>4, ProbeBegins
<1>6. DuplicateSeen'
  BY <1>1, <1>5 DEF DuplicateSeen
<1>7. IInv'
  BY RehashDoneIInv DEF CInv
<1> QED BY <1>1, <1>3, <1>6, <1>7 DEF CInv, FreedExactlyOnce

LEMMA ProbeNextCInv == ASSUME CInv, ProbeNext PROVE CInv'
<1>1. /\ pc \in {"moving", "adding"} /\ pc' = pc /\ Occupied(entries[slot])
      /\ is_duplicate' = (is_duplicate \/ entries[slot].key = CurrentKey)
      /\ slot' = NextSlot(slot)
      /\ UNCHANGED <<capacity, unique_size, entries, old_capacity, old_entries, i, key, keyOf>>
      /\ CurrentKey' = CurrentKey
  BY DEF ProbeNext, table, rehashVars, CurrentKey
<1>2. Contents'
  <2>1. OccupiedSlots' = OccupiedSlots /\ OldOccupied' = OldOccupied
    BY <1>1 DEF OccupiedSlots, OldOccupied
  <2> QED BY <1>1, <2>1, SameContents DEF CInv
<1> DEFINE k == CurrentKey
<1>3. /\ k \in Key /\ capacity \in Nat \ {0} /\ slot \in 0 .. capacity - 1
      /\ Distance(k, slot) \in 0 .. capacity - 1
      /\ SlotAt(k, Distance(k, slot)) = slot
  BY <1>1, CurrentKeyType, ProbeGeometry DEF CInv, IInv
<1>4. Distance(CurrentKey, slot)' = Distance(k, slot) + 1
  <2>1. Distance(k, NextSlot(slot)) = Distance(k, slot) + 1
    BY <1>1, ProbeGoesOn DEF CInv
  <2> QED BY <1>1, <2>1 DEF Distance, Home
<1>5. \A d : At(CurrentKey, d)' = At(k, d)
  BY <1>1 DEF At, SlotAt, Home
<1>6. At(k, Distance(k, slot)) = entries[slot]
  BY <1>3 DEF At
<1>7. is_duplicate <=> \E d \in 0 .. Distance(k, slot) - 1 : At(k, d).key = k
  BY <1>1 DEF CInv, DuplicateSeen
<1>8. DuplicateSeen'
  <2> HIDE DEF k
  <2>1. is_duplicate' <=> \E d \in 0 .. (Distance(k, slot) + 1) - 1 : At(k, d).key = k
    <3>1. \A d \in Int : d \in 0 .. (Distance(k, slot) + 1) - 1
                            <=> d \in 0 .. Distance(k, slot) - 1 \/ d = Distance(k, slot)
      BY <1>3
    <3>2. is_duplicate' <=> is_duplicate \/ At(k, Distance(k, slot)).key = k
      BY <1>1, <1>6 DEF k
    <3> QED BY <3>1, <3>2, <1>3, <1>7
  <2>2. (\E d \in 0 .. Distance(CurrentKey, slot) - 1 : At(CurrentKey, d).key = CurrentKey)'
           <=> \E d \in 0 .. (Distance(k, slot) + 1) - 1 : At(k, d).key = k
    BY <1>1, <1>4, <1>5 DEF k
  <2> QED BY <2>1, <2>2 DEF DuplicateSeen
<1>9. IInv'
  BY ProbeNextIInv DEF CInv
<1> QED BY <1>1, <1>2, <1>8, <1>9 DEF CInv, FreedExactlyOnce

\* The value moves from one table to the other in one step.
LEMMA PlaceMovedCInv == ASSUME CInv, PlaceMoved PROVE CInv'
<1>1. /\ pc = "moving" /\ pc' = "rehash" /\ Store
      /\ old_entries' = [old_entries EXCEPT ![i].key = NULL, ![i].value = NoValue]
      /\ UNCHANGED <<old_capacity, keyOf>>
  BY DEF PlaceMoved
<1>2. /\ i \in OldOccupied /\ i \in 0 .. old_capacity - 1
      /\ old_entries \in [0 .. old_capacity - 1 -> Entry]
  BY <1>1 DEF CInv, IInv, TypeOK, Phases, OldOccupied
<1>3. /\ OccupiedSlots' = OccupiedSlots \cup {slot} /\ slot \notin OccupiedSlots
      /\ \A s \in OccupiedSlots : entries'[s] = entries[s]
      /\ entries'[slot].key = old_entries[i].key
      /\ entries'[slot].value = old_entries[i].value
      /\ KeysCounted'
  BY <1>1, StoreCountsKey DEF CInv, Contents, CurrentKey, CurrentValue
<1>4. /\ ~Occupied(old_entries'[i])
      /\ \A s \in 0 .. old_capacity - 1 : s # i => old_entries'[s] = old_entries[s]
  BY <1>1, <1>2 DEF Entry, Occupied
<1>5. /\ OldOccupied' = OldOccupied \ {i}
      /\ \A s \in OldOccupied' : old_entries'[s] = old_entries[s]
  BY <1>1, <1>2, <1>4 DEF OldOccupied
<1>6. Truthful'
  <2>1. /\ \A s \in OccupiedSlots : /\ entries[s].value \in 1..Len(keyOf)
                                  /\ keyOf[entries[s].value] = entries[s].key
        /\ \A s \in OldOccupied : /\ old_entries[s].value \in 1..Len(keyOf)
                                /\ keyOf[old_entries[s].value] = old_entries[s].key
    BY DEF CInv, Contents, Truthful
  <2>2. \A s \in OccupiedSlots' : /\ entries'[s].value \in 1..Len(keyOf)
                                 /\ keyOf[entries'[s].value] = entries'[s].key
    BY <1>2, <1>3, <2>1
  <2>3. \A s \in OldOccupied' : /\ old_entries'[s].value \in 1..Len(keyOf)
                               /\ keyOf[old_entries'[s].value] = old_entries'[s].key
    BY <1>5, <2>1
  <2> QED BY <1>1, <2>2, <2>3 DEF Truthful
<1>7. Unshared'
  <2>1. /\ \A s, r \in OccupiedSlots : entries[s].value = entries[r].value => s = r
        /\ \A s, r \in OldOccupied : old_entries[s].value = old_entries[r].value => s = r
        /\ \A s \in OccupiedSlots, r \in OldOccupied : entries[s].value # old_entries[r].value
    BY DEF CInv, Contents, Unshared
  <2>2. \A s, r \in OccupiedSlots' : entries'[s].value = entries'[r].value => s = r
    BY <1>2, <1>3, <2>1
  <2>3. \A s, r \in OldOccupied' : old_entries'[s].value = old_entries'[r].value => s = r
    BY <1>5, <2>1
  <2>4. \A s \in OccupiedSlots', r \in OldOccupied' : entries'[s].value # old_entries'[r].value
    BY <1>2, <1>3, <1>5, <2>1
  <2> QED BY <2>2, <2>3, <2>4 DEF Unshared
<1>8. Complete'
  <2> SUFFICES ASSUME NEW v \in 1..Len(keyOf)
               PROVE  \/ \E s \in OccupiedSlots' : entries'[s].value = v
                      \/ \E s \in OldOccupied' : old_entries'[s].value = v
    BY <1>1 DEF Complete
  <2>1. CASE \E s \in OccupiedSlots : entries[s].value = v
    BY <1>3, <2>1
  <2>2. CASE \E s \in OldOccupied : old_entries[s].value = v
    <3>1. PICK s \in OldOccupied : old_entries[s].value = v
      BY <2>2
    <3>2. CASE s = i
      BY <1>3, <3>1, <3>2
    <3>3. CASE s # i
      BY <1>5, <3>1, <3>3
    <3> QED BY <3>2, <3>3
  <2> QED BY <1>1, <2>1, <2>2 DEF CInv, Contents, Complete
<1>9. IInv'
  BY PlaceMovedIInv DEF CInv
<1> QED BY <1>1, <1>3, <1>6, <1>7, <1>8, <1>9 DEF CInv, Contents, DuplicateSeen, FreedExactlyOnce

\* The value is a new one.
LEMMA PlaceAddedCInv == ASSUME CInv, PlaceAdded PROVE CInv'
<1>1. /\ pc = "adding" /\ pc' = "idle" /\ Store /\ keyOf' = Append(keyOf, key)
      /\ UNCHANGED <<old_capacity, old_entries>>
  BY DEF PlaceAdded, rehashVars
<1>2. keyOf \in Seq(Key) /\ key \in Key
  BY <1>1 DEF CInv, IInv, TypeOK, Phases
<1>3. /\ Len(keyOf') = Len(keyOf) + 1 /\ Len(keyOf) \in Nat
      /\ keyOf'[Len(keyOf) + 1] = key
      /\ \A v \in 1..Len(keyOf) : keyOf'[v] = keyOf[v]
  BY <1>1, <1>2
<1>4. /\ OccupiedSlots' = OccupiedSlots \cup {slot} /\ slot \notin OccupiedSlots
      /\ \A s \in OccupiedSlots : entries'[s] = entries[s]
      /\ entries'[slot].key = key
      /\ entries'[slot].value = Len(keyOf) + 1
      /\ KeysCounted'
  BY <1>1, StoreCountsKey DEF CInv, Contents, CurrentKey, CurrentValue
<1>5. OldOccupied = {} /\ OldOccupied' = {}
  BY <1>1 DEF CInv, IInv, Phases, OldOccupied
<1>6. \A s \in OccupiedSlots : /\ entries[s].value \in 1..Len(keyOf)
                               /\ keyOf[entries[s].value] = entries[s].key
  BY DEF CInv, Contents, Truthful
<1>7. Truthful'
  <2>1. \A s \in OccupiedSlots' : /\ entries'[s].value \in 1..Len(keyOf')
                                  /\ keyOf'[entries'[s].value] = entries'[s].key
    BY <1>3, <1>4, <1>6
  <2> QED BY <1>5, <2>1 DEF Truthful
<1>8. Unshared'
  <2>1. \A s \in OccupiedSlots : entries'[s].value # entries'[slot].value
    BY <1>3, <1>4, <1>6
  <2>2. ASSUME NEW s \in OccupiedSlots', NEW r \in OccupiedSlots',
               entries'[s].value = entries'[r].value
        PROVE  s = r
    BY <1>4, <2>1, <2>2 DEF CInv, Contents, Unshared
  <2> QED BY <1>5, <2>2 DEF Unshared
<1>9. Complete'
  <2> SUFFICES ASSUME NEW v \in 1..Len(keyOf')
               PROVE  \E s \in OccupiedSlots' : entries'[s].value = v
    BY DEF Complete
  <2>1. CASE v = Len(keyOf) + 1
    BY <1>4, <2>1
  <2>2. CASE v \in 1..Len(keyOf)
    BY <1>1, <1>4, <1>5, <2>2 DEF CInv, Contents, Complete
  <2> QED BY <1>3, <2>1, <2>2
<1>10. IInv'
  BY PlaceAddedIInv DEF CInv
<1> QED BY <1>1, <1>4, <1>7, <1>8, <1>9, <1>10 DEF CInv, Contents, DuplicateSeen, FreedExactlyOnce

\* object_free_internal finds each value in one entry.
LEMMA FreeCInv == ASSUME CInv, Free PROVE CInv'
<1>1. /\ pc = "idle" /\ pc' = "freed"
      /\ released' = [v \in 1..Len(keyOf) |-> Cardinality(Holders(v))]
      /\ capacity' = 0 /\ UNCHANGED <<keyOf, old_capacity, old_entries>>
  BY DEF Free, rehashVars
<1>2. OccupiedSlots' = {} /\ OldOccupied = {} /\ OldOccupied' = {}
  BY <1>1 DEF CInv, IInv, Phases, OccupiedSlots, OldOccupied
<1>3. Contents'
  BY <1>1, <1>2 DEF Contents, Truthful, Unshared, Complete, KeysCounted
<1>4. ASSUME NEW v \in 1..Len(keyOf) PROVE Cardinality(Holders(v)) = 1
  <2>1. PICK s \in OccupiedSlots : entries[s].value = v
    BY <1>1, <1>2 DEF CInv, Contents, Complete
  <2>2. Holders(v) = {s}
    BY <2>1 DEF CInv, Contents, Unshared, Holders, OccupiedSlots
  <2> QED BY <2>2, FS_Singleton
<1>5. FreedExactlyOnce'
  BY <1>1, <1>4 DEF FreedExactlyOnce
<1>6. IInv'
  BY FreeIInv DEF CInv
<1> QED BY <1>1, <1>3, <1>5, <1>6 DEF CInv, DuplicateSeen

LEMMA NextCInv == CInv /\ [Next]_vars => CInv'
<1> SUFFICES ASSUME CInv, [Next]_vars PROVE CInv'
  OBVIOUS
<1>1. CASE \E n \in 0..MaxSize : Create(n)
  BY <1>1, CreateCInv
<1>2. CASE \E t \in Thread, k \in Key : AddInPlace(t, k) \/ AddGrow(t, k) \/ AddNoMemory(t, k)
  BY <1>2, AddInPlaceCInv, AddGrowCInv, AddNoMemoryCInv
<1>3. CASE Step
  BY <1>3, RehashSkipCInv, RehashMoveCInv, RehashDoneCInv, ProbeNextCInv,
     PlaceMovedCInv, PlaceAddedCInv DEF Step
<1>4. CASE (\E k \in Key : LookupFirst(k)) \/ LookupNext
  BY <1>4, LookupCInv
<1>5. CASE Free
  BY <1>5, FreeCInv
<1>6. CASE UNCHANGED vars
  BY <1>6, StutterCInv
<1> QED BY <1>1, <1>2, <1>3, <1>4, <1>5, <1>6 DEF Next

LEMMA SpecCInv == Spec => []CInv
  BY InitCInv, NextCInv, PTL DEF Spec

-----------------------------------------------------------------------------
\* Through every growth of the table each value stays in exactly one entry, in
\* that of its own key, for whatever keys, hashes and failures of memory.
THEOREM NothingIsLost == Spec => []StoredOnce
<1>1. ASSUME CInv PROVE StoredOnce
  <2> SUFFICES ASSUME pc # "freed", NEW v \in 1..Len(keyOf)
               PROVE  Cardinality(Stored(v)) + Cardinality(OldStored(v)) = 1
    BY DEF StoredOnce
  <2>1. CASE \E s \in OccupiedSlots : entries[s].value = v
    <3>1. PICK s \in OccupiedSlots : entries[s].value = v
      BY <2>1
    <3>2. Stored(v) = {s}
      BY <1>1, <3>1 DEF CInv, Contents, Truthful, Unshared, Stored
    <3>3. OldStored(v) = {}
      BY <1>1, <3>1 DEF CInv, Contents, Unshared, OldStored
    <3>4. Cardinality(Stored(v)) = 1
      BY <3>2, FS_Singleton
    <3>5. Cardinality(OldStored(v)) = 0
      BY <3>3, FS_EmptySet
    <3> QED BY <3>4, <3>5
  <2>2. CASE \E s \in OldOccupied : old_entries[s].value = v
    <3>1. PICK s \in OldOccupied : old_entries[s].value = v
      BY <2>2
    <3>2. OldStored(v) = {s}
      BY <1>1, <3>1 DEF CInv, Contents, Truthful, Unshared, OldStored
    <3>3. Stored(v) = {}
      BY <1>1, <3>1 DEF CInv, Contents, Unshared, Stored
    <3>4. Cardinality(OldStored(v)) = 1
      BY <3>2, FS_Singleton
    <3>5. Cardinality(Stored(v)) = 0
      BY <3>3, FS_EmptySet
    <3> QED BY <3>4, <3>5
  <2> QED BY <1>1, <2>1, <2>2 DEF CInv, Contents, Complete
<1> QED BY <1>1, SpecCInv, PTL

\* Between calls json_object_number_of_keys and json_object_number_of_values
\* are right, however often the table was counted anew.
THEOREM CountsAreRight == Spec => []CountsExact
<1>1. ASSUME CInv PROVE CountsExact
  <2> SUFFICES ASSUME pc = "idle"
               PROVE  /\ unique_size = Cardinality({keyOf[n] : n \in 1..Len(keyOf)})
                      /\ size = Len(keyOf)
    BY DEF CountsExact
  <2>1. OldOccupied = {}
    BY <1>1 DEF CInv, IInv, Phases, OldOccupied
  <2>2. size = Len(keyOf)
    <3>1. size \in Nat /\ Len(keyOf) \in Nat
      BY <1>1 DEF CInv, IInv, TypeOK
    <3> QED BY <1>1, <2>1, <3>1, FS_EmptySet DEF CInv, IInv, Room
  <2>3. KeysIn = {keyOf[n] : n \in 1..Len(keyOf)}
    <3>1. \A s \in OccupiedSlots : \E n \in 1..Len(keyOf) : entries[s].key = keyOf[n]
      BY <1>1 DEF CInv, Contents, Truthful
    <3>2. \A n \in 1..Len(keyOf) : \E s \in OccupiedSlots : entries[s].key = keyOf[n]
      BY <1>1, <2>1 DEF CInv, Contents, Truthful, Complete
    <3> QED BY <3>1, <3>2 DEF KeysIn
  <2> QED BY <1>1, <2>2, <2>3 DEF CInv, Contents, KeysCounted
<1> QED BY <1>1, SpecCInv, PTL

\* Freeing the object frees every value that was ever added, each of them once.
THEOREM NoLeakNoDoubleFree == Spec => []FreedExactlyOnce
<1>1. CInv => FreedExactlyOnce
  BY DEF CInv
<1> QED BY <1>1, SpecCInv, PTL

-----------------------------------------------------------------------------
(* The abstract multimap.                                                  *)

\* The values the two tables hold under a key are those that were added under
\* it: a rehash changes neither.
ValuesShown ==
  \A k \in Key : valsOf(k) = IF pc = "freed" THEN {} ELSE ValuesOf(k)

LEMMA ValuesInTables == CInv => ValuesShown
<1> SUFFICES ASSUME CInv, NEW k \in Key
             PROVE  valsOf(k) = IF pc = "freed" THEN {} ELSE ValuesOf(k)
  BY DEF ValuesShown
<1>1. CASE pc = "freed"
  <2>1. OccupiedSlots = {} /\ OldOccupied = {}
    BY <1>1 DEF CInv, IInv, Phases, OccupiedSlots, OldOccupied
  <2> QED BY <1>1, <2>1 DEF valsOf
<1>2. CASE pc # "freed"
  <2>1. \A v \in valsOf(k) : v \in ValuesOf(k)
    BY DEF CInv, Contents, Truthful, valsOf, ValuesOf
  <2>2. ASSUME NEW v \in ValuesOf(k) PROVE v \in valsOf(k)
    <3>1. v \in 1..Len(keyOf) /\ keyOf[v] = k
      BY DEF ValuesOf
    <3>2. CASE \E s \in OccupiedSlots : entries[s].value = v
      BY <3>1, <3>2 DEF CInv, Contents, Truthful, valsOf
    <3>3. CASE \E s \in OldOccupied : old_entries[s].value = v
      BY <3>1, <3>3 DEF CInv, Contents, Truthful, valsOf
    <3> QED BY <1>2, <3>1, <3>2, <3>3 DEF CInv, Contents, Complete
  <2> QED BY <1>2, <2>1, <2>2
<1> QED BY <1>1, <1>2

LEMMA ValuesInTablesNext == CInv' => ValuesShown'
  BY ValuesInTables, PTL

\* The mapped variables of Multimap.
isOpen == pc \notin {"none", "freed"}
valsMap == [k \in Key |-> valsOf(k)]

LEMMA InitAbstract == Init => Abstract!Init
<1> SUFFICES ASSUME Init PROVE Abstract!Init
  OBVIOUS
<1>1. CInv /\ pc = "none" /\ keyOf = <<>>
  BY InitCInv DEF Init
<1>2. \A k \in Key : valsOf(k) = {}
  BY <1>1, ValuesInTables, ValuesInTablesNext DEF ValuesShown, ValuesOf
<1> QED BY <1>1, <1>2 DEF Abstract!Init, Abstract!Nothing

\* A step that adds no value and neither begins nor ends the life of the object
\* is not seen from outside.
LEMMA InvisibleStep ==
  ASSUME CInv, CInv', UNCHANGED keyOf, isOpen, isOpen'
  PROVE  UNCHANGED Abstract!vars
<1>1. \A k \in Key : valsOf(k)' = valsOf(k)
  BY ValuesInTables, ValuesInTablesNext DEF ValuesShown, ValuesOf, isOpen
<1> QED BY <1>1 DEF Abstract!vars, isOpen

LEMMA CreateAbstract ==
  ASSUME CInv, CInv', NEW n \in 0..MaxSize, Create(n)
  PROVE  Abstract!Create
<1>1. pc = "none" /\ pc' = "idle" /\ keyOf = <<>> /\ keyOf' = <<>>
  BY DEF Create, CInv, IInv, Phases
<1>2. \A k \in Key : valsOf(k) = {} /\ valsOf(k)' = {}
  BY <1>1, ValuesInTables, ValuesInTablesNext DEF ValuesShown, ValuesOf
<1> QED BY <1>1, <1>2 DEF Abstract!Create, Abstract!Nothing

LEMMA AddAbstract ==
  ASSUME CInv, CInv', PlaceAdded
  PROVE  \E k \in Key, v \in 1..MaxSize : Abstract!Add(k, v)
<1> DEFINE n == Len(keyOf) + 1
<1>1. /\ pc = "adding" /\ pc' = "idle" /\ keyOf' = Append(keyOf, key)
      /\ keyOf \in Seq(Key) /\ key \in Key /\ MaxSize \in Nat
      /\ Len(keyOf) < MaxSize
  BY MaxSizeAssumption DEF PlaceAdded, CInv, IInv, TypeOK, Phases, Room
<1>2. /\ Len(keyOf) \in Nat /\ Len(keyOf') = n
      /\ keyOf'[n] = key /\ \A v \in 1..Len(keyOf) : keyOf'[v] = keyOf[v]
  BY <1>1
<1>3. n \in 1..MaxSize
  BY <1>1, <1>2
<1>4. \A k \in Key : valsOf(k) = ValuesOf(k) /\ valsOf(k)' = ValuesOf(k)'
  BY <1>1, ValuesInTables, ValuesInTablesNext DEF ValuesShown
<1>5. \A k \in Key : n \notin ValuesOf(k)
  BY <1>2 DEF ValuesOf
<1>6. \A k \in Key : ValuesOf(k)' = IF k = key THEN ValuesOf(k) \cup {n} ELSE ValuesOf(k)
  <2>1. 1..Len(keyOf') = (1..Len(keyOf)) \cup {n}
    BY <1>2
  <2> HIDE DEF n
  <2> QED BY <1>2, <2>1 DEF ValuesOf
<1>7. Abstract!Add(key, n)
  <2>1. valsMap' = [valsMap EXCEPT ![key] = @ \cup {n}]
    BY <1>1, <1>4, <1>6 DEF valsMap
  <2> HIDE DEF n
  <2>2. \A q \in Key : n \notin valsMap[q]
    BY <1>4, <1>5 DEF valsMap
  <2> QED BY <1>1, <2>1, <2>2 DEF Abstract!Add, valsMap
<1> QED BY <1>1, <1>3, <1>7

LEMMA FreeAbstract ==
  ASSUME CInv, CInv', Free
  PROVE  Abstract!Dispose
<1>1. pc = "idle" /\ pc' = "freed"
  BY DEF Free
<1>2. \A k \in Key : valsOf(k)' = {}
  BY <1>1, ValuesInTables, ValuesInTablesNext DEF ValuesShown
<1> QED BY <1>1, <1>2 DEF Abstract!Dispose, Abstract!Nothing

\* The table implements the multimap: the value appears in the step that ends
\* object_add, and neither the growth of the table nor its half-done states can
\* be told from outside.
THEOREM RehashingIsInvisible == Spec => Refines
<1>1. ASSUME CInv, CInv', [Next]_vars PROVE [Abstract!Next]_(Abstract!vars)
  <2>1. CASE \E n \in 0..MaxSize : Create(n)
    BY <1>1, <2>1, CreateAbstract DEF Abstract!Next
  <2>2. CASE PlaceAdded
    BY <1>1, <2>2, AddAbstract DEF Abstract!Next
  <2>3. CASE Free
    BY <1>1, <2>3, FreeAbstract DEF Abstract!Next
  <2>4. CASE \E t \in Thread, k \in Key : AddInPlace(t, k) \/ AddGrow(t, k) \/ AddNoMemory(t, k)
    <3>1. UNCHANGED keyOf /\ isOpen /\ isOpen'
      BY <2>4 DEF AddInPlace, AddGrow, AddNoMemory, Idle, isOpen
    <3> QED BY <1>1, <3>1, InvisibleStep
  <2>5. CASE RehashSkip \/ RehashMove \/ RehashDone \/ ProbeNext \/ PlaceMoved
    <3>1. UNCHANGED keyOf /\ isOpen /\ isOpen'
      BY <2>5 DEF RehashSkip, RehashMove, RehashDone, ProbeNext, PlaceMoved, isOpen
    <3> QED BY <1>1, <3>1, InvisibleStep
  <2>6. CASE (\E k \in Key : LookupFirst(k)) \/ LookupNext
    <3>1. UNCHANGED keyOf /\ isOpen /\ isOpen'
      BY <2>6 DEF LookupFirst, LookupNext, isOpen
    <3> QED BY <1>1, <3>1, InvisibleStep
  <2>7. CASE UNCHANGED vars
    <3>1. UNCHANGED <<keyOf, pc>>
      BY <2>7 DEF vars
    <3>2. \A k \in Key : valsOf(k)' = valsOf(k)
      BY <1>1, <3>1, ValuesInTables, ValuesInTablesNext DEF ValuesShown, ValuesOf
    <3> QED BY <3>1, <3>2 DEF Abstract!vars
  <2> QED BY <1>1, <2>1, <2>2, <2>3, <2>4, <2>5, <2>6, <2>7 DEF Next, Step
<1> QED BY <1>1, InitAbstract, SpecCInv, PTL DEF Spec, Refines, Abstract!Spec

-----------------------------------------------------------------------------
(* What a lookup returns when one thread uses the object: its ids then say *)
(* in which order the entries were stored.                                 *)

OneThread == \A t, u \in Thread : t = u

\* Every id in the table is older than the next one, and none is there twice.
Ages ==
  /\ \A s \in OccupiedSlots : entries[s].id < uniq[thread]
  /\ \A s, r \in OccupiedSlots : entries[s].id = entries[r].id => s = r

\* Between calls the value added last has the greatest id.
LastIsNewest ==
  pc = "idle" =>
    \A s, r \in OccupiedSlots : entries[s].value = Len(keyOf) => entries[r].id <= entries[s].id

\* The part of a walk that was done.
Seen == {it.seen[n] : n \in 1..Len(it.seen)}
SeenOnce == \A m, n \in 1..Len(it.seen) : m # n => it.seen[m] # it.seen[n]

\* A walk under way has seen, of the values it is about, those from the newest
\* to the last answer; what was added since has greater ids.
Walking ==
  /\ pc \in {"idle", "adding"}
  /\ \A v \in it.all : \E s \in OccupiedSlots : entries[s].value = v /\ entries[s].key = it.key
  /\ Seen \subseteq it.all
  /\ \E p \in OccupiedSlots :
       /\ entries[p].value = it.prev /\ it.prev \in it.all
       /\ \A s \in OccupiedSlots :
            entries[s].value \in it.all => (entries[s].value \in Seen <=> entries[p].id <= entries[s].id)
  /\ \A s, r \in OccupiedSlots :
       entries[s].key = it.key /\ entries[s].value \notin it.all /\ entries[r].value \in it.all
         => entries[r].id < entries[s].id

Walked ==
  ~it.grown => /\ SeenOnce
               /\ it.done => Seen = it.all
               /\ ~it.done => Walking

WInv == CInv /\ Ages /\ LastIsNewest /\ Walked

\* The entries a lookup chooses from.
Candidates(k, prev) ==
  {s \in OccupiedSlots :
     /\ entries[s].key = k
     /\ prev = NoValue \/ \E p \in OccupiedSlots : entries[p].value = prev /\ entries[s].id < entries[p].id}

\* All entries under a key are on its probe path, and there is nothing else on
\* it under that key.
LEMMA PathIsSearched ==
  ASSUME CInv, NEW k \in Key
  PROVE  /\ \A s \in OccupiedSlots : entries[s].key = k =>
              Distance(k, s) \in Path(k) /\ At(k, Distance(k, s)) = entries[s]
         /\ \A d \in Path(k) : SlotAt(k, d) \in OccupiedSlots
<1>1. TypeOK /\ capacity \in Nat
  BY DEF CInv, IInv, TypeOK
<1>2. ASSUME NEW s \in OccupiedSlots, entries[s].key = k
      PROVE  Distance(k, s) \in Path(k) /\ At(k, Distance(k, s)) = entries[s]
  <2>1. s \in 0 .. capacity - 1 /\ capacity > 0
    BY <1>1 DEF OccupiedSlots
  <2>2. Distance(k, s) \in 0 .. capacity - 1 /\ SlotAt(k, Distance(k, s)) = s
    BY <1>1, <2>1, ProbeGeometry
  <2>3. \A d \in 0 .. Distance(k, s) : Occupied(At(k, d))
    BY <1>2 DEF CInv, IInv, NoGapOnPath
  <2> QED BY <2>2, <2>3 DEF Path, At
<1>3. ASSUME NEW d \in Path(k) PROVE SlotAt(k, d) \in OccupiedSlots
  <2>1. d \in 0 .. capacity - 1 /\ Occupied(At(k, d))
    BY <1>1 DEF Path
  <2>2. SlotAt(k, d) \in 0 .. capacity - 1
    BY <1>1, <2>1, ProbeGeometry
  <2> QED BY <2>1, <2>2 DEF OccupiedSlots, At
<1> QED BY <1>2, <1>3

\* id_of finds the id of a value that is in the table.
LEMMA IdOfValue ==
  ASSUME CInv, NEW k \in Key, NEW p \in OccupiedSlots, entries[p].key = k
  PROVE  IdOf(k, entries[p].value) = entries[p].id
<1> DEFINE prev == entries[p].value
           found == {d \in Path(k) : At(k, d).key = k /\ At(k, d).value = prev}
<1>1. Distance(k, p) \in Path(k) /\ At(k, Distance(k, p)) = entries[p]
  BY PathIsSearched
<1>2. ASSUME NEW d \in found PROVE d = Distance(k, p)
  <2>1. SlotAt(k, d) \in OccupiedSlots /\ entries[SlotAt(k, d)].value = prev
    BY PathIsSearched DEF At
  <2>2. SlotAt(k, d) = p
    BY <2>1 DEF CInv, Contents, Unshared
  <2>3. d \in 0 .. capacity - 1 /\ TypeOK /\ capacity \in Nat
    BY DEF Path, CInv, IInv, TypeOK
  <2> QED BY <2>2, <2>3, ProbeGeometry
<1>3. found = {Distance(k, p)}
  BY <1>1, <1>2
<1>4. (CHOOSE d \in found : \A e \in found : d <= e) = Distance(k, p)
  <2>1. Distance(k, p) \in Int
    BY <1>1 DEF Path
  <2> HIDE DEF found
  <2> QED BY <1>3, <2>1
<1> QED BY <1>1, <1>3, <1>4 DEF IdOf

LEMMA LookupFinds ==
  ASSUME CInv, NEW k \in Key, NEW prev \in Nat,
         prev = NoValue \/ \E p \in OccupiedSlots : entries[p].key = k /\ entries[p].value = prev
  PROVE  \/ Candidates(k, prev) = {} /\ ObjectNext(k, prev) = NoValue
         \/ \E s \in Candidates(k, prev) :
              /\ ObjectNext(k, prev) = entries[s].value /\ entries[s].value # NoValue
              /\ \A r \in Candidates(k, prev) : entries[r].id <= entries[s].id
<1>1. TypeOK
  BY DEF CInv, IInv
<1>2. \A p \in OccupiedSlots : entries[p].value = prev => prev # NoValue
  BY DEF CInv, Contents, Truthful, NoValue
<1>3. ASSUME prev # NoValue
      PROVE  \A e : e < IdOf(k, prev)
                      <=> \E p \in OccupiedSlots : entries[p].value = prev /\ e < entries[p].id
  <2>1. PICK p \in OccupiedSlots : entries[p].key = k /\ entries[p].value = prev
    BY <1>3
  <2>2. IdOf(k, prev) = entries[p].id
    BY <2>1, IdOfValue
  <2>3. \A q \in OccupiedSlots : entries[q].value = prev => q = p
    BY <2>1 DEF CInv, Contents, Unshared
  <2> QED BY <2>1, <2>2, <2>3
<1>4. \A s \in Candidates(k, prev) : /\ Distance(k, s) \in Older(k, prev)
                                     /\ At(k, Distance(k, s)) = entries[s]
  BY <1>2, <1>3, PathIsSearched DEF Candidates, Older
<1>5. \A d \in Older(k, prev) : SlotAt(k, d) \in Candidates(k, prev)
  BY <1>2, <1>3, PathIsSearched DEF Candidates, Older, At
<1>6. CASE Older(k, prev) = {} /\ ObjectNext(k, prev) = NoValue
  BY <1>4, <1>6
<1>7. CASE \E d \in Older(k, prev) :
             /\ ObjectNext(k, prev) = At(k, d).value
             /\ \A e \in Older(k, prev) : At(k, e).id <= At(k, d).id
  <2>1. PICK d \in Older(k, prev) :
               /\ ObjectNext(k, prev) = At(k, d).value
               /\ \A e \in Older(k, prev) : At(k, e).id <= At(k, d).id
    BY <1>7
  <2> DEFINE s == SlotAt(k, d)
  <2>2. s \in Candidates(k, prev) /\ At(k, d) = entries[s]
    BY <1>5 DEF At
  <2>3. entries[s].value # NoValue
    BY <2>2 DEF CInv, Contents, Truthful, NoValue, Candidates
  <2> QED BY <1>4, <2>1, <2>2, <2>3
<1> QED BY <1>1, <1>6, <1>7, ObjectNextChoice

LEMMA InitWInv == Init => WInv
<1> SUFFICES ASSUME Init PROVE WInv
  OBVIOUS
<1>1. OccupiedSlots = {}
  BY DEF Init, OccupiedSlots
<1>2. Walked
  BY DEF Init, NoIteration, Walked, SeenOnce, Seen
<1> QED BY <1>1, <1>2, InitCInv DEF WInv, Ages, LastIsNewest

\* A step that stores no entry and is none of the user's walk.
LEMMA QuietWInv ==
  ASSUME WInv, CInv', OneThread, UNCHANGED <<table, uniq, keyOf, it>>,
         pc' = "idle" => pc = "idle",
         pc \in {"idle", "adding"} => pc' \in {"idle", "adding"}
  PROVE  WInv'
<1>1. UNCHANGED <<capacity, entries>> /\ OccupiedSlots' = OccupiedSlots
  BY DEF table, OccupiedSlots
<1>2. thread' = thread
  BY DEF CInv, IInv, TypeOK, OneThread, WInv
<1>3. Ages'
  BY <1>1, <1>2 DEF WInv, Ages
<1>4. LastIsNewest'
  BY <1>1 DEF WInv, LastIsNewest
<1>5. Seen' = Seen /\ (SeenOnce' <=> SeenOnce)
  BY DEF Seen, SeenOnce
<1>6. Walking => Walking'
  BY <1>1, <1>5 DEF Walking
<1>7. Walked'
  BY <1>5, <1>6 DEF WInv, Walked
<1> QED BY <1>3, <1>4, <1>7 DEF WInv

\* A step that leaves the table empty, or makes the user forget his walk.
LEMMA EmptyWInv ==
  ASSUME CInv', OccupiedSlots' = {}, Walked'
  PROVE  WInv'
  BY DEF WInv, Ages, LastIsNewest

LEMMA CreateWInv ==
  ASSUME WInv, CInv', NEW n \in 0..MaxSize, Create(n)
  PROVE  WInv'
<1>1. /\ pc = "none" /\ keyOf' = <<>> /\ UNCHANGED it /\ old_capacity' = 0
      /\ pc' = "idle"
  BY DEF Create, WInv, CInv, IInv, Phases, rehashVars
<1>2. OccupiedSlots' = {}
  <2>1. \A s \in OccupiedSlots' : entries'[s].value \in 1..Len(keyOf')
    BY DEF CInv, Contents, Truthful
  <2>2. 1..Len(keyOf') = {}
    BY <1>1
  <2> QED BY <2>1, <2>2
<1>3. Walked'
  <2>1. Seen' = Seen /\ (SeenOnce' <=> SeenOnce)
    BY <1>1 DEF Seen, SeenOnce
  <2>2. ~Walking
    BY <1>1 DEF Walking
  <2> QED BY <1>1, <2>1, <2>2 DEF WInv, Walked
<1> QED BY <1>2, <1>3, EmptyWInv

LEMMA AddGrowWInv ==
  ASSUME WInv, CInv', NEW t \in Thread, NEW k \in Key, AddGrow(t, k)
  PROVE  WInv'
<1>1. OccupiedSlots' = {}
  <2>1. PICK c \in 1..PrimeCapacities[NumPrimes] :
          capacity' = c /\ entries' = [s \in 0 .. c - 1 |-> Blank]
    BY DEF AddGrow
  <2> QED BY <2>1, BlankTable
<1>2. it'.grown
  BY DEF AddGrow, WInv, CInv, IInv, TypeOK
<1> QED BY <1>1, <1>2, EmptyWInv DEF Walked

LEMMA FreeWInv == ASSUME WInv, CInv', Free PROVE WInv'
<1>1. OccupiedSlots' = {}
  BY DEF Free, OccupiedSlots
<1>2. Walked'
  BY DEF Free, NoIteration, Walked, SeenOnce, Seen
<1> QED BY <1>1, <1>2, EmptyWInv

\* The id of a new entry is greater than all others.
LEMMA StoreAges ==
  ASSUME WInv, OneThread, pc \in {"moving", "adding"}, Store, thread' = thread
  PROVE  /\ Ages'
         /\ \A s \in OccupiedSlots : entries[s].id < entries'[slot].id
<1>1. /\ OccupiedSlots' = OccupiedSlots \cup {slot} /\ slot \notin OccupiedSlots
      /\ \A s \in OccupiedSlots : entries'[s] = entries[s]
      /\ entries'[slot].id = uniq[thread]
  BY StoreCountsKey DEF WInv, CInv, Contents
<1>2. uniq'[thread] = uniq[thread] + 1 /\ uniq[thread] \in Nat
  BY DEF Store, WInv, CInv, IInv, TypeOK
<1>3. \A s \in OccupiedSlots : entries[s].id < uniq[thread] /\ entries[s].id \in Nat
  <2>1. \A s \in OccupiedSlots : entries[s].id \in Nat
    BY DEF WInv, CInv, IInv, TypeOK, Entry, OccupiedSlots
  <2> QED BY <2>1 DEF WInv, Ages
<1>4. \A s \in OccupiedSlots' : entries'[s].id < uniq'[thread]
  BY <1>1, <1>2, <1>3
<1>5. \A s, r \in OccupiedSlots' : entries'[s].id = entries'[r].id => s = r
  <2>1. \A s, r \in OccupiedSlots : entries[s].id = entries[r].id => s = r
    BY DEF WInv, Ages
  <2> QED BY <1>1, <1>2, <1>3, <2>1
<1> QED BY <1>1, <1>3, <1>4, <1>5 DEF Ages

LEMMA PlaceMovedWInv == ASSUME WInv, CInv', OneThread, PlaceMoved PROVE WInv'
<1>1. pc = "moving" /\ pc' = "rehash" /\ Store /\ thread' = thread /\ it' = it
  BY DEF PlaceMoved
<1>2. Ages' /\ LastIsNewest'
  BY <1>1, StoreAges DEF LastIsNewest
<1>3. Walked'
  <2>1. ~Walking
    BY <1>1 DEF Walking
  <2>2. Seen' = Seen /\ (SeenOnce' <=> SeenOnce)
    BY <1>1 DEF Seen, SeenOnce
  <2> QED BY <1>1, <2>1, <2>2 DEF WInv, Walked
<1> QED BY <1>2, <1>3 DEF WInv

\* A value added in the middle of a walk is newer than all that the walk is
\* about.
LEMMA PlaceAddedWInv == ASSUME WInv, CInv', OneThread, PlaceAdded PROVE WInv'
<1>1. /\ pc = "adding" /\ pc' = "idle" /\ Store /\ thread' = thread /\ it' = it
      /\ keyOf' = Append(keyOf, key)
  BY DEF PlaceAdded
<1>2. /\ OccupiedSlots' = OccupiedSlots \cup {slot} /\ slot \notin OccupiedSlots
      /\ \A s \in OccupiedSlots : entries'[s] = entries[s]
      /\ entries'[slot].value = Len(keyOf) + 1
  BY <1>1, StoreCountsKey DEF WInv, CInv, Contents, CurrentValue
<1>3. Ages' /\ \A s \in OccupiedSlots : entries[s].id < entries'[slot].id
  BY <1>1, StoreAges
<1>4. Len(keyOf') = Len(keyOf) + 1 /\ Len(keyOf) \in Nat
  BY <1>1 DEF WInv, CInv, IInv, TypeOK, Phases
<1>5. \A s \in OccupiedSlots : entries[s].value \in 1..Len(keyOf)
  BY DEF WInv, CInv, Contents, Truthful
<1>6. \A s \in OccupiedSlots' : entries'[s].id \in Nat
  BY DEF CInv, IInv, TypeOK, Entry, OccupiedSlots
<1>7. LastIsNewest'
  <2> SUFFICES ASSUME NEW s \in OccupiedSlots', NEW r \in OccupiedSlots',
                      entries'[s].value = Len(keyOf')
               PROVE  entries'[r].id <= entries'[s].id
    BY DEF LastIsNewest
  <2>1. s = slot
    BY <1>2, <1>4, <1>5
  <2>2. CASE r = slot
    BY <1>6, <2>1, <2>2
  <2>3. CASE r \in OccupiedSlots
    BY <1>2, <1>3, <1>6, <2>1, <2>3
  <2> QED BY <1>2, <2>2, <2>3
<1>8. ASSUME Walking PROVE Walking'
  <2>1. \A v \in it.all : v \in 1..Len(keyOf)
    BY <1>5, <1>8 DEF Walking
  <2>2. entries'[slot].value \notin it.all
    BY <1>2, <1>4, <2>1
  <2>3. Seen' = Seen
    BY <1>1 DEF Seen
  <2>4. \A v \in it.all : \E s \in OccupiedSlots' : entries'[s].value = v /\ entries'[s].key = it.key
    BY <1>2, <1>8 DEF Walking
  <2>5. \E p \in OccupiedSlots' :
          /\ entries'[p].value = it.prev /\ it.prev \in it.all
          /\ \A s \in OccupiedSlots' :
               entries'[s].value \in it.all
                 => (entries'[s].value \in Seen <=> entries'[p].id <= entries'[s].id)
    <3>1. PICK p \in OccupiedSlots :
            /\ entries[p].value = it.prev /\ it.prev \in it.all
            /\ \A s \in OccupiedSlots :
                 entries[s].value \in it.all
                   => (entries[s].value \in Seen <=> entries[p].id <= entries[s].id)
      BY <1>8 DEF Walking
    <3>2. p \in OccupiedSlots' /\ entries'[p] = entries[p]
      BY <1>2
    <3> QED BY <1>2, <2>2, <3>1, <3>2
  <2>6. \A s, r \in OccupiedSlots' :
          entries'[s].key = it.key /\ entries'[s].value \notin it.all /\ entries'[r].value \in it.all
            => entries'[r].id < entries'[s].id
    BY <1>2, <1>3, <1>8, <2>2 DEF Walking
  <2>7. Seen \subseteq it.all
    BY <1>8 DEF Walking
  <2> QED BY <1>1, <2>3, <2>4, <2>5, <2>6, <2>7 DEF Walking
<1>9. Walked'
  <2>1. Seen' = Seen /\ (SeenOnce' <=> SeenOnce)
    BY <1>1 DEF Seen, SeenOnce
  <2> QED BY <1>1, <1>8, <2>1 DEF WInv, Walked
<1> QED BY <1>3, <1>7, <1>9 DEF WInv

\* What the tables hold between calls is in the new one.
LEMMA IdleTable ==
  ASSUME CInv, pc = "idle", NEW k \in Key
  PROVE  /\ \A v \in ValuesOf(k) : \E s \in OccupiedSlots : entries[s].value = v /\ entries[s].key = k
         /\ \A s \in OccupiedSlots : entries[s].value \in ValuesOf(k) <=> entries[s].key = k
<1>1. OldOccupied = {}
  BY DEF CInv, IInv, Phases, OldOccupied
<1> QED BY <1>1 DEF CInv, Contents, Truthful, Complete, ValuesOf

\* The user starts a walk.
LEMMA LookupFirstWInv ==
  ASSUME WInv, CInv', OneThread, NEW k \in Key, LookupFirst(k)
  PROVE  WInv'
<1> DEFINE v == ObjectNext(k, NoValue)
           c == Candidates(k, NoValue)
<1>1. /\ pc = "idle" /\ pc' = "idle" /\ UNCHANGED <<entries, capacity, uniq, thread, keyOf>>
      /\ it' = [key |-> k, prev |-> v, seen |-> IF v = NoValue THEN <<>> ELSE <<v>>,
                all |-> ValuesOf(k), done |-> v = NoValue, grown |-> FALSE]
  BY DEF LookupFirst, table
<1>2. OccupiedSlots' = OccupiedSlots
  BY <1>1 DEF OccupiedSlots
<1>3. Ages' /\ LastIsNewest'
  BY <1>1, <1>2 DEF WInv, Ages, LastIsNewest
<1>4. c = {s \in OccupiedSlots : entries[s].key = k}
  BY DEF Candidates
<1>5. /\ \A w \in ValuesOf(k) : \E s \in OccupiedSlots : entries[s].value = w /\ entries[s].key = k
      /\ \A s \in OccupiedSlots : entries[s].value \in ValuesOf(k) <=> entries[s].key = k
  BY <1>1, IdleTable DEF WInv
<1>6. CASE c = {} /\ v = NoValue
  <2>1. ValuesOf(k) = {}
    BY <1>4, <1>5, <1>6
  <2>2. it'.seen = <<>> /\ it'.all = {} /\ it'.done
    BY <1>1, <1>6, <2>1
  <2>3. Seen' = {} /\ SeenOnce'
    BY <2>2 DEF Seen, SeenOnce
  <2> QED BY <1>3, <2>2, <2>3 DEF WInv, Walked
<1>7. CASE \E s \in c : /\ v = entries[s].value /\ v # NoValue
                        /\ \A r \in c : entries[r].id <= entries[s].id
  <2>1. PICK p \in c : /\ v = entries[p].value /\ v # NoValue
                       /\ \A r \in c : entries[r].id <= entries[p].id
    BY <1>7
  <2>2. it'.seen = <<v>> /\ it'.all = ValuesOf(k) /\ ~it'.done /\ it'.prev = v /\ it'.key = k
    BY <1>1, <2>1
  <2>3. Seen' = {v} /\ SeenOnce'
    BY <2>2 DEF Seen, SeenOnce
  <2>4. v \in ValuesOf(k) /\ p \in OccupiedSlots
    BY <1>4, <1>5, <2>1
  <2>5. ASSUME NEW s \in OccupiedSlots, entries[s].value \in ValuesOf(k)
        PROVE  entries[s].value = v <=> entries[p].id <= entries[s].id
    <3>1. entries[s].id \in Nat /\ entries[p].id \in Nat
      BY <2>4 DEF WInv, CInv, IInv, TypeOK, Entry, OccupiedSlots
    <3>2. entries[s].id <= entries[p].id
      BY <1>4, <1>5, <2>1, <2>5
    <3>3. entries[s].value = v => s = p
      BY <2>1, <2>4 DEF WInv, CInv, Contents, Unshared
    <3>4. entries[s].id = entries[p].id => s = p
      BY <2>4 DEF WInv, Ages
    <3> QED BY <2>1, <3>1, <3>2, <3>3, <3>4
  <2>6. Walking'
    <3>1. \A w \in it'.all : \E s \in OccupiedSlots' : entries'[s].value = w /\ entries'[s].key = it'.key
      BY <1>1, <1>2, <1>5, <2>2
    <3>2. Seen' \subseteq it'.all
      BY <2>2, <2>3, <2>4
    <3>3. \E q \in OccupiedSlots' :
            /\ entries'[q].value = it'.prev /\ it'.prev \in it'.all
            /\ \A s \in OccupiedSlots' :
                 entries'[s].value \in it'.all
                   => (entries'[s].value \in Seen' <=> entries'[q].id <= entries'[s].id)
      BY <1>1, <1>2, <2>1, <2>2, <2>3, <2>4, <2>5
    <3>4. \A s, r \in OccupiedSlots' :
            entries'[s].key = it'.key /\ entries'[s].value \notin it'.all /\ entries'[r].value \in it'.all
              => entries'[r].id < entries'[s].id
      BY <1>1, <1>2, <1>5, <2>2
    <3> QED BY <1>1, <3>1, <3>2, <3>3, <3>4 DEF Walking
  <2> QED BY <1>3, <2>2, <2>3, <2>6 DEF WInv, Walked
<1>8. NoValue \in Nat
  BY DEF NoValue
<1> QED BY <1>6, <1>7, <1>8, LookupFinds DEF WInv

\* The user goes on with his walk.
LEMMA LookupNextWInv ==
  ASSUME WInv, CInv', OneThread, LookupNext
  PROVE  WInv'
<1> DEFINE k == it.key
           v == ObjectNext(k, it.prev)
           c == Candidates(k, it.prev)
<1>1. /\ pc = "idle" /\ pc' = "idle" /\ UNCHANGED <<entries, capacity, uniq, thread, keyOf>>
      /\ ~it.done
      /\ it' = [it EXCEPT !.prev = v, !.done = (v = NoValue),
                          !.seen = IF v = NoValue THEN @ ELSE Append(@, v)]
  BY DEF LookupNext, table
<1>2. it \in [key : Key \cup {NULL}, prev : Nat, seen : Seq(Nat), all : SUBSET Nat,
              done : BOOLEAN, grown : BOOLEAN]
  BY DEF WInv, CInv, IInv, TypeOK
<1>3. /\ it'.key = k /\ it'.prev = v /\ it'.all = it.all /\ it'.grown = it.grown
      /\ it'.done = (v = NoValue)
      /\ it'.seen = IF v = NoValue THEN it.seen ELSE Append(it.seen, v)
  BY <1>1, <1>2
<1>4. OccupiedSlots' = OccupiedSlots
  BY <1>1 DEF OccupiedSlots
<1>5. Ages' /\ LastIsNewest'
  BY <1>1, <1>4 DEF WInv, Ages, LastIsNewest
<1>6. SUFFICES ASSUME ~it.grown PROVE Walked'
  BY <1>3, <1>5 DEF WInv, Walked
<1>7. Walking /\ SeenOnce
  BY <1>1, <1>6 DEF WInv, Walked
<1>8. PICK p \in OccupiedSlots :
        /\ entries[p].value = it.prev /\ it.prev \in it.all
        /\ \A s \in OccupiedSlots :
             entries[s].value \in it.all => (entries[s].value \in Seen <=> entries[p].id <= entries[s].id)
  BY <1>7 DEF Walking
<1>9. \A s \in OccupiedSlots : entries[s].value \in it.all => entries[s].key = k
  BY <1>7 DEF Walking, WInv, CInv, Contents, Unshared
<1>10. k \in Key /\ it.prev \in Nat
  BY <1>1, <1>2 DEF WInv, CInv, IInv, Phases
<1>11. c = {s \in OccupiedSlots : entries[s].key = k /\ entries[s].id < entries[p].id}
  <2>1. it.prev # NoValue
    BY <1>8 DEF WInv, CInv, Contents, Truthful, NoValue
  <2>2. \A q \in OccupiedSlots : entries[q].value = it.prev => q = p
    BY <1>8 DEF WInv, CInv, Contents, Unshared
  <2> QED BY <1>8, <2>1, <2>2 DEF Candidates
<1>12. \A s \in OccupiedSlots : entries[s].id \in Nat
  BY DEF WInv, CInv, IInv, TypeOK, Entry, OccupiedSlots
<1>13. \A w \in it.all : \E s \in OccupiedSlots : entries[s].value = w /\ entries[s].key = k
  BY <1>7 DEF Walking
<1>14. it.seen \in Seq(Nat) /\ Len(it.seen) \in Nat
  BY <1>2
<1>15. CASE c = {} /\ v = NoValue
  <2>1. \A w \in it.all : w \in Seen
    BY <1>8, <1>11, <1>12, <1>13, <1>15
  <2>2. Seen' = Seen /\ (SeenOnce' <=> SeenOnce)
    BY <1>3, <1>15 DEF Seen, SeenOnce
  <2>3. Seen = it.all
    BY <1>7, <2>1 DEF Walking
  <2> QED BY <1>3, <1>7, <1>15, <2>2, <2>3 DEF Walked
<1>16. CASE \E s \in c : /\ v = entries[s].value /\ v # NoValue
                         /\ \A r \in c : entries[r].id <= entries[s].id
  <2>1. PICK m \in c : /\ v = entries[m].value /\ v # NoValue
                       /\ \A r \in c : entries[r].id <= entries[m].id
    BY <1>16
  <2>2. m \in OccupiedSlots /\ entries[m].key = k /\ entries[m].id < entries[p].id
    BY <1>11, <2>1
  <2>3. v \in it.all
    <3>1. entries[m].value \notin it.all => entries[p].id < entries[m].id
      BY <1>7, <1>8, <2>2 DEF Walking
    <3> QED BY <1>8, <1>12, <2>1, <2>2, <3>1
  <2>4. v \notin Seen
    BY <1>8, <1>12, <2>1, <2>2, <2>3
  <2>5. /\ it'.seen = Append(it.seen, v) /\ Len(it'.seen) = Len(it.seen) + 1
        /\ it'.seen[Len(it.seen) + 1] = v
        /\ \A n \in 1..Len(it.seen) : it'.seen[n] = it.seen[n]
    BY <1>3, <1>14, <2>1
  <2>6. Seen' = Seen \cup {v}
    <3>1. 1..Len(it'.seen) = (1..Len(it.seen)) \cup {Len(it.seen) + 1}
      BY <1>14, <2>5
    <3> HIDE DEF v
    <3> QED BY <2>5, <3>1 DEF Seen
  <2>7. SeenOnce'
    <3> HIDE DEF v
    <3>1. \A n \in 1..Len(it.seen) : it.seen[n] # v
      BY <2>4 DEF Seen
    <3>2. \A n \in 1..Len(it'.seen) : n \in 1..Len(it.seen) \/ n = Len(it.seen) + 1
      BY <1>14, <2>5
    <3> QED BY <1>7, <2>5, <3>1, <3>2 DEF SeenOnce
  <2>8. ASSUME NEW s \in OccupiedSlots, entries[s].value \in it.all
        PROVE  entries[s].value \in Seen \cup {v} <=> entries[m].id <= entries[s].id
    <3>1. entries[s].id \in Nat /\ entries[m].id \in Nat /\ entries[p].id \in Nat
      BY <1>8, <1>12, <2>2
    <3>2. entries[s].value \in Seen <=> entries[p].id <= entries[s].id
      BY <1>8, <2>8
    <3>3. entries[s].id < entries[p].id => entries[s].id <= entries[m].id
      BY <1>9, <1>11, <2>1, <2>8
    <3>4. entries[s].value = v => s = m
      BY <2>1, <2>2 DEF WInv, CInv, Contents, Unshared
    <3>5. entries[s].id = entries[m].id => s = m
      BY <2>2 DEF WInv, Ages
    <3> HIDE DEF v
    <3> QED BY <2>1, <2>2, <3>1, <3>2, <3>3, <3>4, <3>5
  <2>9. Walking'
    <3> HIDE DEF v, k
    <3>1. \A w \in it'.all : \E s \in OccupiedSlots' : entries'[s].value = w /\ entries'[s].key = it'.key
      BY <1>1, <1>3, <1>4, <1>13
    <3>2. Seen' \subseteq it'.all
      BY <1>3, <1>7, <2>3, <2>6 DEF Walking
    <3>3. \E q \in OccupiedSlots' :
            /\ entries'[q].value = it'.prev /\ it'.prev \in it'.all
            /\ \A s \in OccupiedSlots' :
                 entries'[s].value \in it'.all
                   => (entries'[s].value \in Seen' <=> entries'[q].id <= entries'[s].id)
      BY <1>1, <1>3, <1>4, <2>1, <2>2, <2>3, <2>6, <2>8
    <3>4. \A s, r \in OccupiedSlots' :
            entries'[s].key = it'.key /\ entries'[s].value \notin it'.all /\ entries'[r].value \in it'.all
              => entries'[r].id < entries'[s].id
      BY <1>1, <1>3, <1>4, <1>7 DEF Walking, k
    <3> QED BY <1>1, <3>1, <3>2, <3>3, <3>4 DEF Walking
  <2> QED BY <1>3, <2>1, <2>7, <2>9 DEF Walked
<1> QED BY <1>8, <1>9, <1>10, <1>15, <1>16, LookupFinds DEF WInv

LEMMA StutterWInv == ASSUME WInv, CInv', UNCHANGED vars PROVE WInv'
<1>1. UNCHANGED <<capacity, entries, uniq, pc, thread, keyOf, it>>
  BY DEF vars, table
<1>2. OccupiedSlots' = OccupiedSlots
  BY <1>1 DEF OccupiedSlots
<1>3. Ages' /\ LastIsNewest'
  BY <1>1, <1>2 DEF WInv, Ages, LastIsNewest
<1>4. Seen' = Seen /\ (SeenOnce' <=> SeenOnce)
  BY <1>1 DEF Seen, SeenOnce
<1>5. Walking => Walking'
  BY <1>1, <1>2, <1>4 DEF Walking
<1>6. Walked'
  BY <1>1, <1>4, <1>5 DEF WInv, Walked
<1> QED BY <1>3, <1>6 DEF WInv

LEMMA NextWInv ==
  ASSUME OneThread, WInv, [Next]_vars
  PROVE  WInv'
<1>1. CInv'
  BY NextCInv DEF WInv
<1>2. CASE \E n \in 0..MaxSize : Create(n)
  BY <1>1, <1>2, CreateWInv
<1>3. CASE \E t \in Thread, k \in Key : AddGrow(t, k)
  BY <1>1, <1>3, AddGrowWInv
<1>4. CASE \E t \in Thread, k \in Key : AddInPlace(t, k) \/ AddNoMemory(t, k)
  <2>1. UNCHANGED <<table, uniq, keyOf, it>> /\ pc = "idle" /\ pc' \in {"idle", "adding"}
    BY <1>4 DEF AddInPlace, AddNoMemory, Idle
  <2> QED BY <1>1, <2>1, QuietWInv
<1>5. CASE RehashSkip \/ RehashMove \/ RehashDone \/ ProbeNext
  <2>1. /\ UNCHANGED <<table, uniq, keyOf, it>> /\ pc' # "idle"
        /\ pc = "rehash" \/ pc' = pc
    BY <1>5 DEF RehashSkip, RehashMove, RehashDone, ProbeNext
  <2> QED BY <1>1, <2>1, QuietWInv
<1>6. CASE PlaceMoved
  BY <1>1, <1>6, PlaceMovedWInv
<1>7. CASE PlaceAdded
  BY <1>1, <1>7, PlaceAddedWInv
<1>8. CASE \E k \in Key : LookupFirst(k)
  BY <1>1, <1>8, LookupFirstWInv
<1>9. CASE LookupNext
  BY <1>1, <1>9, LookupNextWInv
<1>10. CASE Free
  BY <1>1, <1>10, FreeWInv
<1>11. CASE UNCHANGED vars
  BY <1>1, <1>11, StutterWInv
<1> QED BY <1>2, <1>3, <1>4, <1>5, <1>6, <1>7, <1>8, <1>9, <1>10, <1>11 DEF Next, Step

LEMMA SpecWInv == ASSUME OneThread PROVE Spec => []WInv
<1>1. WInv /\ [Next]_vars => WInv'
  BY NextWInv
<1> QED BY <1>1, InitWInv, PTL DEF Spec

\* A lookup returns the value added last, when that was added under the key, for
\* an object that one thread uses: a growth gives the older values other ids,
\* but never greater ones.
THEOREM LastAddedIsFound == ASSUME OneThread PROVE Spec => []NewestFirst
<1>1. ASSUME WInv PROVE NewestFirst
  <2> SUFFICES ASSUME pc = "idle", keyOf # <<>>
               PROVE  ObjectNext(keyOf[Len(keyOf)], NoValue) = Len(keyOf)
    BY DEF NewestFirst
  <2> DEFINE n == Len(keyOf)
             k == keyOf[n]
             c == Candidates(k, NoValue)
  <2>1. k \in Key /\ n \in 1..n
    BY <1>1 DEF WInv, CInv, IInv, TypeOK
  <2>2. n \in ValuesOf(k)
    BY <2>1 DEF ValuesOf
  <2>3. PICK s \in OccupiedSlots : entries[s].value = n /\ entries[s].key = k
    BY <1>1, <2>1, <2>2, IdleTable DEF WInv
  <2>4. s \in c
    BY <2>3 DEF Candidates
  <2>5. PICK m \in c : /\ ObjectNext(k, NoValue) = entries[m].value
                       /\ \A r \in c : entries[r].id <= entries[m].id
    BY <1>1, <2>1, <2>4, LookupFinds DEF WInv, NoValue
  <2>6. m \in OccupiedSlots
    BY DEF Candidates
  <2>7. entries[s].id <= entries[m].id /\ entries[m].id <= entries[s].id
    BY <1>1, <2>3, <2>4, <2>5, <2>6 DEF WInv, LastIsNewest
  <2>8. entries[s].id \in Nat /\ entries[m].id \in Nat
    BY <1>1, <2>3, <2>6 DEF WInv, CInv, IInv, TypeOK, Entry, OccupiedSlots
  <2>9. s = m
    BY <1>1, <2>3, <2>6, <2>7, <2>8 DEF WInv, Ages
  <2> QED BY <2>3, <2>5, <2>9
<1> QED BY <1>1, SpecWInv, PTL

\* A walk with json_object_lookup_next returns each value that the key had, once
\* and no other, for an object that one thread uses, also when values are added
\* between its steps, as long as the table does not grow.
THEOREM WalkReturnsAll == ASSUME OneThread PROVE Spec => []WalkIsExact
<1>1. ASSUME WInv PROVE WalkIsExact
  BY <1>1 DEF WInv, Walked, SeenOnce, Seen, WalkIsExact
<1> QED BY <1>1, SpecWInv, PTL
=============================================================================
