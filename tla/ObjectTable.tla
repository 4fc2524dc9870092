----------------------------- MODULE ObjectTable -----------------------------
(***************************************************************************)
(* A JSON object: the open-addressing hash table of src/src/object.c.      *)
(*                                                                         *)
(* One object is followed from json_create_object to its disposal.  Its    *)
(* callers are threads that hand the object over between calls (it has no  *)
(* lock, two calls never overlap), each with its own id counter `uniq`.    *)
(* A call is split where its loops are: one step per iteration of the      *)
(* rehash loop of object_reserve and of the probe loop of object_add.      *)
(*                                                                         *)
(* Abstractions.  A key is its content, Hash[k] the FNV hash of it.  The   *)
(* value added by the n-th successful object_add is the number n, so a     *)
(* value also tells when it was added; 0 is the null pointer.  No function *)
(* of the library removes an entry, so the tombstone &key_deleted that     *)
(* object.c tests for is never in a table and does not appear here.        *)
(*                                                                         *)
(* An operator named Bad... is a plausible mistake in the definition after *)
(* it: the property it breaks is named in PROJECT.json.                    *)
(***************************************************************************)
EXTENDS Integers, Sequences, FiniteSets

CONSTANTS
  Key,              \* contents of keys
  NULL,             \* the null pointer, where a key is expected
  Hash,             \* Hash[k]: key->hash
  PrimeCapacities,  \* prime_capacities, as a sequence
  Thread,           \* the threads that use the object
  FirstId,          \* values `uniq` may have when the object is created: a
                    \* thread has used ids for its other objects already
  MaxSize           \* bound: entries one object may hold

NumPrimes == Len(PrimeCapacities)

ASSUME KeyAssumption == NULL \notin Key
ASSUME HashAssumption == Hash \in [Key -> Nat]
ASSUME FirstIdAssumption == FirstId \subseteq Nat \ {0}
ASSUME MaxSizeAssumption == MaxSize \in Nat

\* "array of prime numbers of strictly growing bit length"
ASSUME PrimesAssumption ==
  /\ PrimeCapacities \in Seq(Nat \ {0})
  /\ NumPrimes > 0
  /\ \A i, j \in 1..NumPrimes : i < j => PrimeCapacities[i] < PrimeCapacities[j]

InverseMaxOccupancy == 2

\* The largest capacity, 1.4 * 10^19, is beyond any address space: memory runs
\* out before the search for a capacity falls off the end of the array.
ASSUME MemoryAssumption == InverseMaxOccupancy * MaxSize <= PrimeCapacities[NumPrimes]

NoValue == 0
Entry == [id : Nat, key : Key \cup {NULL}, value : Nat]

\* An entry as json_calloc leaves it.
Blank == [id |-> 0, key |-> NULL, value |-> NoValue]
Occupied(e) == e.key # NULL

VARIABLES
  capacity, size, unique_size, entries,  \* struct jsonObject
  uniq,         \* uniq[t]: the next entry id of thread t
  pc,           \* where the call under way is
  thread, key,  \* the calling thread and the key of its object_add
  old_capacity, old_entries, i,    \* the rehash loop of object_reserve
  slot, is_duplicate,              \* the probe loop of object_add
  result,       \* what the last object_add returned
  keyOf,        \* history: keyOf[n] is the key of the n-th value added
  released,     \* history: released[v] is how often value v was freed
  it            \* an iteration of the user with json_object_lookup_next

table == <<capacity, size, unique_size, entries>>
rehashVars == <<old_capacity, old_entries, i>>
probeVars == <<slot, is_duplicate>>
vars == <<table, uniq, pc, thread, key, rehashVars, probeVars, result, keyOf, released, it>>

-----------------------------------------------------------------------------
(* The geometry of a probe.                                                *)

Home(k) == Hash[k] % capacity

BadNextSlotStuck(s) == IF s + 1 = capacity THEN s ELSE s + 1
BadNextSlotWrap(s) == IF s + 1 = capacity THEN 1 ELSE s + 1
NextSlot(s) == IF s + 1 = capacity THEN 0 ELSE s + 1

\* The slot d steps after the home slot of k, in probe order.
SlotAt(k, d) == IF Home(k) + d < capacity THEN Home(k) + d ELSE Home(k) + d - capacity

\* How many probe steps slot s is away from the home slot of k.
Distance(k, s) == IF s >= Home(k) THEN s - Home(k) ELSE s - Home(k) + capacity

At(k, d) == entries[SlotAt(k, d)]

\* The part of the table that a search for k looks at: up to the first
\* empty entry.
Path(k) == {d \in 0 .. capacity - 1 : \A e \in 0 .. d : Occupied(At(k, e))}

(* object_next with id_of: of the entries under k with an id below that of *)
(* the value prev, the one with the greatest id; NoValue when there is     *)
(* none.  For prev = NoValue every id counts.                              *)
BadIdOf(k, prev) ==
  LET found == {d \in Path(k) : At(k, d).key = k /\ At(k, d).value = prev}
  IN  IF found = {} THEN 0 ELSE At(k, CHOOSE d \in found : TRUE).id + 1
IdOf(k, prev) ==
  LET found == {d \in Path(k) : At(k, d).key = k /\ At(k, d).value = prev}
  IN  IF found = {} THEN 0 ELSE At(k, CHOOSE d \in found : \A e \in found : d <= e).id

BadObjectNext(k, prev) ==
  LET older == {d \in Path(k) : /\ At(k, d).key = k
                                /\ prev = NoValue \/ At(k, d).id < IdOf(k, prev)}
  IN  IF older = {} THEN NoValue
      ELSE At(k, CHOOSE d \in older : \A e \in older : d <= e).value
ObjectNext(k, prev) ==
  LET older == {d \in Path(k) : /\ At(k, d).key = k
                                /\ prev = NoValue \/ At(k, d).id < IdOf(k, prev)}
      \* `entry->id > id_greatest_less_than_prev_id`: among equals the first wins
      greatest(d) == \A e \in older : \/ At(k, e).id < At(k, d).id
                                      \/ At(k, e).id = At(k, d).id /\ d <= e
  IN  IF older = {} THEN NoValue ELSE At(k, CHOOSE d \in older : greatest(d)).value

-----------------------------------------------------------------------------
\* The capacity object_reserve takes for min_capacity: the first prime that is
\* enough, the last one if none is.
BadIsNewCapacity(c, min_capacity) ==
  \E n \in 1..NumPrimes :
    /\ c = PrimeCapacities[n]
    /\ min_capacity <= 2 * c \/ n = NumPrimes
    /\ \A m \in 1 .. n - 1 : 2 * PrimeCapacities[m] < min_capacity
IsNewCapacity(c, min_capacity) ==
  \E n \in 1..NumPrimes :
    /\ c = PrimeCapacities[n]
    /\ min_capacity <= c \/ n = NumPrimes
    /\ \A m \in 1 .. n - 1 : PrimeCapacities[m] < min_capacity

BadMinCapacity(n) == n
MinCapacity(n) == n * InverseMaxOccupancy

\* `if (min_capacity <= object->capacity) return true`
Fits(n) == MinCapacity(n) <= capacity

NoOldEntries == [s \in {} |-> Blank]
Idle(t) == pc = "idle" /\ t \in Thread

\* Beginning of the probe loop of object_add, in a table of capacity c.
StartProbe(k, c) == slot' = Hash[k] % c /\ is_duplicate' = FALSE

NoIteration == [key |-> NULL, prev |-> NoValue, seen |-> <<>>, all |-> {},
                done |-> TRUE, grown |-> FALSE]

Init ==
  /\ capacity = 0 /\ size = 0 /\ unique_size = 0 /\ entries = NoOldEntries
  /\ uniq \in [Thread -> FirstId]
  /\ pc = "none"
  /\ thread \in Thread /\ key = NULL
  /\ old_capacity = 0 /\ old_entries = NoOldEntries /\ i = 0
  /\ slot = 0 /\ is_duplicate = FALSE
  /\ result = TRUE
  /\ keyOf = <<>>
  /\ released = <<>>
  /\ it = NoIteration

(* json_create_object(initial_capacity), or object_init alone for n = 0.   *)
(* When json_calloc fails there is no object, and nothing changes.         *)
BadCreate(n) ==
  /\ pc = "none"
  /\ IF Fits(n) THEN UNCHANGED <<capacity, entries>>
     ELSE \E c \in 1..PrimeCapacities[NumPrimes] :
            /\ IsNewCapacity(c, MinCapacity(n))
            /\ capacity' = c
            /\ entries' = [s \in 0 .. n - 1 |-> Blank]
  /\ pc' = "idle"
  /\ UNCHANGED <<size, unique_size, uniq, thread, key, rehashVars, probeVars,
                 result, keyOf, released, it>>
Create(n) ==
  /\ pc = "none"
  /\ \/ /\ Fits(n)
        /\ UNCHANGED <<capacity, entries>>
     \/ /\ ~Fits(n)
        /\ \E c \in 1..PrimeCapacities[NumPrimes] :
             /\ IsNewCapacity(c, MinCapacity(n))
             /\ capacity' = c
             /\ entries' = [s \in 0 .. c - 1 |-> Blank]
  /\ pc' = "idle"
  /\ UNCHANGED <<size, unique_size, uniq, thread, key, rehashVars, probeVars,
                 result, keyOf, released, it>>

(* object_add(object, k, value) by thread t; object_reserve finds the      *)
(* table large enough.                                                     *)
AddInPlace(t, k) ==
  /\ Idle(t) /\ Len(keyOf) < MaxSize
  /\ Fits(size + 1)
  /\ thread' = t /\ key' = k
  /\ StartProbe(k, capacity)
  /\ pc' = "adding"
  /\ UNCHANGED <<table, uniq, rehashVars, result, keyOf, released, it>>

(* object_add when object_reserve has to grow the table: the new entries   *)
(* are allocated and installed, object_init resets the counters.           *)
AddGrow(t, k) ==
  /\ Idle(t) /\ Len(keyOf) < MaxSize
  /\ ~Fits(size + 1)
  /\ \E c \in 1..PrimeCapacities[NumPrimes] :
       /\ IsNewCapacity(c, MinCapacity(size + 1))
       /\ capacity' = c
       /\ entries' = [s \in 0 .. c - 1 |-> Blank]
  /\ old_capacity' = capacity /\ old_entries' = entries /\ i' = 0
  /\ size' = 0 /\ unique_size' = 0
  /\ thread' = t /\ key' = k
  /\ pc' = "rehash"
  /\ it' = [it EXCEPT !.grown = TRUE]
  /\ UNCHANGED <<uniq, probeVars, result, keyOf, released>>

(* object_add when json_calloc of the new entries fails.                   *)
BadAddNoMemory(t, k) ==
  /\ Idle(t) /\ Len(keyOf) < MaxSize
  /\ ~Fits(size + 1)
  /\ thread' = t /\ key' = k
  /\ result' = FALSE
  /\ capacity' = 0 /\ size' = 0 /\ unique_size' = 0 /\ entries' = NoOldEntries
  /\ UNCHANGED <<uniq, pc, rehashVars, probeVars, keyOf, released, it>>
AddNoMemory(t, k) ==
  /\ Idle(t) /\ Len(keyOf) < MaxSize
  /\ ~Fits(size + 1)
  /\ thread' = t /\ key' = k
  /\ result' = FALSE
  /\ UNCHANGED <<table, uniq, pc, rehashVars, probeVars, keyOf, released, it>>

-----------------------------------------------------------------------------
(* The rehash loop: the entries of the old table are added to the new one  *)
(* in the order of their slots.                                            *)

RehashSkip ==
  /\ pc = "rehash" /\ i < old_capacity
  /\ ~Occupied(old_entries[i])
  /\ i' = i + 1
  /\ UNCHANGED <<table, uniq, pc, thread, key, old_capacity, old_entries,
                 probeVars, result, keyOf, released, it>>

\* The nested object_add; its own object_reserve must find the table large
\* enough (NestedAddNeverGrows), so that it goes straight to the probe loop.
RehashMove ==
  /\ pc = "rehash" /\ i < old_capacity
  /\ Occupied(old_entries[i])
  /\ Fits(size + 1)
  /\ StartProbe(old_entries[i].key, capacity)
  /\ pc' = "moving"
  /\ UNCHANGED <<table, uniq, thread, key, rehashVars, result, keyOf, released, it>>

\* The old entries are freed and the interrupted object_add goes on.
BadRehashDone ==
  /\ pc = "rehash" /\ i + 1 >= old_capacity
  /\ old_capacity' = 0 /\ old_entries' = NoOldEntries /\ i' = 0
  /\ StartProbe(key, capacity)
  /\ pc' = "adding"
  /\ UNCHANGED <<table, uniq, thread, key, result, keyOf, released, it>>
RehashDone ==
  /\ pc = "rehash" /\ i = old_capacity
  /\ old_capacity' = 0 /\ old_entries' = NoOldEntries /\ i' = 0
  /\ StartProbe(key, capacity)
  /\ pc' = "adding"
  /\ UNCHANGED <<table, uniq, thread, key, result, keyOf, released, it>>

-----------------------------------------------------------------------------
(* The probe loop of object_add, for the entry being moved or added.       *)

CurrentKey == IF pc = "moving" THEN old_entries[i].key ELSE key
CurrentValue == IF pc = "moving" THEN old_entries[i].value ELSE Len(keyOf) + 1

BadProbeNext ==
  /\ pc \in {"moving", "adding"}
  /\ Occupied(entries[slot])
  /\ is_duplicate' = (entries[slot].key = CurrentKey)
  /\ slot' = NextSlot(slot)
  /\ UNCHANGED <<table, uniq, pc, thread, key, rehashVars, result, keyOf, released, it>>
ProbeNext ==
  /\ pc \in {"moving", "adding"}
  /\ Occupied(entries[slot])
  /\ is_duplicate' = (is_duplicate \/ entries[slot].key = CurrentKey)
  /\ slot' = NextSlot(slot)
  /\ UNCHANGED <<table, uniq, pc, thread, key, rehashVars, result, keyOf, released, it>>

\* The end of object_add: take the empty entry and count it.
Store ==
  /\ ~Occupied(entries[slot])
  /\ entries' = [entries EXCEPT ![slot] = [id |-> uniq[thread], key |-> CurrentKey,
                                           value |-> CurrentValue]]
  /\ uniq' = [uniq EXCEPT ![thread] = @ + 1]
  /\ size' = size + 1
  /\ unique_size' = IF is_duplicate THEN unique_size ELSE unique_size + 1
  /\ UNCHANGED <<capacity, probeVars>>

\* Back in the rehash loop, which clears the old entry.
PlaceMoved ==
  /\ pc = "moving"
  /\ Store
  /\ old_entries' = [old_entries EXCEPT ![i].key = NULL, ![i].value = NoValue]
  /\ i' = i + 1
  /\ pc' = "rehash"
  /\ UNCHANGED <<thread, key, old_capacity, result, keyOf, released, it>>

\* Back in the caller.
PlaceAdded ==
  /\ pc = "adding"
  /\ Store
  /\ keyOf' = Append(keyOf, key)
  /\ result' = TRUE
  /\ pc' = "idle"
  /\ UNCHANGED <<thread, key, rehashVars, released, it>>

-----------------------------------------------------------------------------
ValuesOf(k) == {n \in 1..Len(keyOf) : keyOf[n] = k}

(* The user walks over the values of k: json_object_lookup(k) ...          *)
LookupFirst(k) ==
  /\ pc = "idle" /\ it.done
  /\ LET v == ObjectNext(k, NoValue)
     IN  it' = [key |-> k, prev |-> v, seen |-> IF v = NoValue THEN <<>> ELSE <<v>>,
                all |-> ValuesOf(k), done |-> v = NoValue, grown |-> FALSE]
  /\ UNCHANGED <<table, uniq, pc, thread, key, rehashVars, probeVars, result, keyOf, released>>

(* ... and json_object_lookup_next(k, previous answer) until it is NULL.   *)
LookupNext ==
  /\ pc = "idle" /\ ~it.done
  /\ LET v == ObjectNext(it.key, it.prev)
     IN  it' = [it EXCEPT !.prev = v, !.done = (v = NoValue),
                          !.seen = IF v = NoValue THEN @ ELSE Append(@, v)]
  /\ UNCHANGED <<table, uniq, pc, thread, key, rehashVars, probeVars, result, keyOf, released>>

\* How many entries of the table hold value v: so often will it be freed.
BadHolders(v) == {s \in 1 .. capacity - 1 : Occupied(entries[s]) /\ entries[s].value = v}
Holders(v) == {s \in 0 .. capacity - 1 : Occupied(entries[s]) /\ entries[s].value = v}

(* object_free_internal: every key and value is freed, then the entries.   *)
(* unique_size keeps its value.                                            *)
Free ==
  /\ pc = "idle"
  /\ released' = [v \in 1..Len(keyOf) |-> Cardinality(Holders(v))]
  /\ capacity' = 0 /\ size' = 0 /\ entries' = NoOldEntries
  /\ pc' = "freed"
  /\ it' = NoIteration
  /\ UNCHANGED <<unique_size, uniq, thread, key, rehashVars, probeVars, result, keyOf>>

\* The steps of a call that is under way.
Step == RehashSkip \/ RehashMove \/ RehashDone \/ ProbeNext \/ PlaceMoved \/ PlaceAdded

Next ==
  \/ \E n \in 0..MaxSize : Create(n)
  \/ \E t \in Thread, k \in Key : AddInPlace(t, k) \/ AddGrow(t, k) \/ AddNoMemory(t, k)
  \/ Step
  \/ \E k \in Key : LookupFirst(k)
  \/ LookupNext
  \/ Free

Spec == Init /\ [][Next]_vars

(* A thread inside a call runs on; nothing makes the user call again.      *)
FairSpec == Spec /\ WF_vars(Step)

-----------------------------------------------------------------------------
TypeOK ==
  /\ capacity \in Nat /\ size \in Nat /\ unique_size \in Nat
  /\ entries \in [0 .. capacity - 1 -> Entry]
  /\ uniq \in [Thread -> Nat]
  /\ pc \in {"none", "idle", "rehash", "moving", "adding", "freed"}
  /\ thread \in Thread /\ key \in Key \cup {NULL}
  /\ old_capacity \in Nat /\ i \in 0..old_capacity
  /\ old_entries \in [0 .. old_capacity - 1 -> Entry]
  /\ slot \in Nat /\ is_duplicate \in BOOLEAN
  /\ result \in BOOLEAN
  /\ keyOf \in Seq(Key)
  /\ it \in [key : Key \cup {NULL}, prev : Nat, seen : Seq(Nat), all : SUBSET Nat,
             done : BOOLEAN, grown : BOOLEAN]

OccupiedSlots == {s \in 0 .. capacity - 1 : Occupied(entries[s])}
OldOccupied == {s \in 0 .. old_capacity - 1 : Occupied(old_entries[s])}

\* (HalfEmpty) `size` counts the occupied entries, and at least half of a
\* table is empty whatever was added: the for (;;) loops of object_add, id_of
\* and object_next have no other way to end than to meet an empty entry.
HalfEmpty ==
  /\ size = Cardinality(OccupiedSlots)
  /\ InverseMaxOccupancy * size <= capacity

\* (NoGapOnPath) A search finds whatever is stored: no entry on the way from
\* the home slot of a key to an entry of that key is empty, also in the middle
\* of a rehash.  object_next and the duplicate test of object_add stop at the
\* first empty entry and rely on it.
NoGapOnPath ==
  \A s \in OccupiedSlots :
    \A d \in 0 .. Distance(entries[s].key, s) : Occupied(At(entries[s].key, d))

\* (CountsExact) json_object_number_of_keys is the number of different keys,
\* json_object_number_of_values the number of values added ("Size of set
\* { key | (key, value) <- object }", includes/json.h:167), through all the
\* recounting that a growth of the table does.
CountsExact ==
  pc = "idle" => /\ unique_size = Cardinality({keyOf[n] : n \in 1..Len(keyOf)})
                 /\ size = Len(keyOf)

\* (StoredOnce) Every value added sits, with its own key, in exactly one entry
\* of the old and the new table together, at every moment of a rehash.
Stored(v) ==
  {s \in OccupiedSlots : entries[s].value = v /\ entries[s].key = keyOf[v]}
OldStored(v) ==
  {s \in OldOccupied : old_entries[s].value = v /\ old_entries[s].key = keyOf[v]}
StoredOnce ==
  pc # "freed" =>
    \A v \in 1..Len(keyOf) : Cardinality(Stored(v)) + Cardinality(OldStored(v)) = 1

\* (FreedExactlyOnce) object_free_internal frees each value that was added, and
\* none twice.
FreedExactlyOnce ==
  pc = "freed" => \A v \in 1..Len(keyOf) : released[v] = 1

\* (NestedAddNeverGrows) The object_add that object_reserve calls for an old
\* entry never allocates: it would otherwise rehash the table it is filling,
\* and `assert(object_add(...))` (src/src/object.c:92) could fail.
NestedAddNeverGrows ==
  pc = "rehash" /\ i < old_capacity /\ Occupied(old_entries[i]) => Fits(size + 1)

\* (NewestFirst) Right after values were added by one thread, looking up the
\* key of the newest one returns it, whatever a growth did to the older ids.
NewestFirst ==
  pc = "idle" /\ keyOf # <<>> =>
    ObjectNext(keyOf[Len(keyOf)], NoValue) = Len(keyOf)

\* (WalkIsExact) A walk with json_object_lookup_next never returns a value
\* twice, and ends when it has returned every value the key had at its
\* beginning, even if other values are added meanwhile (unless the table grew).
WalkIsExact ==
  ~it.grown =>
    /\ \A m, n \in 1..Len(it.seen) : m # n => it.seen[m] # it.seen[n]
    /\ it.done => {it.seen[n] : n \in 1..Len(it.seen)} = it.all

\* (Refines) Rehashing is invisible: the object is an atomic multimap.
valsOf(k) == {entries[s].value : s \in {r \in OccupiedSlots : entries[r].key = k}}
               \cup {old_entries[s].value : s \in {r \in OldOccupied : old_entries[r].key = k}}
Abstract == INSTANCE Multimap WITH Value <- 1..MaxSize,
                                   open <- pc \notin {"none", "freed"},
                                   vals <- [k \in Key |-> valsOf(k)]
Refines == Abstract!Spec

\* (CallsReturn) Every object_add that began returns: neither the rehash loop
\* nor a probe loop runs forever.
CallsReturn == pc \in {"rehash", "moving", "adding"} ~> pc = "idle"

-----------------------------------------------------------------------------
\* (LastAddedFirst) "The function will only find the last value added to the
\* key" (includes/json.h:224).  Not kept: a growth gives new ids in the order
\* of slots, and a probe path that wrapped around the end of the old table is
\* then renumbered from its middle.
LastAddedFirst ==
  pc = "idle" => \A k \in Key : ValuesOf(k) # {} =>
                   \A n \in ValuesOf(k) : n <= ObjectNext(k, NoValue)
=============================================================================
