------------------------- MODULE DebugBlocksProofs -------------------------
(***************************************************************************)
(* Theorems about the allocator of the debug build (module DebugBlocks),   *)
(* for any finite number of blocks and one thread: the list has no lock.   *)
(*                                                                         *)
(* Neither ListIsExact nor NothingDangles is inductive: both are about a   *)
(* walk along the list, and the first only about the time between calls.   *)
(* IInv says what the walk is in the middle of a call, by naming the       *)
(* sequence w of the n blocks it meets: what the links of each statement   *)
(* of add_block and remove_block are, and which links back are still old.  *)
(***************************************************************************)
EXTENDS DebugBlocks, FiniteSetTheorems, WellFoundedInduction, TLAPS

OneThread == \E t : Thread = {t}

Adding == {"add_next", "add_prev", "add_back", "add_first"}
Removing == {"remove", "remove_next", "remove_prev", "remove_links", "removed"}

Members(n, w) == {w[k] : k \in 1 .. n}

\* Block k of the walk; there is none before the first and after the last.
Nth(n, w, k) == IF k \in 1 .. n THEN w[k] ELSE NULL

\* A walk along the list meets w[1] to w[n], each once, and ends.
Once(n, w) == \A j, k \in 1 .. n : w[j] = w[k] => j = k
Walk(n, w) ==
  /\ Once(n, w)
  /\ blocks_first = Nth(n, w, 1)
  /\ \A k \in 1 .. n : next[w[k]] = Nth(n, w, k + 1)

\* The block of the call has left the walk, and its neighbour's link back or
\* its own links still have to be changed.
Leaving(t, n, w) ==
  pc[t] \in {"remove_next", "remove_prev"} /\ block[t] \notin Members(n, w)

\* Which blocks the walk meets, and how many are counted.
Listing(t, n, w) ==
  /\ pc[t] = "idle" => Members(n, w) = attached
  /\ pc[t] # "idle" => block[t] \in live /\ Members(n, w) \ {block[t]} = attached \ {block[t]}
  /\ pc[t] \in Adding => block[t] \in attached
  /\ pc[t] \in Removing => block[t] \notin attached
  /\ pc[t] \in Adding \cup {"remove_prev", "remove_links", "removed"} =>
       block[t] \notin Members(n, w)
  /\ block_list_size = IF Leaving(t, n, w) \/ pc[t] = "remove_links" THEN n + 1 ELSE n

\* The links of the block of the call.
OwnLinks(t, n, w) ==
  /\ pc[t] \in Adding \ {"add_next"} => next[block[t]] = blocks_first
  /\ pc[t] \in {"add_back", "add_first"} => prev[block[t]] = NULL
  /\ pc[t] = "remove_next" => block[t] # blocks_first
  /\ Leaving(t, n, w) =>
       \E k \in 1 .. n + 1 : /\ next[block[t]] = Nth(n, w, k)
                             /\ prev[block[t]] = Nth(n, w, k - 1)
                             /\ pc[t] = "remove_next" => k = 1
  /\ pc[t] = "removed" \/ (pc[t] = "remove" /\ block[t] \notin Members(n, w)) =>
       Unlinked(block[t])

\* The links back of the blocks of the walk.
LinksBack(t, n, w) ==
  \A k \in 1 .. n :
    \/ prev[w[k]] = Nth(n, w, k - 1) /\ ~(pc[t] = "add_first" /\ k = 1)
    \/ pc[t] = "add_first" /\ k = 1 /\ prev[w[k]] = block[t]
    \/ Leaving(t, n, w) /\ next[block[t]] = w[k]

\* A block outside of the walk and of the call points nowhere.
Outside(t, n, w) ==
  \A b \in live \ Members(n, w) : (pc[t] # "idle" => b # block[t]) => Unlinked(b)

State(t, n, w) ==
  Walk(n, w) /\ Listing(t, n, w) /\ OwnLinks(t, n, w) /\ LinksBack(t, n, w) /\ Outside(t, n, w)

IInv(t) == TypeOK /\ \E n \in Nat : \E w \in [1 .. n -> Block] : State(t, n, w)

-----------------------------------------------------------------------------
(* Type correctness.                                                       *)

LEMMA NextType ==
  ASSUME NEW t \in Thread, Thread = {t}, IInv(t), Next
  PROVE  TypeOK'
<1>0. PICK n \in Nat : \E w \in [1 .. n -> Block] : State(t, n, w)
  BY DEF IInv
<1>1. PICK w \in [1 .. n -> Block] : State(t, n, w)
  BY <1>0
<1>2. /\ block_list_size = IF Leaving(t, n, w) \/ pc[t] = "remove_links" THEN n + 1 ELSE n
      /\ pc[t] # "idle" => block[t] \in live
      /\ pc[t] \in Removing => block[t] \notin attached
  BY <1>1 DEF State, Listing
<1> HIDE <1>1
<1>3. pc[t] = "remove_links" => block_list_size - 1 \in Nat
  <2>1. pc[t] = "remove_links" => block_list_size = n + 1
    BY Zenon, <1>2
  <2> QED BY <2>1
<1>4. TypeOK /\ t \in Thread
  BY DEF IInv
<1>5. pc[t] # "idle" => block[t] \in Block
  BY <1>2, <1>4 DEF TypeOK
<1>6. Block \subseteq Pointer /\ NULL \in Pointer
  BY DEF Pointer
<1> USE DEF TypeOK, GoTo, Begin, list
<1>7. ASSUME NEW b \in Block, Malloc(t, b) PROVE TypeOK'
  <2>1. PICK m \in Pointer, p \in Pointer :
          next' = [next EXCEPT ![b] = m] /\ prev' = [prev EXCEPT ![b] = p]
    BY <1>7 DEF Malloc
  <2> QED BY <1>4, <1>6, <1>7, <2>1 DEF Malloc
<1>8. ASSUME NEW b \in Block, Free(t, b) \/ Detach(t, b) \/ Realloc(t, b) PROVE TypeOK'
  BY <1>4, <1>6, <1>8 DEF Free, Detach, Realloc
<1>9. CASE AddNext(t) \/ AddPrev(t)
  BY <1>4, <1>5, <1>6, <1>9 DEF AddNext, AddPrev
<1>10. CASE AddBack(t)
  BY <1>4, <1>5, <1>6, <1>10 DEF AddBack
<1>11. CASE AddFirst(t)
  <2>1. block_list_size' \in Nat
    BY <1>4, <1>11 DEF AddFirst
  <2> QED BY <1>4, <1>5, <1>6, <1>11, <2>1 DEF AddFirst
<1>12. CASE RemoveFirst(t)
  BY <1>4, <1>5, <1>6, <1>12 DEF RemoveFirst
<1>13. CASE RemoveDetached(t) \/ RemoveInner(t)
  BY <1>4, <1>13 DEF RemoveDetached, RemoveInner
<1>14. CASE RemoveNext(t)
  BY <1>4, <1>5, <1>6, <1>14 DEF RemoveNext
<1>15. CASE RemovePrev(t)
  BY <1>4, <1>5, <1>6, <1>15 DEF RemovePrev
<1>16. CASE RemoveLinks(t)
  BY <1>3, <1>4, <1>5, <1>6, <1>16 DEF RemoveLinks
<1>17. CASE FinishFree(t) \/ FinishDetach(t)
  BY <1>2, <1>4, <1>5, <1>17 DEF FinishFree, FinishDetach, Removing
<1>18. ASSUME NEW b \in Block, FinishRealloc(t, b) PROVE TypeOK'
  BY <1>2, <1>4, <1>5, <1>6, <1>18 DEF FinishRealloc, Removing
<1> QED BY <1>7, <1>8, <1>9, <1>10, <1>11, <1>12, <1>13, <1>14, <1>15, <1>16, <1>17, <1>18
        DEF Next

-----------------------------------------------------------------------------
(* The steps that leave the walk as it is.                                 *)

\* The blocks of the walk, and of it only their number and order count.
LEMMA WalkFacts ==
  ASSUME NEW n \in Nat, NEW w \in [1 .. n -> Block]
  PROVE  /\ \A k \in 1 .. n : w[k] \in Members(n, w) /\ w[k] \in Block /\ w[k] # NULL
         /\ \A k \in Int : Nth(n, w, k) \in Members(n, w) \cup {NULL}
         /\ \A k \in 1 .. n : Nth(n, w, k) = w[k]
         /\ \A k \in Int : k \notin 1 .. n => Nth(n, w, k) = NULL
         /\ Members(n, w) \subseteq Block
BY BlockAssumption DEF Members, Nth

LEMMA MallocState ==
  ASSUME NEW t \in Thread, Thread = {t}, TypeOK,
         NEW n \in Nat, NEW w \in [1 .. n -> Block], State(t, n, w),
         NEW b \in Block, Malloc(t, b)
  PROVE  State(t, n, w)'
<1> DEFINE M == Members(n, w)
<1>1. /\ \A k \in 1 .. n : w[k] \in M /\ w[k] \in Block /\ w[k] # NULL
      /\ M \subseteq Block
  BY WalkFacts
<1>2. PICK m \in Pointer, p \in Pointer :
        next' = [next EXCEPT ![b] = m] /\ prev' = [prev EXCEPT ![b] = p]
  BY DEF Malloc
<1>3. /\ pc[t] = "idle" /\ pc'[t] = "add_next" /\ block'[t] = b
      /\ b \notin live /\ live' = live \cup {b} /\ attached' = attached \cup {b}
      /\ UNCHANGED <<blocks_first, block_list_size>>
  BY DEF Malloc, Begin, GoTo, TypeOK
<1>4. M = attached /\ attached \subseteq live /\ b \notin M
  BY <1>3 DEF State, Listing, TypeOK
<1>5. \A c \in Block : c # b => next'[c] = next[c] /\ prev'[c] = prev[c]
  BY <1>2 DEF TypeOK
<1>6. Walk(n, w)'
  BY <1>1, <1>3, <1>4, <1>5 DEF State, Walk
<1>7. Listing(t, n, w)'
  BY <1>3, <1>4 DEF State, Listing, Leaving, Adding, Removing
<1>8. OwnLinks(t, n, w)'
  BY <1>3 DEF OwnLinks, Leaving, Adding
<1>9. LinksBack(t, n, w)'
  BY <1>1, <1>3, <1>4, <1>5 DEF State, LinksBack, Leaving
<1>10. Outside(t, n, w)'
  BY <1>3, <1>4, <1>5 DEF State, Outside, Unlinked, TypeOK
<1> QED BY <1>6, <1>7, <1>8, <1>9, <1>10 DEF State

\* remove_block is called with a block that may be in the list or not.
LEMMA RemovalState ==
  ASSUME NEW t \in Thread, Thread = {t}, TypeOK,
         NEW n \in Nat, NEW w \in [1 .. n -> Block], State(t, n, w),
         NEW b \in Block, Free(t, b) \/ Detach(t, b) \/ Realloc(t, b)
  PROVE  State(t, n, w)'
<1> DEFINE M == Members(n, w)
<1>1. /\ pc[t] = "idle" /\ pc'[t] = "remove" /\ block'[t] = b
      /\ b \in live /\ live' = live /\ attached' = attached \ {b}
      /\ blocks_first' = blocks_first /\ block_list_size' = block_list_size
      /\ next' = next /\ prev' = prev
  BY DEF Free, Detach, Realloc, Begin, GoTo, TypeOK, list
<1>2. M = attached
  BY <1>1 DEF State, Listing
<1>3. b \notin M => Unlinked(b)
  BY <1>1 DEF State, Outside
<1>4. Walk(n, w)'
  BY <1>1 DEF State, Walk
<1>5. Listing(t, n, w)'
  BY <1>1, <1>2 DEF State, Listing, Leaving, Adding, Removing
<1>6. OwnLinks(t, n, w)'
  BY <1>1, <1>3 DEF OwnLinks, Leaving, Adding, Unlinked
<1>7. LinksBack(t, n, w)'
  BY <1>1 DEF State, LinksBack, Leaving
<1>8. Outside(t, n, w)'
  BY <1>1 DEF State, Outside, Unlinked
<1> QED BY <1>4, <1>5, <1>6, <1>7, <1>8 DEF State

LEMMA AddNextState ==
  ASSUME NEW t \in Thread, Thread = {t}, TypeOK,
         NEW n \in Nat, NEW w \in [1 .. n -> Block], State(t, n, w), AddNext(t)
  PROVE  State(t, n, w)'
<1> DEFINE M == Members(n, w)
           b == block[t]
<1>1. \A k \in 1 .. n : w[k] \in M /\ w[k] \in Block /\ w[k] # NULL
  BY WalkFacts
<1>2. /\ pc[t] = "add_next" /\ pc'[t] = "add_prev" /\ block'[t] = b
      /\ blocks_first' = blocks_first /\ block_list_size' = block_list_size
      /\ prev' = prev /\ live' = live /\ attached' = attached
  BY DEF AddNext, GoTo, TypeOK
<1>3. b \in attached /\ b \notin M /\ b \in live /\ b \in Block
  BY <1>2 DEF State, Listing, Adding, TypeOK
<1>4. next'[b] = blocks_first /\ \A c \in Block : c # b => next'[c] = next[c]
  BY <1>3 DEF AddNext, TypeOK
<1>5. Walk(n, w)'
  BY <1>1, <1>2, <1>3, <1>4 DEF State, Walk
<1>6. Listing(t, n, w)'
  BY <1>2 DEF State, Listing, Leaving, Adding, Removing
<1>7. OwnLinks(t, n, w)'
  BY <1>2, <1>4 DEF OwnLinks, Leaving, Adding
<1>8. LinksBack(t, n, w)'
  BY <1>1, <1>2 DEF State, LinksBack, Leaving
<1>9. Outside(t, n, w)'
  BY <1>2, <1>3, <1>4 DEF State, Outside, Unlinked, TypeOK
<1> QED BY <1>5, <1>6, <1>7, <1>8, <1>9 DEF State

LEMMA AddPrevState ==
  ASSUME NEW t \in Thread, Thread = {t}, TypeOK,
         NEW n \in Nat, NEW w \in [1 .. n -> Block], State(t, n, w), AddPrev(t)
  PROVE  State(t, n, w)'
<1> DEFINE M == Members(n, w)
           b == block[t]
<1>1. \A k \in 1 .. n : w[k] \in M /\ w[k] \in Block /\ w[k] # NULL
  BY WalkFacts
<1>2. /\ pc[t] = "add_prev" /\ pc'[t] = "add_back" /\ block'[t] = b
      /\ blocks_first' = blocks_first /\ block_list_size' = block_list_size
      /\ next' = next /\ live' = live /\ attached' = attached
  BY DEF AddPrev, GoTo, TypeOK
<1>3. b \in attached /\ b \notin M /\ b \in live /\ b \in Block /\ next[b] = blocks_first
  BY <1>2 DEF State, Listing, OwnLinks, Adding, TypeOK
<1>4. prev'[b] = NULL /\ \A c \in Block : c # b => prev'[c] = prev[c]
  BY <1>3 DEF AddPrev, TypeOK
<1>5. Walk(n, w)'
  BY <1>2 DEF State, Walk
<1>6. Listing(t, n, w)'
  BY <1>2 DEF State, Listing, Leaving, Adding, Removing
<1>7. OwnLinks(t, n, w)'
  BY <1>2, <1>3, <1>4 DEF OwnLinks, Leaving, Adding
<1>8. LinksBack(t, n, w)'
  BY <1>1, <1>2, <1>3, <1>4 DEF State, LinksBack, Leaving
<1>9. Outside(t, n, w)'
  BY <1>2, <1>3, <1>4 DEF State, Outside, Unlinked, TypeOK
<1> QED BY <1>5, <1>6, <1>7, <1>8, <1>9 DEF State

LEMMA AddBackState ==
  ASSUME NEW t \in Thread, Thread = {t}, TypeOK,
         NEW n \in Nat, NEW w \in [1 .. n -> Block], State(t, n, w), AddBack(t)
  PROVE  State(t, n, w)'
<1> DEFINE M == Members(n, w)
           b == block[t]
<1>1. /\ \A k \in 1 .. n : w[k] \in M /\ w[k] \in Block /\ w[k] # NULL
      /\ \A k \in 1 .. n : Nth(n, w, k) = w[k]
      /\ 1 \notin 1 .. n => Nth(n, w, 1) = NULL
  BY WalkFacts
<1>2. /\ pc[t] = "add_back" /\ pc'[t] = "add_first" /\ block'[t] = b
      /\ blocks_first' = blocks_first /\ block_list_size' = block_list_size
      /\ next' = next /\ live' = live /\ attached' = attached
  BY DEF AddBack, GoTo, TypeOK
<1>3. /\ b \in attached /\ b \notin M /\ b \in live /\ b \in Block
      /\ next[b] = blocks_first /\ prev[b] = NULL
  BY <1>2 DEF State, Listing, OwnLinks, Adding, TypeOK
<1>4. /\ blocks_first = NULL => n = 0 /\ prev' = prev
      /\ blocks_first # NULL => /\ n > 0 /\ blocks_first = w[1] /\ prev'[w[1]] = b
                                /\ \A c \in Block : c # w[1] => prev'[c] = prev[c]
  <2>1. blocks_first = Nth(n, w, 1)
    BY DEF State, Walk
  <2>2. n > 0 => blocks_first = w[1] /\ w[1] # NULL /\ w[1] \in Block
    BY <1>1, <2>1
  <2>3. n = 0 => blocks_first = NULL
    BY <1>1, <2>1
  <2> QED BY <2>2, <2>3 DEF AddBack, TypeOK
<1>5. \A j, k \in 1 .. n : w[j] = w[k] => j = k
  BY DEF State, Walk, Once
<1>6. Walk(n, w)'
  BY <1>2 DEF State, Walk
<1>7. Listing(t, n, w)'
  BY <1>2 DEF State, Listing, Leaving, Adding, Removing
<1>8. OwnLinks(t, n, w)'
  <2>1. prev'[b] = NULL
    BY <1>1, <1>3, <1>4
  <2> QED BY <1>2, <1>3, <2>1 DEF OwnLinks, Leaving, Adding
<1>9. ASSUME NEW k \in 1 .. n
      PROVE  \/ prev'[w[k]] = Nth(n, w, k - 1) /\ k # 1
             \/ k = 1 /\ prev'[w[k]] = b
  <2>1. n > 0 /\ blocks_first # NULL
    BY <1>1, <1>4 DEF State, Walk
  <2>2. prev[w[k]] = Nth(n, w, k - 1)
    BY <1>2 DEF State, LinksBack, Leaving
  <2> QED BY <1>1, <1>4, <1>5, <2>1, <2>2
<1>10. LinksBack(t, n, w)'
  BY <1>2, <1>9 DEF LinksBack
<1>11. Outside(t, n, w)'
  BY <1>1, <1>2, <1>4 DEF State, Outside, Unlinked, TypeOK
<1> QED BY <1>6, <1>7, <1>8, <1>10, <1>11 DEF State

LEMMA StartRemovalState ==
  ASSUME NEW t \in Thread, Thread = {t}, TypeOK,
         NEW n \in Nat, NEW w \in [1 .. n -> Block], State(t, n, w),
         RemoveDetached(t) \/ RemoveInner(t)
  PROVE  State(t, n, w)'
<1> DEFINE M == Members(n, w)
           b == block[t]
<1>1. /\ pc[t] = "remove" /\ block'[t] = b /\ b # blocks_first
      /\ \/ Unlinked(b) /\ pc'[t] = "removed"
         \/ ~Unlinked(b) /\ pc'[t] = "remove_next"
      /\ blocks_first' = blocks_first /\ block_list_size' = block_list_size
      /\ next' = next /\ prev' = prev /\ live' = live /\ attached' = attached
  BY DEF RemoveDetached, RemoveInner, GoTo, TypeOK, list
<1>2. \A k \in 1 .. n : prev[w[k]] = Nth(n, w, k - 1)
  BY <1>1 DEF State, LinksBack, Leaving
<1>3. Unlinked(b) => b \notin M
  <2> SUFFICES ASSUME Unlinked(b), NEW k \in 1 .. n, b = w[k] PROVE FALSE
    BY DEF Members
  <2>1. k # 1
    BY <1>1, WalkFacts DEF State, Walk
  <2>2. Nth(n, w, k - 1) = w[k - 1] /\ w[k - 1] # NULL
    BY <2>1, WalkFacts
  <2> QED BY <1>2, <2>2 DEF Unlinked
<1>4. ~Unlinked(b) => b \in M
  BY <1>1 DEF State, OwnLinks
<1>5. Walk(n, w)'
  BY <1>1 DEF State, Walk
<1>6. Listing(t, n, w)'
  BY <1>1, <1>3, <1>4 DEF State, Listing, Leaving, Adding, Removing
<1>7. OwnLinks(t, n, w)'
  BY <1>1, <1>4 DEF OwnLinks, Leaving, Adding, Unlinked
<1>8. LinksBack(t, n, w)'
  BY <1>1, <1>2 DEF State, LinksBack, Leaving
<1>9. Outside(t, n, w)'
  BY <1>1 DEF State, Outside, Unlinked
<1> QED BY <1>5, <1>6, <1>7, <1>8, <1>9 DEF State

\* The block was the first: there is no link to it any more.
LEMMA RemoveNextOfFirst ==
  ASSUME NEW t \in Thread, Thread = {t}, TypeOK,
         NEW n \in Nat, NEW w \in [1 .. n -> Block], State(t, n, w), RemoveNext(t),
         block[t] \notin Members(n, w)
  PROVE  State(t, n, w)'
<1> DEFINE M == Members(n, w)
           b == block[t]
<1>1. /\ pc[t] = "remove_next" /\ pc'[t] = "remove_prev" /\ block'[t] = b
      /\ blocks_first' = blocks_first /\ block_list_size' = block_list_size
      /\ prev' = prev /\ live' = live /\ attached' = attached
  BY DEF RemoveNext, GoTo, TypeOK
<1>2. PICK k \in 1 .. n + 1 : /\ next[b] = Nth(n, w, k) /\ prev[b] = Nth(n, w, k - 1)
                              /\ k = 1
  BY <1>1 DEF State, OwnLinks, Leaving
<1>3. prev[b] = NULL
  BY <1>2, WalkFacts
<1>4. next' = next
  BY <1>3 DEF RemoveNext
<1>5. Walk(n, w)'
  BY <1>1, <1>4 DEF State, Walk
<1>6. Listing(t, n, w)'
  BY <1>1 DEF State, Listing, Leaving, Adding, Removing
<1>7. OwnLinks(t, n, w)'
  BY <1>1, <1>2, <1>4 DEF OwnLinks, Leaving, Adding
<1>8. LinksBack(t, n, w)'
  BY <1>1, <1>4 DEF State, LinksBack, Leaving
<1>9. Outside(t, n, w)'
  BY <1>1, <1>4 DEF State, Outside, Unlinked
<1> QED BY <1>5, <1>6, <1>7, <1>8, <1>9 DEF State

LEMMA RemovePrevState ==
  ASSUME NEW t \in Thread, Thread = {t}, TypeOK,
         NEW n \in Nat, NEW w \in [1 .. n -> Block], State(t, n, w), RemovePrev(t)
  PROVE  State(t, n, w)'
<1> DEFINE M == Members(n, w)
           b == block[t]
<1>1. /\ pc[t] = "remove_prev" /\ pc'[t] = "remove_links" /\ block'[t] = b
      /\ blocks_first' = blocks_first /\ block_list_size' = block_list_size
      /\ next' = next /\ live' = live /\ attached' = attached
  BY DEF RemovePrev, GoTo, TypeOK
<1>2. b \notin M /\ b \in live /\ b \in Block /\ b \notin attached
  BY <1>1 DEF State, Listing, Removing, TypeOK
<1>3. PICK k \in 1 .. n + 1 : next[b] = Nth(n, w, k) /\ prev[b] = Nth(n, w, k - 1)
  BY <1>1, <1>2 DEF State, OwnLinks, Leaving
<1>4. /\ k = n + 1 => next[b] = NULL /\ prev' = prev
      /\ k # n + 1 => /\ k \in 1 .. n /\ next[b] = w[k] /\ w[k] \in M /\ w[k] \in Block
                      /\ prev'[w[k]] = Nth(n, w, k - 1)
                      /\ \A c \in Block : c # w[k] => prev'[c] = prev[c]
  <2>1. CASE k = n + 1
    BY <1>3, <2>1, WalkFacts DEF RemovePrev
  <2>2. CASE k # n + 1
    <3>1. k \in 1 .. n
      BY <2>2
    <3>2. next[b] = w[k] /\ w[k] \in M /\ w[k] \in Block /\ w[k] # NULL
      BY <1>3, <3>1, WalkFacts
    <3>3. prev' = [prev EXCEPT ![w[k]] = Nth(n, w, k - 1)]
      BY <1>3, <3>2 DEF RemovePrev
    <3> QED BY <2>2, <3>1, <3>2, <3>3 DEF TypeOK
  <2> QED BY <2>1, <2>2
<1>5. \A j, m \in 1 .. n : w[j] = w[m] => j = m
  BY DEF State, Walk, Once
<1>6. ASSUME NEW j \in 1 .. n PROVE prev'[w[j]] = Nth(n, w, j - 1)
  <2>1. w[j] \in Block /\ w[j] # NULL
    BY WalkFacts
  <2>2. prev[w[j]] = Nth(n, w, j - 1) \/ next[b] = w[j]
    BY <1>1 DEF State, LinksBack
  <2> QED BY <1>4, <1>5, <2>1, <2>2
<1>7. Walk(n, w)'
  BY <1>1 DEF State, Walk
<1>8. Listing(t, n, w)'
  BY <1>1, <1>2 DEF State, Listing, Leaving, Adding, Removing
<1>9. OwnLinks(t, n, w)'
  BY <1>1 DEF OwnLinks, Leaving, Adding
<1>10. LinksBack(t, n, w)'
  BY <1>1, <1>6 DEF LinksBack
<1>11. Outside(t, n, w)'
  BY <1>1, <1>4 DEF State, Outside, Unlinked, TypeOK
<1> QED BY <1>7, <1>8, <1>9, <1>10, <1>11 DEF State

LEMMA RemoveLinksState ==
  ASSUME NEW t \in Thread, Thread = {t}, TypeOK,
         NEW n \in Nat, NEW w \in [1 .. n -> Block], State(t, n, w), RemoveLinks(t)
  PROVE  State(t, n, w)'
<1> DEFINE M == Members(n, w)
           b == block[t]
<1>1. \A k \in 1 .. n : w[k] \in M /\ w[k] \in Block /\ w[k] # NULL
  BY WalkFacts
<1>2. /\ pc[t] = "remove_links" /\ pc'[t] = "removed" /\ block'[t] = b
      /\ blocks_first' = blocks_first
      /\ live' = live /\ attached' = attached
  BY DEF RemoveLinks, GoTo, TypeOK
<1>3. b \notin M /\ b \in live /\ b \in Block /\ b \notin attached
  BY <1>2 DEF State, Listing, Removing, TypeOK
<1>4. block_list_size' = n
  <2>1. block_list_size = n + 1
    BY <1>2 DEF State, Listing
  <2> QED BY <2>1 DEF RemoveLinks
<1>5. /\ next'[b] = NULL /\ prev'[b] = NULL
      /\ \A c \in Block : c # b => next'[c] = next[c] /\ prev'[c] = prev[c]
  BY <1>3 DEF RemoveLinks, TypeOK
<1>6. Walk(n, w)'
  BY <1>1, <1>2, <1>3, <1>5 DEF State, Walk
<1>7. Listing(t, n, w)'
  BY <1>2, <1>4 DEF State, Listing, Leaving, Adding, Removing
<1>8. OwnLinks(t, n, w)'
  BY <1>2, <1>5 DEF OwnLinks, Leaving, Adding, Unlinked
<1>9. LinksBack(t, n, w)'
  BY <1>1, <1>2, <1>3, <1>5 DEF State, LinksBack, Leaving
<1>10. Outside(t, n, w)'
  BY <1>2, <1>5 DEF State, Outside, Unlinked, TypeOK
<1> QED BY <1>6, <1>7, <1>8, <1>9, <1>10 DEF State

LEMMA FinishState ==
  ASSUME NEW t \in Thread, Thread = {t}, TypeOK,
         NEW n \in Nat, NEW w \in [1 .. n -> Block], State(t, n, w),
         FinishFree(t) \/ FinishDetach(t)
  PROVE  State(t, n, w)'
<1> DEFINE M == Members(n, w)
           b == block[t]
<1>1. /\ pc[t] = "removed" /\ pc'[t] = "idle" /\ block'[t] = b
      /\ blocks_first' = blocks_first /\ block_list_size' = block_list_size
      /\ next' = next /\ prev' = prev
      /\ live \ {b} \subseteq live' /\ live' \subseteq live /\ attached' = attached
  BY DEF FinishFree, FinishDetach, GoTo, TypeOK, list
<1>2. /\ b \notin M /\ b \notin attached /\ Unlinked(b)
      /\ M \ {b} = attached \ {b} /\ block_list_size = n
  BY <1>1 DEF State, Listing, OwnLinks, Removing, Leaving
<1>3. Walk(n, w)'
  BY <1>1 DEF State, Walk
<1>4. Listing(t, n, w)'
  <2>1. M = M \ {b} /\ attached = attached \ {b}
    BY <1>2
  <2>2. M = attached
    BY <1>2, <2>1
  <2> QED BY <1>1, <1>2, <2>2 DEF Listing, Leaving, Adding, Removing
<1>5. OwnLinks(t, n, w)'
  BY <1>1 DEF OwnLinks, Leaving, Adding
<1>6. LinksBack(t, n, w)'
  BY <1>1 DEF State, LinksBack, Leaving
<1>7. Outside(t, n, w)'
  BY <1>1, <1>2 DEF State, Outside, Unlinked
<1> QED BY <1>3, <1>4, <1>5, <1>6, <1>7 DEF State

LEMMA FinishReallocState ==
  ASSUME NEW t \in Thread, Thread = {t}, TypeOK,
         NEW n \in Nat, NEW w \in [1 .. n -> Block], State(t, n, w),
         NEW c \in Block, FinishRealloc(t, c)
  PROVE  State(t, n, w)'
<1> DEFINE M == Members(n, w)
           b == block[t]
<1>1. \A k \in 1 .. n : w[k] \in M /\ w[k] \in Block /\ w[k] # NULL
  BY WalkFacts
<1>2. /\ pc[t] = "removed" /\ pc'[t] = "add_next" /\ block'[t] = c
      /\ c \notin live \/ c = b
      /\ blocks_first' = blocks_first /\ block_list_size' = block_list_size
      /\ live' = (live \ {b}) \cup {c} /\ attached' = attached \cup {c}
  BY DEF FinishRealloc, GoTo, TypeOK
<1>3. b \notin M /\ b \notin attached /\ b \in live /\ M \ {b} = attached \ {b}
  BY <1>2 DEF State, Listing, Removing
<1>4. c \notin M /\ M = attached
  <2>1. M = M \ {b} /\ attached = attached \ {b}
    BY <1>3
  <2>2. M = attached
    BY <1>3, <2>1
  <2> QED BY <1>2, <1>3, <2>2 DEF TypeOK
<1>5. \A d \in Block : d # c => next'[d] = next[d] /\ prev'[d] = prev[d]
  BY DEF FinishRealloc, TypeOK
<1>6. Walk(n, w)'
  BY <1>1, <1>2, <1>4, <1>5 DEF State, Walk
<1>7. Listing(t, n, w)'
  BY <1>2, <1>4 DEF State, Listing, Leaving, Adding, Removing
<1>8. OwnLinks(t, n, w)'
  BY <1>2 DEF OwnLinks, Leaving, Adding
<1>9. LinksBack(t, n, w)'
  BY <1>1, <1>2, <1>4, <1>5 DEF State, LinksBack, Leaving
<1>10. Outside(t, n, w)'
  BY <1>2, <1>5 DEF State, Outside, Unlinked, TypeOK
<1> QED BY <1>6, <1>7, <1>8, <1>9, <1>10 DEF State

-----------------------------------------------------------------------------
(* The steps that change the walk.                                         *)

\* The walk without its block number j, and with one more before its first.
Without(n, w, j) == [k \in 1 .. n - 1 |-> IF k < j THEN w[k] ELSE w[k + 1]]
With(n, w, b) == [k \in 1 .. n + 1 |-> IF k = 1 THEN b ELSE w[k - 1]]

\* v is what is left of w.
Rest(n, w, j, v) ==
  /\ n - 1 \in Nat /\ v \in [1 .. n - 1 -> Block]
  /\ Once(n - 1, v)
  /\ \A k \in 1 .. n - 1 : v[k] = IF k < j THEN w[k] ELSE w[k + 1]
  /\ \A k \in Nat :
       Nth(n - 1, v, k) = IF k < j THEN Nth(n, w, k) ELSE Nth(n, w, k + 1)
  /\ Members(n - 1, v) = Members(n, w) \ {w[j]}

LEMMA WithoutMembers ==
  ASSUME NEW n \in Nat, NEW w \in [1 .. n -> Block], NEW j \in 1 .. n,
         Once(n, w), NEW v, v = Without(n, w, j)
  PROVE  Members(n - 1, v) = Members(n, w) \ {w[j]}
<1> USE DEF Once
<1>1. ASSUME NEW k \in 1 .. n - 1 PROVE v[k] = IF k < j THEN w[k] ELSE w[k + 1]
  BY DEF Without
<1>2. ASSUME NEW k \in 1 .. n - 1 PROVE v[k] \in Members(n, w) \ {w[j]}
  <2>1. CASE k < j
    BY <1>1, <2>1 DEF Members
  <2>2. CASE ~(k < j)
    <3>1. k + 1 \in 1 .. n /\ k + 1 # j /\ v[k] = w[k + 1]
      BY <1>1, <2>2
    <3> QED BY <3>1 DEF Members
  <2> QED BY <2>1, <2>2
<1>3. ASSUME NEW k \in 1 .. n, k # j PROVE w[k] \in Members(n - 1, v)
  <2>1. CASE k < j
    <3>1. k \in 1 .. n - 1 /\ v[k] = w[k]
      BY <1>1, <2>1
    <3> QED BY <3>1 DEF Members
  <2>2. CASE ~(k < j)
    <3>1. k - 1 \in 1 .. n - 1 /\ ~(k - 1 < j) /\ (k - 1) + 1 = k
      BY <1>3, <2>2
    <3>2. v[k - 1] = w[k]
      BY <1>1, <3>1
    <3> QED BY <3>1, <3>2 DEF Members
  <2> QED BY <2>1, <2>2
<1> QED BY <1>2, <1>3 DEF Members

LEMMA WithoutFacts ==
  ASSUME NEW n \in Nat, NEW w \in [1 .. n -> Block], NEW j \in 1 .. n,
         Once(n, w), NEW v, v = Without(n, w, j)
  PROVE  Rest(n, w, j, v)
<1> USE DEF Once
<1>1. n - 1 \in Nat
  OBVIOUS
<1>2. ASSUME NEW k \in 1 .. n - 1
      PROVE  /\ v[k] = IF k < j THEN w[k] ELSE w[k + 1]
             /\ v[k] \in Block
  BY DEF Without
<1>3. v \in [1 .. n - 1 -> Block]
  BY DEF Without
<1>4. ASSUME NEW i \in 1 .. n - 1, NEW k \in 1 .. n - 1, v[i] = v[k] PROVE i = k
  <2>1. v[i] = IF i < j THEN w[i] ELSE w[i + 1]
    BY <1>2
  <2>2. v[k] = IF k < j THEN w[k] ELSE w[k + 1]
    BY <1>2
  <2>3. i \in 1 .. n /\ i + 1 \in 1 .. n /\ k \in 1 .. n /\ k + 1 \in 1 .. n
    OBVIOUS
  <2>4. CASE i < j /\ k < j
    BY <1>4, <2>1, <2>2, <2>3, <2>4
  <2>5. CASE i < j /\ ~(k < j)
    <3>1. w[i] = w[k + 1]
      BY <1>4, <2>1, <2>2, <2>5
    <3> QED BY <2>3, <2>5, <3>1
  <2>6. CASE ~(i < j) /\ k < j
    <3>1. w[i + 1] = w[k]
      BY <1>4, <2>1, <2>2, <2>6
    <3> QED BY <2>3, <2>6, <3>1
  <2>7. CASE ~(i < j) /\ ~(k < j)
    <3>1. w[i + 1] = w[k + 1]
      BY <1>4, <2>1, <2>2, <2>7
    <3> QED BY <2>3, <3>1
  <2> QED BY <2>4, <2>5, <2>6, <2>7
<1>5. ASSUME NEW k \in Nat
      PROVE  Nth(n - 1, v, k) = IF k < j THEN Nth(n, w, k) ELSE Nth(n, w, k + 1)
  BY <1>2 DEF Nth
<1>6. \A k \in 1 .. n - 1 : v[k] = IF k < j THEN w[k] ELSE w[k + 1]
  BY <1>2
<1>7. Once(n - 1, v)
  BY <1>4
<1>8. Members(n - 1, v) = Members(n, w) \ {w[j]}
  BY WithoutMembers
<1> HIDE DEF Once
<1> QED BY <1>1, <1>3, <1>5, <1>6, <1>7, <1>8 DEF Rest

LEMMA WithFacts ==
  ASSUME NEW n \in Nat, NEW w \in [1 .. n -> Block], NEW b \in Block, b \notin Members(n, w),
         Once(n, w), NEW v, v = With(n, w, b)
  PROVE  /\ v \in [1 .. n + 1 -> Block]
         /\ Once(n + 1, v)
         /\ v[1] = b /\ \A k \in 2 .. n + 1 : v[k] = w[k - 1]
         /\ \A k \in Int :
              Nth(n + 1, v, k) = IF k = 1 THEN b ELSE Nth(n, w, k - 1)
         /\ Members(n + 1, v) = Members(n, w) \cup {b}
<1> USE DEF Once
<1>1. v[1] = b /\ \A k \in 2 .. n + 1 : v[k] = w[k - 1]
  BY DEF With
<1>2. v \in [1 .. n + 1 -> Block]
  BY DEF With
<1>3. \A k \in 1 .. n : w[k] # b
  BY DEF Members
<1>4. ASSUME NEW i \in 1 .. n + 1, NEW k \in 1 .. n + 1, v[i] = v[k] PROVE i = k
  <2>1. i = 1 \/ (i - 1 \in 1 .. n /\ v[i] = w[i - 1])
    BY <1>1
  <2>2. k = 1 \/ (k - 1 \in 1 .. n /\ v[k] = w[k - 1])
    BY <1>1
  <2> QED BY <1>1, <1>3, <1>4, <2>1, <2>2
<1>5. ASSUME NEW k \in Int
      PROVE  Nth(n + 1, v, k) = IF k = 1 THEN b ELSE Nth(n, w, k - 1)
  BY <1>1 DEF Nth
<1>6. ASSUME NEW k \in 1 .. n + 1 PROVE v[k] \in Members(n, w) \cup {b}
  <2>1. CASE k = 1
    BY <1>1, <2>1
  <2>2. CASE k # 1
    <3>1. k - 1 \in 1 .. n /\ v[k] = w[k - 1]
      BY <1>1, <2>2
    <3> QED BY <3>1 DEF Members
  <2> QED BY <2>1, <2>2
<1>7. ASSUME NEW k \in 1 .. n PROVE w[k] \in Members(n + 1, v)
  <2>1. k + 1 \in 1 .. n + 1 /\ v[k + 1] = w[k]
    BY <1>1
  <2> QED BY <2>1 DEF Members
<1>8. b \in Members(n + 1, v)
  BY <1>1 DEF Members
<1>9. Members(n + 1, v) = Members(n, w) \cup {b}
  BY <1>6, <1>7, <1>8 DEF Members
<1> QED BY <1>1, <1>2, <1>4, <1>5, <1>9

LEMMA AddFirstState ==
  ASSUME NEW t \in Thread, Thread = {t}, TypeOK,
         NEW n \in Nat, NEW w \in [1 .. n -> Block], State(t, n, w), AddFirst(t),
         NEW b, b = block[t]
  PROVE  State(t, n + 1, With(n, w, b))'
<1> DEFINE M == Members(n, w)
           v == With(n, w, b)
<1>1. /\ pc[t] = "add_first" /\ pc'[t] = "idle" /\ block'[t] = b
      /\ blocks_first' = b /\ block_list_size' = block_list_size + 1
      /\ next' = next /\ prev' = prev /\ live' = live /\ attached' = attached
  BY DEF AddFirst, GoTo, TypeOK
<1>2. /\ b \in attached /\ b \notin M /\ b \in live /\ b \in Block
      /\ M \ {b} = attached \ {b} /\ block_list_size = n
      /\ next[b] = blocks_first /\ prev[b] = NULL
  BY <1>1 DEF State, Listing, OwnLinks, Adding, Leaving, TypeOK
<1>3. /\ Once(n, w)
      /\ blocks_first = Nth(n, w, 1)
      /\ \A k \in 1 .. n : next[w[k]] = Nth(n, w, k + 1)
  BY DEF State, Walk
<1>4. /\ v \in [1 .. n + 1 -> Block]
      /\ Once(n + 1, v)
      /\ v[1] = b /\ \A k \in 2 .. n + 1 : v[k] = w[k - 1]
      /\ \A k \in Int : Nth(n + 1, v, k) = IF k = 1 THEN b ELSE Nth(n, w, k - 1)
      /\ Members(n + 1, v) = M \cup {b}
  BY <1>2, <1>3, WithFacts
<1>5. Members(n + 1, v) = attached
  <2>1. Members(n + 1, v) = (M \ {b}) \cup {b} /\ attached = (attached \ {b}) \cup {b}
    BY <1>2, <1>4
  <2> QED BY <1>2, <2>1
<1>6. ASSUME NEW k \in 1 .. n + 1
      PROVE  next[v[k]] = Nth(n + 1, v, k + 1) /\ prev[v[k]] = Nth(n + 1, v, k - 1)
  <2>1. CASE k = 1
    <3>1. next[v[k]] = Nth(n, w, 1) /\ Nth(n + 1, v, k + 1) = Nth(n, w, 1)
      BY <1>2, <1>3, <1>4, <2>1
    <3>2. prev[v[k]] = NULL /\ Nth(n + 1, v, 0) = NULL
      BY <1>2, <1>4, <2>1 DEF Nth
    <3> QED BY <2>1, <3>1, <3>2
  <2>2. CASE k # 1
    <3> DEFINE m == k - 1
    <3>1. m \in 1 .. n /\ v[k] = w[m] /\ k = m + 1
      BY <1>4, <2>2
    <3>2. next[w[m]] = Nth(n, w, m + 1) /\ Nth(n + 1, v, k + 1) = Nth(n, w, m + 1)
      BY <1>3, <1>4, <3>1
    <3>3. prev[w[m]] = IF m = 1 THEN b ELSE Nth(n, w, m - 1)
      BY <1>1, <3>1 DEF State, LinksBack, Leaving
    <3>4. Nth(n + 1, v, k - 1) = IF m = 1 THEN b ELSE Nth(n, w, m - 1)
      <4>1. m \in Int /\ k - 1 = m
        BY <3>1
      <4> HIDE DEF m
      <4>2. Nth(n + 1, v, m) = IF m = 1 THEN b ELSE Nth(n, w, m - 1)
        BY <1>4, <4>1
      <4> QED BY <4>1, <4>2
    <3> QED BY <3>1, <3>2, <3>3, <3>4
  <2> QED BY <2>1, <2>2
<1>7. Nth(n + 1, v, 1) = b
  BY <1>4
<1>8. \A c \in live \ attached : Unlinked(c)
  BY <1>1, <1>2, <1>4, <1>5 DEF State, Outside
<1> HIDE DEF v
<1>9. State(t, n + 1, v)'
  <2>1. Walk(n + 1, v)'
    BY <1>1, <1>4, <1>6, <1>7 DEF Walk
  <2>2. Listing(t, n + 1, v)'
    BY <1>1, <1>2, <1>5 DEF Listing, Leaving, Adding, Removing
  <2>3. OwnLinks(t, n + 1, v)'
    BY <1>1 DEF OwnLinks, Leaving, Adding
  <2>4. LinksBack(t, n + 1, v)'
    BY <1>1, <1>6 DEF LinksBack
  <2>5. Outside(t, n + 1, v)'
    BY <1>1, <1>5, <1>8 DEF Outside, Unlinked
  <2> QED BY <2>1, <2>2, <2>3, <2>4, <2>5 DEF State
<1> QED BY <1>9 DEF v

\* The first block leaves the walk before its neighbour's link back is changed.
LEMMA RemoveFirstState ==
  ASSUME NEW t \in Thread, Thread = {t}, TypeOK,
         NEW n \in Nat, NEW w \in [1 .. n -> Block], State(t, n, w), RemoveFirst(t)
  PROVE  n \in Nat \ {0} /\ State(t, n - 1, Without(n, w, 1))'
<1> DEFINE M == Members(n, w)
           b == block[t]
           v == Without(n, w, 1)
<1>1. /\ pc[t] = "remove" /\ pc'[t] = "remove_next" /\ block'[t] = b
      /\ b = blocks_first /\ blocks_first' = next[b] /\ block_list_size' = block_list_size
      /\ next' = next /\ prev' = prev /\ live' = live /\ attached' = attached
  BY DEF RemoveFirst, GoTo, TypeOK
<1>2. /\ b \notin attached /\ b \in live /\ b \in Block
      /\ M \ {b} = attached \ {b} /\ block_list_size = n
  BY <1>1 DEF State, Listing, Removing, Leaving, TypeOK
<1>3. /\ Once(n, w)
      /\ blocks_first = Nth(n, w, 1)
      /\ \A k \in 1 .. n : next[w[k]] = Nth(n, w, k + 1)
      /\ \A k \in 1 .. n : prev[w[k]] = Nth(n, w, k - 1)
  BY <1>1 DEF State, Walk, LinksBack, Leaving
<1>4. n \in Nat \ {0} /\ 1 \in 1 .. n /\ b = w[1]
  BY <1>1, <1>2, <1>3, BlockAssumption DEF Nth
<1>5. /\ n - 1 \in Nat /\ v \in [1 .. n - 1 -> Block]
      /\ Once(n - 1, v)
      /\ \A k \in 1 .. n - 1 : v[k] = w[k + 1]
      /\ \A k \in Nat : k >= 1 => Nth(n - 1, v, k) = Nth(n, w, k + 1)
      /\ Members(n - 1, v) = M \ {b}
  <2>1. PICK j \in 1 .. n : j = 1
    BY <1>4
  <2>2. Rest(n, w, j, v)
    BY <1>4, <1>3, <2>1, WithoutFacts
  <2> HIDE DEF v
  <2> QED BY <1>4, <2>1, <2>2 DEF Rest
<1>6. Nth(n - 1, v, 0) = NULL /\ Nth(n, w, 0) = NULL
  BY DEF Nth
<1>7. next[b] = Nth(n - 1, v, 1) /\ prev[b] = Nth(n - 1, v, 0)
  BY <1>3, <1>4, <1>5, <1>6
<1>8. ASSUME NEW k \in 1 .. n - 1
      PROVE  /\ next[v[k]] = Nth(n - 1, v, k + 1)
             /\ prev[v[k]] = Nth(n - 1, v, k - 1) \/ next[b] = v[k]
  <2>1. k + 1 \in 1 .. n /\ v[k] = w[k + 1]
    BY <1>5
  <2>2. next[v[k]] = Nth(n, w, (k + 1) + 1) /\ prev[v[k]] = Nth(n, w, (k + 1) - 1)
    BY <1>3, <2>1
  <2>3. Nth(n - 1, v, k + 1) = Nth(n, w, (k + 1) + 1)
    BY <1>5
  <2>4. CASE k = 1
    BY <1>3, <1>4, <2>1, <2>2, <2>3, <2>4, WalkFacts
  <2>5. CASE k # 1
    <3>1. Nth(n - 1, v, k - 1) = Nth(n, w, (k - 1) + 1)
      BY <1>5, <2>5
    <3> QED BY <2>2, <2>3, <3>1
  <2> QED BY <2>4, <2>5
<1>9. b # Nth(n - 1, v, 1)
  <2>1. Nth(n - 1, v, 1) = Nth(n, w, 2)
    BY <1>5
  <2>2. CASE 2 \in 1 .. n
    <3>1. w[2] # w[1]
      BY <1>3, <1>4, <2>2 DEF Once
    <3> QED BY <1>4, <2>1, <2>2, <3>1 DEF Nth
  <2>3. CASE 2 \notin 1 .. n
    BY <1>2, <2>1, <2>3, BlockAssumption DEF Nth
  <2> QED BY <2>2, <2>3
<1>10. b \notin Members(n - 1, v) /\ Members(n - 1, v) \ {b} = attached \ {b}
  BY <1>2, <1>5
<1>11. \A c \in live \ Members(n - 1, v) : c # b => Unlinked(c)
  BY <1>1, <1>5 DEF State, Outside
<1>12. block_list_size = (n - 1) + 1
  BY <1>2
<1> HIDE DEF v
<1>13. State(t, n - 1, v)'
  <2>1. Walk(n - 1, v)'
    BY <1>1, <1>5, <1>7, <1>8 DEF Walk
  <2>2. Listing(t, n - 1, v)'
    BY <1>1, <1>2, <1>10, <1>12 DEF Listing, Leaving, Adding, Removing
  <2>3. OwnLinks(t, n - 1, v)'
    <3>1. 1 \in 1 .. (n - 1) + 1 /\ 1 - 1 = 0
      BY <1>5
    <3> QED BY <1>1, <1>7, <1>9, <3>1 DEF OwnLinks, Leaving, Adding
  <2>4. LinksBack(t, n - 1, v)'
    BY <1>1, <1>8, <1>10 DEF LinksBack, Leaving
  <2>5. Outside(t, n - 1, v)'
    BY <1>1, <1>11 DEF Outside, Unlinked
  <2> QED BY <2>1, <2>2, <2>3, <2>4, <2>5 DEF State
<1> QED BY <1>4, <1>13 DEF v

\* Any other block leaves the walk when the block before it points past it.
LEMMA RemoveNextState ==
  ASSUME NEW t \in Thread, Thread = {t}, TypeOK,
         NEW n \in Nat, NEW w \in [1 .. n -> Block], State(t, n, w), RemoveNext(t),
         NEW j \in 1 .. n, w[j] = block[t]
  PROVE  State(t, n - 1, Without(n, w, j))'
<1> DEFINE M == Members(n, w)
           b == block[t]
<1>1. /\ pc[t] = "remove_next" /\ pc'[t] = "remove_prev" /\ block'[t] = b
      /\ blocks_first' = blocks_first /\ block_list_size' = block_list_size
      /\ prev' = prev /\ live' = live /\ attached' = attached
  BY DEF RemoveNext, GoTo, TypeOK
<1>2. b \in M
  BY DEF Members
<1>3. /\ b \notin attached /\ b \in live /\ b \in Block /\ b # blocks_first
      /\ M \ {b} = attached \ {b} /\ block_list_size = n
  BY <1>1, <1>2 DEF State, Listing, OwnLinks, Removing, Leaving, TypeOK
<1>4. /\ Once(n, w)
      /\ blocks_first = Nth(n, w, 1)
      /\ \A k \in 1 .. n : next[w[k]] = Nth(n, w, k + 1)
      /\ \A k \in 1 .. n : prev[w[k]] = Nth(n, w, k - 1)
  BY <1>1, <1>2 DEF State, Walk, LinksBack, Leaving
<1>5. j # 1
  BY <1>3, <1>4, WalkFacts
<1>6. /\ j - 1 \in 1 .. n /\ prev[b] = w[j - 1] /\ w[j - 1] \in Block /\ w[j - 1] # NULL
      /\ next[b] = Nth(n, w, j + 1)
  <2>1. j - 1 \in 1 .. n
    BY <1>5
  <2> QED BY <1>4, <2>1, WalkFacts
<1>7. next' = [next EXCEPT ![w[j - 1]] = Nth(n, w, j + 1)]
  BY <1>6 DEF RemoveNext
<1>8. ASSUME NEW k \in 1 .. n
      PROVE  next'[w[k]] = IF k = j - 1 THEN Nth(n, w, j + 1) ELSE Nth(n, w, k + 1)
  <2>1. w[k] = w[j - 1] => k = j - 1
    BY <1>4, <1>6 DEF Once
  <2>2. next \in [Block -> Pointer] /\ w[k] \in Block
    BY DEF TypeOK
  <2>3. next'[w[k]] = IF w[k] = w[j - 1] THEN Nth(n, w, j + 1) ELSE next[w[k]]
    BY <1>7, <2>2
  <2> QED BY <1>4, <2>1, <2>3
<1>9. \A c \in Block : c # w[j - 1] => next'[c] = next[c]
  BY <1>7 DEF TypeOK
<1>10. next'[b] = next[b]
  <2>1. w[j] # w[j - 1]
    BY <1>4, <1>6 DEF Once
  <2> QED BY <1>3, <1>9, <2>1
<1> SUFFICES ASSUME NEW v, v = Without(n, w, j) PROVE State(t, n - 1, v)'
  OBVIOUS
<1>11. Rest(n, w, j, v)
  BY <1>4, WithoutFacts
<1>12. n - 1 \in Nat /\ v \in [1 .. n - 1 -> Block] /\ Once(n - 1, v)
  BY <1>11 DEF Rest
<1>13. \A k \in 1 .. n - 1 : v[k] = IF k < j THEN w[k] ELSE w[k + 1]
  BY <1>11 DEF Rest
<1>14. \A k \in Nat :
         Nth(n - 1, v, k) = IF k < j THEN Nth(n, w, k) ELSE Nth(n, w, k + 1)
  BY <1>11 DEF Rest
<1>15. Members(n - 1, v) = M \ {b}
  BY <1>11 DEF Rest
<1>16. ASSUME NEW k \in 1 .. n - 1
       PROVE  /\ next'[v[k]] = Nth(n - 1, v, k + 1)
              /\ prev[v[k]] = Nth(n - 1, v, k - 1) \/ next[b] = v[k]
  <2>1. /\ k \in 1 .. n /\ k + 1 \in 1 .. n /\ k + 1 \in Nat /\ k - 1 \in Nat
        /\ (k + 1) - 1 = k /\ (k - 1) + 1 = k
    OBVIOUS
  <2>2. CASE k < j
    <3>1. v[k] = w[k]
      BY <1>13, <2>2
    <3>2. Nth(n - 1, v, k + 1) = IF k = j - 1 THEN Nth(n, w, j + 1) ELSE Nth(n, w, k + 1)
      <4>1. CASE k = j - 1
        <5>1. k + 1 = j /\ ~(k + 1 < j)
          BY <4>1
        <5>2. Nth(n - 1, v, k + 1) = Nth(n, w, (k + 1) + 1)
          BY <1>14, <2>1, <5>1
        <5> QED BY <4>1, <5>1, <5>2
      <4>2. CASE k # j - 1
        <5>1. k + 1 < j
          BY <2>2, <4>2
        <5> QED BY <1>14, <2>1, <4>2, <5>1
      <4> QED BY <4>1, <4>2
    <3>3. Nth(n - 1, v, k - 1) = Nth(n, w, k - 1)
      BY <1>14, <2>1, <2>2
    <3> QED BY <1>4, <1>8, <2>1, <3>1, <3>2, <3>3
  <2>3. CASE ~(k < j)
    <3>1. v[k] = w[k + 1]
      BY <1>13, <2>3
    <3>2. Nth(n - 1, v, k + 1) = Nth(n, w, (k + 1) + 1)
      <4>1. ~(k + 1 < j)
        BY <2>3
      <4> QED BY <1>14, <2>1, <4>1
    <3>3. next'[v[k]] = Nth(n, w, (k + 1) + 1)
      <4>1. k + 1 # j - 1
        BY <2>3
      <4> QED BY <1>8, <2>1, <3>1, <4>1
    <3>4. CASE k = j
      <4>1. next[b] = w[k + 1]
        BY <1>6, <2>1, <3>4, WalkFacts
      <4> QED BY <3>1, <3>2, <3>3, <4>1
    <3>5. CASE k # j
      <4>1. ~(k - 1 < j)
        BY <2>3, <3>5
      <4>2. Nth(n - 1, v, k - 1) = Nth(n, w, k)
        BY <1>14, <2>1, <4>1
      <4>3. prev[v[k]] = Nth(n, w, k)
        BY <1>4, <2>1, <3>1
      <4> QED BY <3>2, <3>3, <4>2, <4>3
    <3> QED BY <3>4, <3>5
  <2> QED BY <2>2, <2>3
<1>17. blocks_first = Nth(n - 1, v, 1)
  BY <1>4, <1>5, <1>14
<1>18. next'[b] = Nth(n - 1, v, j) /\ prev[b] = Nth(n - 1, v, j - 1)
  <2>1. Nth(n - 1, v, j) = Nth(n, w, j + 1)
    BY <1>14
  <2>2. Nth(n - 1, v, j - 1) = Nth(n, w, j - 1) /\ Nth(n, w, j - 1) = w[j - 1]
    <3>1. j - 1 \in Nat /\ j - 1 < j
      BY <1>6
    <3>2. Nth(n - 1, v, j - 1) = Nth(n, w, j - 1)
      BY <1>14, <3>1
    <3> QED BY <1>6, <3>2 DEF Nth
  <2> QED BY <1>6, <1>10, <2>1, <2>2
<1>19. b \notin Members(n - 1, v) /\ Members(n - 1, v) \ {b} = attached \ {b}
  BY <1>3, <1>15
<1>20. \A c \in live \ Members(n - 1, v) : c # b => c # w[j - 1] /\ Unlinked(c)
  <2>1. w[j - 1] \in M /\ w[j - 1] # b
    BY <1>4, <1>6 DEF Once, Members
  <2> QED BY <1>1, <1>15, <2>1 DEF State, Outside
<1>21. block_list_size = (n - 1) + 1 /\ j \in 1 .. (n - 1) + 1
  BY <1>3
<1>22. Walk(n - 1, v)'
  BY <1>1, <1>12, <1>16, <1>17 DEF Walk
<1>23. Listing(t, n - 1, v)'
  BY <1>1, <1>3, <1>19, <1>21 DEF Listing, Leaving, Adding, Removing
<1>24. OwnLinks(t, n - 1, v)'
  BY <1>1, <1>18, <1>21 DEF OwnLinks, Leaving, Adding
<1>25. LinksBack(t, n - 1, v)'
  BY <1>1, <1>10, <1>16, <1>19 DEF LinksBack, Leaving
<1>26. Outside(t, n - 1, v)'
  BY <1>1, <1>9, <1>20 DEF Outside, Unlinked, TypeOK
<1> QED BY <1>22, <1>23, <1>24, <1>25, <1>26 DEF State

-----------------------------------------------------------------------------
(* What dbg_print_blocks comes to.                                         *)

LEMMA WalkIsShort ==
  ASSUME NEW n \in Nat, NEW w \in [1 .. n -> Block], Once(n, w)
  PROVE  /\ Cardinality(Block) \in Nat /\ n <= Cardinality(Block)
         /\ IsFiniteSet(Members(n, w)) /\ Cardinality(Members(n, w)) = n
<1>1. IsFiniteSet(Block)
  BY BlockAssumption
<1>2. Cardinality(Block) \in Nat
  BY <1>1, FS_CardinalityType
<1>3. IsFiniteSet(1 .. n) /\ Cardinality(1 .. n) = n
  BY FS_Interval
<1>4. w \in Injection(1 .. n, Block)
  BY DEF Once, Injection, IsInjective
<1>5. Cardinality(1 .. n) <= Cardinality(Block)
  BY <1>1, <1>4, FS_Injection
<1>6. w \in Surjection(1 .. n, Members(n, w)) /\ w \in Injection(1 .. n, Members(n, w))
  <2>1. w \in [1 .. n -> Members(n, w)]
    BY DEF Members
  <2> QED BY <2>1 DEF Once, Injection, IsInjective, Surjection, Members
<1>7. IsFiniteSet(Members(n, w)) /\ Cardinality(Members(n, w)) = Cardinality(1 .. n)
  BY <1>3, <1>6, FS_Surjection
<1> QED BY <1>2, <1>3, <1>5, <1>7

LEMMA LeastNatural ==
  ASSUME NEW S, S \subseteq Nat, S # {}
  PROVE  \E m \in S : \A k \in S : m <= k
<1>1. PICK m \in S : \A k \in S : ~(<<k, m>> \in OpToRel(<, Nat))
  BY NatLessThanWellFounded, WFMin
<1>2. \A k \in S : ~(k < m)
  BY <1>1 DEF OpToRel
<1> QED BY <1>2

LEMMA WalkIsListed ==
  ASSUME NEW n \in Nat, NEW w \in [1 .. n -> Block], Walk(n, w)
  PROVE  Listed = Members(n, w)
<1> DEFINE C == Cardinality(Block)
           node[m \in 0 .. C] ==
             IF m = 0 THEN blocks_first
             ELSE IF node[m - 1] = NULL THEN NULL ELSE next[node[m - 1]]
           met == [m \in 0 .. C |-> Nth(n, w, m + 1)]
<1>1. C \in Nat /\ n <= C
  BY WalkIsShort DEF Walk
<1> HIDE DEF C
<1>2. ASSUME NEW m \in 0 .. C
      PROVE  met[m] = IF m = 0 THEN blocks_first
                      ELSE IF met[m - 1] = NULL THEN NULL ELSE next[met[m - 1]]
  <2>1. met[m] = Nth(n, w, m + 1)
    OBVIOUS
  <2>2. CASE m = 0
    BY <2>1, <2>2 DEF Walk
  <2>3. CASE m # 0
    <3>1. met[m - 1] = Nth(n, w, m)
      <4>1. m - 1 \in 0 .. C /\ (m - 1) + 1 = m
        BY <1>1, <2>3
      <4>2. met[m - 1] = Nth(n, w, (m - 1) + 1)
        BY <4>1
      <4> QED BY <4>1, <4>2
    <3>2. CASE m \in 1 .. n
      <4>1. Nth(n, w, m) = w[m] /\ w[m] # NULL /\ next[w[m]] = Nth(n, w, m + 1)
        BY <3>2, WalkFacts DEF Walk
      <4> QED BY <2>1, <2>3, <3>1, <4>1
    <3>3. CASE m \notin 1 .. n
      <4>1. Nth(n, w, m) = NULL /\ Nth(n, w, m + 1) = NULL
        BY <2>3, <3>3 DEF Nth
      <4> QED BY <2>1, <2>3, <3>1, <4>1
    <3> QED BY <3>2, <3>3
  <2> QED BY <2>2, <2>3
<1>3. met = [m \in 0 .. C |-> IF m = 0 THEN blocks_first
                              ELSE IF met[m - 1] = NULL THEN NULL ELSE next[met[m - 1]]]
  BY <1>2
<1> HIDE DEF met
<1>4. node = [m \in 0 .. C |-> IF m = 0 THEN blocks_first
                               ELSE IF node[m - 1] = NULL THEN NULL ELSE next[node[m - 1]]]
  BY <1>3 DEF node
<1>5. Listed = {node[m] : m \in 0 .. C} \ {NULL}
  BY DEF Listed, node, C
<1> HIDE DEF node
<1>6. ASSUME NEW m \in 0 .. C, node[m] # met[m] PROVE FALSE
  <2> DEFINE Differ == {k \in 0 .. C : node[k] # met[k]}
  <2>1. PICK k \in Differ : \A j \in Differ : k <= j
    <3>1. Differ \subseteq Nat /\ Differ # {}
      BY <1>6
    <3> HIDE DEF Differ
    <3> QED BY <3>1, LeastNatural
  <2>2. k # 0
    BY <1>3, <1>4, <2>1
  <2>3. k - 1 \in 0 .. C /\ node[k - 1] = met[k - 1]
    BY <1>1, <2>1, <2>2
  <2>4. /\ node[k] = IF node[k - 1] = NULL THEN NULL ELSE next[node[k - 1]]
        /\ met[k] = IF met[k - 1] = NULL THEN NULL ELSE next[met[k - 1]]
    BY <1>3, <1>4, <2>1, <2>2
  <2> QED BY <2>1, <2>3, <2>4
<1>7. ASSUME NEW k \in 1 .. n PROVE w[k] \in Listed
  <2>1. k - 1 \in 0 .. C /\ met[k - 1] = w[k] /\ w[k] # NULL
    <3>1. k - 1 \in 0 .. C /\ (k - 1) + 1 = k
      BY <1>1
    <3>2. met[k - 1] = Nth(n, w, (k - 1) + 1)
      BY <3>1 DEF met
    <3> QED BY <3>1, <3>2, WalkFacts
  <2> QED BY <1>5, <1>6, <2>1
<1>8. ASSUME NEW b \in Listed PROVE b \in Members(n, w)
  <2>1. PICK m \in 0 .. C : b = met[m]
    BY <1>5, <1>6
  <2>2. b = Nth(n, w, m + 1) /\ b # NULL
    BY <1>5, <2>1 DEF met
  <2> QED BY <2>2, WalkFacts
<1> QED BY <1>7, <1>8 DEF Members

-----------------------------------------------------------------------------
(* The invariant.                                                          *)

LEMMA InitIInv ==
  ASSUME NEW t \in Thread, Init
  PROVE  IInv(t)
<1>1. TypeOK
  BY DEF Init, TypeOK, Pointer
<1>2. 0 \in Nat /\ 1 .. 0 = {}
  OBVIOUS
<1>3. PICK w : w = [k \in 1 .. 0 |-> NULL]
  OBVIOUS
<1>4. w \in [1 .. 0 -> Block]
  BY <1>2, <1>3
<1>5. Members(0, w) = {}
  BY <1>2 DEF Members
<1>6. pc[t] = "idle"
  BY DEF Init
<1>7. Walk(0, w)
  BY <1>2 DEF Init, Walk, Once, Nth
<1>8. Listing(t, 0, w)
  BY <1>5, <1>6 DEF Init, Listing, Leaving, Adding, Removing
<1>9. OwnLinks(t, 0, w)
  BY <1>6 DEF OwnLinks, Leaving, Adding
<1>10. LinksBack(t, 0, w)
  BY <1>2 DEF LinksBack
<1>11. Outside(t, 0, w)
  BY DEF Init, Outside
<1> QED BY <1>1, <1>2, <1>4, <1>7, <1>8, <1>9, <1>10, <1>11 DEF IInv, State

LEMMA NextIInv ==
  ASSUME NEW t \in Thread, Thread = {t}, IInv(t), Next
  PROVE  IInv(t)'
<1> DEFINE Kept == \E n \in Nat : \E w \in [1 .. n -> Block] : State(t, n, w)'
<1>1. PICK n \in Nat : \E w \in [1 .. n -> Block] : State(t, n, w)
  BY DEF IInv
<1>2. PICK w \in [1 .. n -> Block] : State(t, n, w)
  BY <1>1
<1>3. TypeOK /\ TypeOK'
  BY NextType DEF IInv
<1> SUFFICES Kept
  BY <1>3 DEF IInv
<1>4. Once(n, w) /\ (pc[t] # "idle" => block[t] \in Block)
  BY <1>2, <1>3 DEF State, Walk, Listing, TypeOK
<1>5. State(t, n, w)' => Kept
  OBVIOUS
<1>6. ASSUME NEW b \in Block,
             Malloc(t, b) \/ Free(t, b) \/ Detach(t, b) \/ Realloc(t, b) \/ FinishRealloc(t, b)
      PROVE  Kept
  BY <1>2, <1>3, <1>5, <1>6, MallocState, RemovalState, FinishReallocState
<1>7. CASE AddNext(t) \/ AddPrev(t) \/ AddBack(t)
  BY <1>2, <1>3, <1>5, <1>7, AddNextState, AddPrevState, AddBackState
<1>8. CASE AddFirst(t)
  <2>1. PICK b \in Block : b = block[t]
    BY <1>4, <1>8 DEF AddFirst
  <2>2. PICK v : v = With(n, w, b)
    OBVIOUS
  <2>3. State(t, n + 1, v)'
    BY <1>2, <1>3, <1>8, <2>1, <2>2, AddFirstState
  <2>4. b \notin Members(n, w)
    BY <1>2, <1>8, <2>1 DEF State, Listing, AddFirst, Adding
  <2>5. n + 1 \in Nat /\ v \in [1 .. n + 1 -> Block]
    <3>1. n + 1 \in Nat
      OBVIOUS
    <3>2. v \in [1 .. n + 1 -> Block]
      BY <2>2 DEF With
    <3> QED BY <3>1, <3>2
  <2> QED BY <2>3, <2>5
<1>9. CASE RemoveFirst(t)
  <2>1. n \in Nat \ {0} /\ State(t, n - 1, Without(n, w, 1))'
    BY <1>2, <1>3, <1>9, RemoveFirstState
  <2>2. PICK j \in 1 .. n : j = 1
    BY <2>1
  <2>3. PICK v : v = Without(n, w, j)
    OBVIOUS
  <2>4. Rest(n, w, j, v)
    BY <1>4, <2>3, WithoutFacts
  <2>5. n - 1 \in Nat /\ v \in [1 .. n - 1 -> Block]
    BY <2>4 DEF Rest
  <2>6. State(t, n - 1, v)'
    BY <2>1, <2>2, <2>3
  <2> QED BY <2>5, <2>6
<1>10. CASE RemoveDetached(t) \/ RemoveInner(t)
  BY <1>2, <1>3, <1>5, <1>10, StartRemovalState
<1>11. CASE RemoveNext(t)
  <2>1. CASE block[t] \notin Members(n, w)
    BY <1>2, <1>3, <1>5, <1>11, <2>1, RemoveNextOfFirst
  <2>2. CASE block[t] \in Members(n, w)
    <3>1. PICK j \in 1 .. n : w[j] = block[t]
      BY <2>2 DEF Members
    <3>2. PICK v : v = Without(n, w, j)
      OBVIOUS
    <3>3. State(t, n - 1, v)'
      BY <1>2, <1>3, <1>11, <3>1, <3>2, RemoveNextState
    <3>4. Rest(n, w, j, v)
      BY <1>4, <3>2, WithoutFacts
    <3>5. n - 1 \in Nat /\ v \in [1 .. n - 1 -> Block]
      BY <3>4 DEF Rest
    <3> QED BY <3>3, <3>5
  <2> QED BY <2>1, <2>2
<1>12. CASE RemovePrev(t) \/ RemoveLinks(t)
  BY <1>2, <1>3, <1>5, <1>12, RemovePrevState, RemoveLinksState
<1>13. CASE FinishFree(t) \/ FinishDetach(t)
  BY <1>2, <1>3, <1>5, <1>13, FinishState
<1> QED BY <1>6, <1>7, <1>8, <1>9, <1>10, <1>11, <1>12, <1>13 DEF Next

LEMMA SpecIInv ==
  ASSUME NEW t \in Thread, Thread = {t}
  PROVE  Spec => []IInv(t)
<1>1. Init => IInv(t)
  BY InitIInv
<1>2. IInv(t) /\ UNCHANGED vars => IInv(t)'
  <2> SUFFICES ASSUME IInv(t), UNCHANGED vars PROVE IInv(t)'
    OBVIOUS
  <2> USE DEF vars, list
  <2>1. TypeOK'
    BY DEF IInv, TypeOK
  <2>2. ASSUME NEW n \in Nat, NEW w \in [1 .. n -> Block], State(t, n, w) PROVE State(t, n, w)'
    BY <2>2 DEF State, Walk, Listing, OwnLinks, LinksBack, Outside, Leaving, Unlinked
  <2> QED BY <2>1, <2>2 DEF IInv
<1>3. IInv(t) /\ [Next]_vars => IInv(t)'
  BY <1>2, NextIInv
<1> QED BY <1>1, <1>3, PTL DEF Spec

-----------------------------------------------------------------------------
(* The theorems.                                                           *)

LEMMA IInvListIsExact ==
  ASSUME NEW t \in Thread, Thread = {t}, IInv(t)
  PROVE  ListIsExact
<1>1. PICK n \in Nat : \E w \in [1 .. n -> Block] : State(t, n, w)
  BY DEF IInv
<1>2. PICK w \in [1 .. n -> Block] : State(t, n, w)
  BY <1>1
<1> SUFFICES ASSUME pc[t] = "idle"
             PROVE  /\ Listed = attached
                    /\ block_list_size = Cardinality(attached)
                    /\ blocks_first # NULL => prev[blocks_first] = NULL
                    /\ \A b \in Listed : next[b] # NULL => prev[next[b]] = b
  BY DEF ListIsExact
<1>3. Walk(n, w) /\ Members(n, w) = attached /\ block_list_size = n
  BY <1>2 DEF State, Listing, Leaving
<1>4. Listed = attached
  BY <1>3, WalkIsListed
<1>5. block_list_size = Cardinality(attached)
  BY <1>3, WalkIsShort DEF Walk
<1>6. \A k \in 1 .. n : prev[w[k]] = Nth(n, w, k - 1)
  BY <1>2 DEF State, LinksBack, Leaving
<1>7. blocks_first # NULL => prev[blocks_first] = NULL
  <2> SUFFICES ASSUME blocks_first # NULL PROVE prev[blocks_first] = NULL
    OBVIOUS
  <2>1. 1 \in 1 .. n /\ blocks_first = w[1]
    BY <1>3 DEF Walk, Nth
  <2>2. Nth(n, w, 1 - 1) = NULL
    BY DEF Nth
  <2> QED BY <1>6, <2>1, <2>2
<1>8. ASSUME NEW b \in Listed, next[b] # NULL PROVE prev[next[b]] = b
  <2>1. PICK k \in 1 .. n : b = w[k]
    BY <1>3, <1>4 DEF Members
  <2>2. k + 1 \in 1 .. n /\ next[b] = w[k + 1]
    BY <1>3, <1>8, <2>1 DEF Walk, Nth
  <2>3. Nth(n, w, (k + 1) - 1) = w[k]
    BY <2>1 DEF Nth
  <2> QED BY <1>6, <2>1, <2>2, <2>3
<1> QED BY <1>4, <1>5, <1>7, <1>8

LEMMA IInvNothingDangles ==
  ASSUME NEW t \in Thread, Thread = {t}, IInv(t)
  PROVE  NothingDangles
<1>1. PICK n \in Nat : \E w \in [1 .. n -> Block] : State(t, n, w)
  BY DEF IInv
<1>2. PICK w \in [1 .. n -> Block] : State(t, n, w)
  BY <1>1
<1>3. Listed = Members(n, w)
  BY <1>2, WalkIsListed DEF State
<1>4. attached \subseteq live
  BY DEF IInv, TypeOK
<1>5. Members(n, w) \subseteq live
  BY <1>2, <1>4 DEF State, Listing
<1>6. \A b \in live \ Members(n, w) : Unused(b) => Unlinked(b)
  BY <1>2 DEF State, Outside, Unused
<1> QED BY <1>3, <1>5, <1>6 DEF NothingDangles

\* As long as only one thread uses the library, dbg_is_memory_clear tells the
\* truth between calls, whatever was allocated, moved, detached and freed in any
\* order: the list is exactly what is neither freed nor detached, its counter is
\* right and its links back are the inverse of its links.
THEOREM DebugListIsExact == ASSUME OneThread PROVE Spec => []ListIsExact
<1>1. PICK t : Thread = {t}
  BY DEF OneThread
<1>2. t \in Thread
  BY <1>1
<1>3. Spec => []IInv(t)
  BY <1>1, <1>2, SpecIInv
<1>4. IInv(t) => ListIsExact
  BY <1>1, <1>2, IInvListIsExact
<1> QED BY <1>3, <1>4, PTL

\* And at every statement, also in the middle of a call, the list leads only to
\* memory that is allocated, and a block outside of it points nowhere.
THEOREM DebugListNeverDangles == ASSUME OneThread PROVE Spec => []NothingDangles
<1>1. PICK t : Thread = {t}
  BY DEF OneThread
<1>2. t \in Thread
  BY <1>1
<1>3. Spec => []IInv(t)
  BY <1>1, <1>2, SpecIInv
<1>4. IInv(t) => NothingDangles
  BY <1>1, <1>2, IInvNothingDangles
<1> QED BY <1>3, <1>4, PTL
=============================================================================
