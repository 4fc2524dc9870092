---------------------------- MODULE DebugBlocks ----------------------------
(***************************************************************************)
(* The allocator of the debug build, src/src/dbg_malloc.c: every block is  *)
(* an element of a doubly linked list until it is freed or detached, and   *)
(* dbg_is_memory_clear tells whether the list is empty.                    *)
(*                                                                         *)
(* add_block and remove_block are split into their statements, for any     *)
(* number of threads: the list has no lock.  (An increment of the counter  *)
(* is one step: the real races are finer still.)  A client passes blocks   *)
(* that it owns, never one that another call is working on.                *)
(*                                                                         *)
(* An operator named Bad... is a plausible mistake in the definition after *)
(* it: the property it breaks is named in PROJECT.json.                    *)
(***************************************************************************)
EXTENDS Integers, FiniteSets

CONSTANTS
  Block,    \* addresses of blocks
  Thread,   \* threads that use the library
  NULL      \* the null pointer

ASSUME BlockAssumption == IsFiniteSet(Block) /\ NULL \notin Block

VARIABLES
  blocks_first, block_list_size,   \* the list
  next, prev,                      \* links of the blocks
  pc, block, op,                   \* per thread: statement, argument, function
  live,                            \* memory that is allocated
  attached                         \* history: allocated, not freed or detached

list == <<blocks_first, block_list_size, next, prev>>
vars == <<list, pc, block, op, live, attached>>

Pointer == Block \cup {NULL}

GoTo(t, statement) == pc' = [pc EXCEPT ![t] = statement]

\* No call is working on b.
Unused(b) == \A t \in Thread : pc[t] # "idle" => block[t] # b

Init ==
  /\ blocks_first = NULL /\ block_list_size = 0
  /\ next = [b \in Block |-> NULL] /\ prev = [b \in Block |-> NULL]
  /\ pc = [t \in Thread |-> "idle"]
  /\ block = [t \in Thread |-> NULL]
  /\ op = [t \in Thread |-> "none"]
  /\ live = {} /\ attached = {}

Begin(t, b, function, statement) ==
  /\ pc[t] = "idle"
  /\ block' = [block EXCEPT ![t] = b]
  /\ op' = [op EXCEPT ![t] = function]
  /\ GoTo(t, statement)

(* dbg_malloc, and dbg_realloc of NULL; dbg_calloc likewise.  Where malloc *)
(* fails nothing changes.  New memory may hold anything.                   *)
Malloc(t, b) ==
  /\ b \notin live
  /\ Begin(t, b, "malloc", "add_next")
  /\ \E n, p \in Pointer : /\ next' = [next EXCEPT ![b] = n]
                           /\ prev' = [prev EXCEPT ![b] = p]
  /\ live' = live \cup {b} /\ attached' = attached \cup {b}
  /\ UNCHANGED <<blocks_first, block_list_size>>

(* dbg_free, of a block that may have been detached before                 *)
Free(t, b) ==
  /\ b \in live /\ Unused(b)
  /\ Begin(t, b, "free", "remove")
  /\ attached' = attached \ {b}
  /\ UNCHANGED <<list, live>>

(* dbg_mem_detach                                                          *)
Detach(t, b) ==
  /\ b \in live /\ Unused(b)
  /\ Begin(t, b, "detach", "remove")
  /\ attached' = attached \ {b}
  /\ UNCHANGED <<list, live>>

(* dbg_realloc of a block                                                  *)
Realloc(t, b) ==
  /\ b \in live /\ Unused(b)
  /\ Begin(t, b, "realloc", "remove")
  /\ attached' = attached \ {b}
  /\ UNCHANGED <<list, live>>

-----------------------------------------------------------------------------
(* add_block                                                               *)

AddNext(t) ==
  /\ pc[t] = "add_next"
  /\ next' = [next EXCEPT ![block[t]] = blocks_first]
  /\ GoTo(t, "add_prev")
  /\ UNCHANGED <<blocks_first, block_list_size, prev, block, op, live, attached>>

AddPrev(t) ==
  /\ pc[t] = "add_prev"
  /\ prev' = [prev EXCEPT ![block[t]] = NULL]
  /\ GoTo(t, "add_back")
  /\ UNCHANGED <<blocks_first, block_list_size, next, block, op, live, attached>>

\* the link back from the block that was first, if the assertion that this has
\* none holds: where it fails there is no next step, the program ends
AddBack(t) ==
  /\ pc[t] = "add_back"
  /\ blocks_first # NULL => prev[blocks_first] = NULL
  /\ prev' = IF blocks_first = NULL THEN prev ELSE [prev EXCEPT ![blocks_first] = block[t]]
  /\ GoTo(t, "add_first")
  /\ UNCHANGED <<blocks_first, block_list_size, next, block, op, live, attached>>

AddFirst(t) ==
  /\ pc[t] = "add_first"
  /\ blocks_first' = block[t]
  /\ block_list_size' = block_list_size + 1
  /\ GoTo(t, "idle")
  /\ UNCHANGED <<next, prev, block, op, live, attached>>

-----------------------------------------------------------------------------
(* remove_block                                                            *)

RemoveFirst(t) ==
  /\ pc[t] = "remove"
  /\ block[t] = blocks_first
  /\ blocks_first' = next[blocks_first]
  /\ GoTo(t, "remove_next")
  /\ UNCHANGED <<block_list_size, next, prev, block, op, live, attached>>

Unlinked(b) == prev[b] = NULL /\ next[b] = NULL

\* `else if (!block->prev && !block->next) return`: it was detached before
RemoveDetached(t) ==
  /\ pc[t] = "remove"
  /\ block[t] # blocks_first /\ Unlinked(block[t])
  /\ GoTo(t, "removed")
  /\ UNCHANGED <<list, block, op, live, attached>>

RemoveInner(t) ==
  /\ pc[t] = "remove"
  /\ block[t] # blocks_first /\ ~Unlinked(block[t])
  /\ GoTo(t, "remove_next")
  /\ UNCHANGED <<list, block, op, live, attached>>

BadRemoveNext(t) ==
  /\ pc[t] = "remove_next"
  /\ GoTo(t, "remove_prev")
  /\ UNCHANGED <<list, block, op, live, attached>>
RemoveNext(t) ==
  /\ pc[t] = "remove_next"
  /\ next' = IF prev[block[t]] = NULL THEN next
             ELSE [next EXCEPT ![prev[block[t]]] = next[block[t]]]
  /\ GoTo(t, "remove_prev")
  /\ UNCHANGED <<blocks_first, block_list_size, prev, block, op, live, attached>>

BadRemovePrev(t) ==
  /\ pc[t] = "remove_prev"
  /\ GoTo(t, "remove_links")
  /\ UNCHANGED <<list, block, op, live, attached>>
RemovePrev(t) ==
  /\ pc[t] = "remove_prev"
  /\ prev' = IF next[block[t]] = NULL THEN prev
             ELSE [prev EXCEPT ![next[block[t]]] = prev[block[t]]]
  /\ GoTo(t, "remove_links")
  /\ UNCHANGED <<blocks_first, block_list_size, next, block, op, live, attached>>

RemoveLinks(t) ==
  /\ pc[t] = "remove_links"
  /\ next' = [next EXCEPT ![block[t]] = NULL]
  /\ prev' = [prev EXCEPT ![block[t]] = NULL]
  /\ block_list_size' = block_list_size - 1
  /\ GoTo(t, "removed")
  /\ UNCHANGED <<blocks_first, block, op, live, attached>>

-----------------------------------------------------------------------------
(* What follows remove_block.                                              *)

FinishFree(t) ==
  /\ pc[t] = "removed" /\ op[t] = "free"
  /\ live' = live \ {block[t]}
  /\ GoTo(t, "idle")
  /\ UNCHANGED <<list, block, op, attached>>

FinishDetach(t) ==
  /\ pc[t] = "removed" /\ op[t] = "detach"
  /\ GoTo(t, "idle")
  /\ UNCHANGED <<list, block, op, live, attached>>

\* realloc may move the block.  (It may also fail: dbg_realloc then writes to
\* address zero, the program ends, and there is nothing more to say.)
FinishRealloc(t, b) ==
  /\ pc[t] = "removed" /\ op[t] = "realloc"
  /\ b \notin live \/ b = block[t]
  /\ live' = (live \ {block[t]}) \cup {b}
  /\ attached' = attached \cup {b}
  /\ next' = [next EXCEPT ![b] = next[block[t]]]
  /\ prev' = [prev EXCEPT ![b] = prev[block[t]]]
  /\ block' = [block EXCEPT ![t] = b]
  /\ GoTo(t, "add_next")
  /\ UNCHANGED <<blocks_first, block_list_size, op>>

-----------------------------------------------------------------------------
Next ==
  \E t \in Thread :
    \/ \E b \in Block : Malloc(t, b) \/ Free(t, b) \/ Detach(t, b) \/ Realloc(t, b)
    \/ AddNext(t) \/ AddPrev(t) \/ AddBack(t) \/ AddFirst(t)
    \/ RemoveFirst(t) \/ RemoveDetached(t) \/ RemoveInner(t)
    \/ RemoveNext(t) \/ RemovePrev(t) \/ RemoveLinks(t)
    \/ FinishFree(t) \/ FinishDetach(t) \/ \E b \in Block : FinishRealloc(t, b)

Spec == Init /\ [][Next]_vars

-----------------------------------------------------------------------------
TypeOK ==
  /\ blocks_first \in Pointer /\ block_list_size \in Nat
  /\ next \in [Block -> Pointer] /\ prev \in [Block -> Pointer]
  /\ pc \in [Thread -> {"idle", "add_next", "add_prev", "add_back", "add_first", "remove",
                        "remove_next", "remove_prev", "remove_links", "removed"}]
  /\ block \in [Thread -> Pointer]
  /\ op \in [Thread -> {"none", "malloc", "free", "detach", "realloc"}]
  /\ live \subseteq Block /\ attached \subseteq live

\* The blocks that dbg_print_blocks would come to: node[n] is the one after n
\* steps.
Listed ==
  LET node[n \in 0 .. Cardinality(Block)] ==
        IF n = 0 THEN blocks_first
        ELSE IF node[n - 1] = NULL THEN NULL ELSE next[node[n - 1]]
  IN  {node[n] : n \in 0 .. Cardinality(Block)} \ {NULL}

\* (ListIsExact) Between calls the list holds the blocks that were neither
\* freed nor detached, all of them and no other, its counter is right and its
\* links back are the inverse of its links: dbg_is_memory_clear tells the truth.
ListIsExact ==
  (\A t \in Thread : pc[t] = "idle") =>
    /\ Listed = attached
    /\ block_list_size = Cardinality(attached)
    /\ blocks_first # NULL => prev[blocks_first] = NULL
    /\ \A b \in Listed : next[b] # NULL => prev[next[b]] = b

\* (NothingDangles) At every statement, a walk along the list meets only memory
\* that is allocated, and a block outside of the list and of the calls under way
\* points nowhere: freeing a detached block touches no other.
NothingDangles ==
  /\ Listed \subseteq live
  /\ \A b \in live \ Listed : Unused(b) => Unlinked(b)
=============================================================================
