----------------------------- MODULE ErrorSlot -----------------------------
(***************************************************************************)
(* The error of a thread: src/src/error.c, the out-of-memory handling of   *)
(* src/src/alloc.c, json_init, json_exit and json_strerror of json.c.      *)
(*                                                                         *)
(* Threads call functions of the library in any order.  Of a call, the     *)
(* steps are kept that allocate and free texts of errors and that change   *)
(* the error: the calls of different threads interleave at these steps,    *)
(* and a block that one thread frees may be allocated by another next.     *)
(* The release build is modelled, where json_malloc_ reports a failure;    *)
(* json_init and json_exit are called while no other call runs.            *)
(*                                                                         *)
(* An operator named Bad... is a plausible mistake in the definition after *)
(* it: the property it breaks is named in PROJECT.json.                    *)
(***************************************************************************)
CONSTANTS
  Thread,
  Text,                 \* blocks that may hold a text
  NULL,
  error_out_of_memory   \* the static text "out of memory"

ASSUME PointerAssumption ==
  NULL \notin Text /\ error_out_of_memory \notin Text \cup {NULL}

VARIABLES
  initialized,   \* between json_init and json_exit: error_key exists
  running,       \* threads that have not ended
  pc,            \* pc[t]: "user" between calls, else where the call of t is
  pointer,       \* pointer[<<t, p>>]: where p \in Place of thread t leads
  live,          \* blocks that are allocated
  raised,        \* history: raised[t] is the set of errors that calls of t
                 \* have raised since its last json_parse and json_init
  recent         \* history: those that the last call of t has raised

vars == <<initialized, running, pc, pointer, live, raised, recent>>

(* "slot" is tss_get(error_key) in the thread; "message" and "text" are    *)
(* the two texts errorf has in hand.                                       *)
Place == {"slot", "message", "text"}
Error == Text \cup {error_out_of_memory}
slot(t) == pointer[<<t, "slot">>]
message(t) == pointer[<<t, "message">>]
text(t) == pointer[<<t, "text">>]

Init ==
  /\ initialized = FALSE
  /\ running = Thread
  /\ pc = [t \in Thread |-> "user"]
  /\ pointer = [tp \in Thread \X Place |-> NULL]
  /\ live = {}
  /\ raised = [t \in Thread |-> {}] /\ recent = [t \in Thread |-> {}]

Idle == \A t \in Thread : pc[t] = "user"
Goes(t, from, to) == pc[t] = from /\ pc' = [pc EXCEPT ![t] = to]

(* set_error: free_error of the old error, which passes over the static    *)
(* text, and tss_set of the new one.  A text that was in hand is in the    *)
(* slot now.                                                               *)
SetError(t, e) ==
  /\ pointer' = [pointer EXCEPT ![<<t, "slot">>] = e, ![<<t, "text">>] = NULL]
  /\ live' = live \ {slot(t)}

(* Block e is allocated for the thread: whoever still took it for a text   *)
(* of its own is wrong from now on.                                        *)
Allocate(t, place, e) ==
  /\ e \in Text \ live
  /\ live' = live \cup {e}
  /\ pointer' = [pointer EXCEPT ![<<t, place>>] = e]
Raises(t, e) ==
  /\ raised' = [u \in Thread |-> IF u = t THEN raised[u] \cup {e} ELSE raised[u] \ ({e} \cap Text)]
  /\ recent' = [u \in Thread |-> IF u = t THEN recent[u] \cup {e} ELSE recent[u] \ ({e} \cap Text)]
Reused(e) ==
  /\ raised' = [u \in Thread |-> raised[u] \ {e}]
  /\ recent' = [u \in Thread |-> recent[u] \ {e}]

-----------------------------------------------------------------------------
(* json_init                                                               *)
InitLibrary ==
  /\ ~initialized
  /\ initialized' = TRUE
  /\ pointer' = [tp \in Thread \X Place |-> NULL]
  /\ raised' = [t \in Thread |-> {}] /\ recent' = [t \in Thread |-> {}]
  /\ UNCHANGED <<running, pc, live>>

(* json_exit in thread t: tss_delete runs no destructor, so that the       *)
(* errors of the other threads are forgotten.                              *)
ExitLibrary(t) ==
  /\ initialized /\ t \in running /\ Idle
  /\ live' = live \ {slot(t)}
  /\ pointer' = [tp \in Thread \X Place |-> NULL]
  /\ initialized' = FALSE
  /\ UNCHANGED <<running, pc, raised, recent>>

(* Thread t ends; free_error is the destructor of its slot.                *)
BadEndThread(t) ==
  /\ t \in running /\ pc[t] = "user"
  /\ running' = running \ {t}
  /\ pointer' = [pointer EXCEPT ![<<t, "slot">>] = NULL]
  /\ UNCHANGED <<initialized, pc, live, raised, recent>>
EndThread(t) ==
  /\ t \in running /\ pc[t] = "user"
  /\ running' = running \ {t}
  /\ SetError(t, NULL)
  /\ UNCHANGED <<initialized, pc, raised, recent>>

-----------------------------------------------------------------------------
(* A call.                                                                 *)

\* json_parse or json_parse_mem of a text: parser_begin clears the error.
BadParseBegins(t) ==
  /\ initialized /\ t \in running
  /\ Goes(t, "user", "called")
  /\ raised' = [raised EXCEPT ![t] = {}] /\ recent' = [recent EXCEPT ![t] = {}]
  /\ UNCHANGED <<initialized, running, pointer, live>>
ParseBegins(t) ==
  /\ initialized /\ t \in running
  /\ Goes(t, "user", "called")
  /\ SetError(t, NULL)
  /\ raised' = [raised EXCEPT ![t] = {}] /\ recent' = [recent EXCEPT ![t] = {}]
  /\ UNCHANGED <<initialized, running>>

\* Any other function leaves the error as it is when it begins.
CallBegins(t) ==
  /\ initialized /\ t \in running
  /\ Goes(t, "user", "called")
  /\ recent' = [recent EXCEPT ![t] = {}]
  /\ UNCHANGED <<initialized, running, pointer, live, raised>>

\* An allocation fails in json_malloc_, json_calloc_ or json_realloc_.  The
\* function may give up or go on: parse_string and json_object_add do.
OutOfMemory(t) ==
  /\ pc[t] = "called"
  /\ SetError(t, error_out_of_memory)
  /\ Raises(t, error_out_of_memory)
  /\ UNCHANGED <<initialized, running, pc>>

\* errorf: vasprintf has memory for the message, ...
FormatMessage(t) ==
  /\ Goes(t, "called", "message")
  /\ \E e \in Text : Allocate(t, "message", e) /\ Reused(e)
  /\ UNCHANGED <<initialized, running>>

\* ... or it has none: json_malloc_ sets "out of memory", and set_error(NULL)
\* drops that at once.
NoMessage(t) ==
  /\ Goes(t, "called", "failed")
  /\ SetError(t, NULL)
  /\ Raises(t, error_out_of_memory)
  /\ UNCHANGED <<initialized, running>>

\* The same for the text with line and column, made from the message.
FormatText(t) ==
  /\ Goes(t, "message", "text")
  /\ \E e \in Text : Allocate(t, "text", e) /\ Raises(t, e)
  /\ UNCHANGED <<initialized, running>>

NoText(t) ==
  /\ Goes(t, "message", "shown")
  /\ SetError(t, NULL)
  /\ Raises(t, error_out_of_memory)
  /\ UNCHANGED <<initialized, running>>

ShowText(t) ==
  /\ Goes(t, "text", "shown")
  /\ SetError(t, text(t))
  /\ UNCHANGED <<initialized, running, raised, recent>>

\* json_free(message); the mistake frees the text it was copied to.
BadFreeMessage(t) ==
  /\ Goes(t, "shown", "failed")
  /\ live' = live \ {slot(t)}
  /\ pointer' = [pointer EXCEPT ![<<t, "message">>] = NULL]
  /\ UNCHANGED <<initialized, running, raised, recent>>
FreeMessage(t) ==
  /\ Goes(t, "shown", "failed")
  /\ live' = live \ {message(t)}
  /\ pointer' = [pointer EXCEPT ![<<t, "message">>] = NULL]
  /\ UNCHANGED <<initialized, running, raised, recent>>

\* The call returns: with success, with the failure that errorf reported, or
\* with one that nothing reported (json_copy of an array).
Return(t) ==
  /\ Goes(t, "called", "user") \/ Goes(t, "failed", "user")
  /\ UNCHANGED <<initialized, running, pointer, live, raised, recent>>

Errorf(t) ==
  \/ FormatMessage(t) \/ NoMessage(t)
  \/ FormatText(t) \/ NoText(t)
  \/ ShowText(t) \/ FreeMessage(t)

Next ==
  \/ InitLibrary
  \/ \E t \in Thread :
       \/ ExitLibrary(t) \/ EndThread(t)
       \/ ParseBegins(t) \/ CallBegins(t) \/ OutOfMemory(t)
       \/ Errorf(t) \/ Return(t)

Spec == Init /\ [][Next]_vars

-----------------------------------------------------------------------------
TypeOK ==
  /\ initialized \in BOOLEAN
  /\ running \subseteq Thread
  /\ pc \in [Thread -> {"user", "called", "message", "text", "shown", "failed"}]
  /\ pointer \in [Thread \X Place -> Error \cup {NULL}]
  /\ live \subseteq Text
  /\ raised \in [Thread -> SUBSET Error] /\ recent \in [Thread -> SUBSET Error]

Held == {pointer[tp] : tp \in Thread \X Place} \cap Text

\* (TextsAreOwned) Each pointer to a text, in a slot or in the hands of errorf,
\* leads to one that is allocated and that no other pointer leads to: none is
\* freed twice, or read after it was freed, whichever threads fail, end and
\* call json_exit.
TextsAreOwned ==
  /\ Held \subseteq live
  /\ \A p, q \in Thread \X Place : p # q /\ pointer[p] \in Text => pointer[p] # pointer[q]

\* (ShownIsOwn) What json_strerror returns to a thread between two calls was
\* raised by a call of the same thread since its last json_parse, by the last
\* call if that raised any error, and is still that text and not what another
\* thread has put in its place.  An error is dropped only for want of memory.
\* After a last call that raised none, what is shown may be of an earlier one.
ShownIsOwn ==
  \A t \in running :
    initialized /\ pc[t] = "user" =>
      \/ slot(t) \in recent[t]
      \/ slot(t) \in raised[t] /\ recent[t] = {}
      \/ slot(t) = NULL /\ (recent[t] = {} \/ error_out_of_memory \in recent[t])

\* (OnlyExitForgets) A text is forgotten only by json_exit, and then only one of
\* another thread that still runs.
Forgotten == live \ Held
OnlyExitForgets ==
  [][Forgotten' # Forgotten =>
       \E t \in running : /\ ExitLibrary(t)
                          /\ Forgotten' \ Forgotten \subseteq {slot(u) : u \in running \ {t}}]_vars

=============================================================================
