------------------------------ MODULE Multimap ------------------------------
(***************************************************************************)
(* What a JSON object promises to its user (includes/json.h, "Object is a  *)
(* multimap"), seen from outside: a set of values under every key.  Adding *)
(* is one atomic step, growth of the buffer behind it is invisible, and    *)
(* disposing of the object releases everything at once.                    *)
(*                                                                         *)
(* The promise is about which values are there.  The order in which        *)
(* json_object_lookup_next returns them is documented too, but the code    *)
(* does not keep it (see LastAddedFirst in ObjectTable).                   *)
(***************************************************************************)
CONSTANTS Key,     \* names of fields
          Value    \* the values that may be added

VARIABLES open,    \* the object exists
          vals     \* vals[k]: the values added under the key k

vars == <<open, vals>>

Nothing == [k \in Key |-> {}]

TypeOK == /\ open \in BOOLEAN
          /\ vals \in [Key -> SUBSET Value]

Init == /\ open = FALSE
        /\ vals = Nothing

Create == /\ ~open
          /\ vals = Nothing
          /\ open' = TRUE
          /\ UNCHANGED vals

\* A value belongs to one object and is added to it once.
Add(k, v) == /\ open
             /\ \A q \in Key : v \notin vals[q]
             /\ vals' = [vals EXCEPT ![k] = @ \cup {v}]
             /\ UNCHANGED open

Dispose == /\ open
           /\ open' = FALSE
           /\ vals' = Nothing

Next == \/ Create
        \/ \E k \in Key, v \in Value : Add(k, v)
        \/ Dispose

Spec == Init /\ [][Next]_vars
=============================================================================
