--------------------------- MODULE MCObjectTable ---------------------------
(* Instances of ObjectTable for TLC.                                       *)
EXTENDS ObjectTable

CONSTANTS k1, k2, k3, t1, t2

\* A scaled-down array of capacities: within four values the table grows from
\* 3 to 7 to 11, so that an entry is rehashed more than once.
SmallPrimes == <<3, 7, 11>>

\* k1 and k2 collide in the table of 3, k1 and k3 in the table of 11; the home
\* of k3 is the last slot of the table of 7, its probe paths wrap around.
SmallHash == [k \in Key |-> CASE k = k1 -> 2 [] k = k2 -> 5 [] OTHER -> 13]

\* Two keys that share the last slot of the table of 7.
HandoverHash == [k \in Key |-> IF k = k1 THEN 6 ELSE 13]

\* The first capacities of the library; the home of k1 is the last slot of the
\* smallest table.
RealPrimes == <<13, 29>>
RealHash == [k \in Key |-> IF k = k1 THEN 12 ELSE 10]

\* ids the threads have used before: none, or some for another object
FreshIds == {1}
UsedIds == {1, 3}
=============================================================================
