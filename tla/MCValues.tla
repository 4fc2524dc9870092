-------------------------------- MODULE MCValues -------------------------------
(* Instances of Values for TLC.                                            *)
EXTENDS Values

\* Tables for one and for up to three entries.
SmallPrimes == <<2, 7>>
=============================================================================
