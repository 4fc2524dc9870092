---------------------------- MODULE MCParseString ----------------------------
(* Instances of ParseString for TLC.                                       *)
EXTENDS ParseString

El(k, c) == [kind |-> k, code |-> c]

\* What strtoul makes of "-XXX" is 2^32 - n, which TLC has no number for: this one
\* has the same lowest 16 bits, and is no code point either.
Minus(n) == 16777216 - n

\* An ordinary byte (of a character of two), a letter escape, and \u with: a null
\* character, a unit of two bytes, one of three, both halves of a pair, -001
\* (c16type takes it for a second half) and -401 (for a first half).
Characters ==
  {El("char", 195), El("escape", 10), El("bad", 0), El("badhex", 0)}
    \cup {El("u", c) : c \in {0, 233, 8230, 55357, 56832, Minus(1), Minus(1025)}}
=============================================================================
