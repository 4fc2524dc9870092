--------------------------------- MODULE Utf ---------------------------------
(***************************************************************************)
(* The conversions of src/src/utf.c, as operators on numbers.              *)
(*                                                                         *)
(* A char16_t is a number below 2^16, a byte a number below 2^8.  A mask   *)
(* of the lowest bits is a remainder, a shift a division, and the | of     *)
(* bits that do not overlap a sum.  IsUtf8, IsHigh and IsLow are not       *)
(* translated from code: they are what RFC 3629 and RFC 2781 define.       *)
(***************************************************************************)
EXTENDS Integers, Sequences

Char16 == {c \in Nat : c <= 65535}
CodePoint == {c \in Nat : c <= 1114111}

\* `c16 & 0xD800` and `c16 & 0x400`: some of these bits are set.
AnyBitOfD800(c16) ==
  \/ (c16 \div 2048) % 2 = 1
  \/ (c16 \div 4096) % 2 = 1
  \/ (c16 \div 16384) % 2 = 1
  \/ (c16 \div 32768) % 2 = 1
Bit400(c16) == (c16 \div 1024) % 2 = 1

c16type(c16) ==
  IF ~AnyBitOfD800(c16) THEN "not"
  ELSE IF Bit400(c16) THEN "low" ELSE "high"

c16len(c16) == IF c16 \div 2048 = 27 THEN 2 ELSE 1

c16pairtoc32(high, low) == 65536 + (high % 1024) * 1024 + (low % 1024)

\* out[0] and out[1]
c32toc16be(c32) ==
  IF c32 < 65536 THEN <<c32, 0>>
  ELSE <<55296 + (c32 - 65536) \div 1024, 56320 + ((c32 - 65536) % 1024)>>

\* The length that a leading byte announces; 1 for a byte that leads nothing.
c8len(c) ==
  CASE c \in 192 .. 223 -> 2
    [] c \in 224 .. 239 -> 3
    [] c \in 240 .. 247 -> 4
    [] c \in 248 .. 251 -> 5
    [] c \in 252 .. 253 -> 6
    [] OTHER -> 1

\* The bytes of c8; none where c32toc8 returns false.
c32toc8(c32) ==
  IF c32 <= 127 THEN <<c32>>
  ELSE IF c32 <= 2047 THEN <<192 + c32 \div 64, 128 + (c32 % 64)>>
  ELSE IF c32 <= 65535 THEN <<224 + c32 \div 4096, 128 + ((c32 \div 64) % 64), 128 + (c32 % 64)>>
  ELSE IF c32 <= 1114111 THEN <<240 + c32 \div 262144, 128 + ((c32 \div 4096) % 64),
                                128 + ((c32 \div 64) % 64), 128 + (c32 % 64)>>
  ELSE <<>>

\* The code point that the bytes from c8 on begin with.  As many bytes are
\* read as the first one asks for.
c8toc32(c8) ==
  IF c8[1] <= 127 THEN c8[1]
  ELSE IF 194 <= c8[1] /\ c8[1] <= 223 THEN (c8[1] % 32) * 64 + (c8[2] % 64)
  ELSE IF 224 <= c8[1] /\ c8[1] <= 239
    THEN (c8[1] % 16) * 4096 + (c8[2] % 64) * 64 + (c8[3] % 64)
  ELSE (c8[1] % 8) * 262144 + (c8[2] % 64) * 4096 + (c8[3] % 64) * 64 + (c8[4] % 64)

-----------------------------------------------------------------------------
(* What the conversions are meant to be.                                   *)

\* Code units that are one half of a pair.
IsHigh(c16) == 55296 <= c16 /\ c16 <= 56319
IsLow(c16) == 56320 <= c16 /\ c16 <= 57343

Continuation == 128 .. 191

\* The bytes s are the encoding of code point c: RFC 3629, section 3.
IsUtf8(s, c) ==
  \/ /\ Len(s) = 1 /\ 0 <= c /\ c <= 127
     /\ s[1] = c
  \/ /\ Len(s) = 2 /\ 127 < c /\ c <= 2047
     /\ s[2] \in Continuation
     /\ c = (s[1] - 192) * 64 + (s[2] - 128)
  \/ /\ Len(s) = 3 /\ 2047 < c /\ c <= 65535
     /\ s[2] \in Continuation /\ s[3] \in Continuation
     /\ c = (s[1] - 224) * 4096 + (s[2] - 128) * 64 + (s[3] - 128)
  \/ /\ Len(s) = 4 /\ 65535 < c /\ c <= 1114111
     /\ s[2] \in Continuation /\ s[3] \in Continuation /\ s[4] \in Continuation
     /\ c = (s[1] - 240) * 262144 + (s[2] - 128) * 4096 + (s[3] - 128) * 64 + (s[4] - 128)
=============================================================================
