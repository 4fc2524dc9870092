-------------------------- MODULE ParseStringProofs --------------------------
(***************************************************************************)
(* Theorems about the conversions of utf.c, for every code point, and      *)
(* about parse_string and the buffer it fills, for every text, every       *)
(* initial capacity and every failure of memory.                           *)
(***************************************************************************)
EXTENDS ParseString, SequenceTheorems, WellFoundedInduction, TLAPS

-----------------------------------------------------------------------------
(* The conversions of utf.c, for every code point.                        *)

\* (EncodingIsUtf8) c32toc8 writes the UTF-8 encoding of every code point
\* (src/src/utf.c:47), surrogates included, as RFC 3629 lays the bits out.
THEOREM EncodingIsUtf8 ==
  ASSUME NEW c \in CodePoint
  PROVE  IsUtf8(c32toc8(c), c)
<1>1. CASE c <= 127
  BY SMT, <1>1 DEF CodePoint, c32toc8, IsUtf8
<1>2. CASE 127 < c /\ c <= 2047
  BY SMT, <1>2 DEF CodePoint, c32toc8, IsUtf8, Continuation
<1>3. CASE 2047 < c /\ c <= 65535
  BY SMT, <1>3 DEF CodePoint, c32toc8, IsUtf8, Continuation
<1>4. CASE 65535 < c
  BY SMT, <1>4 DEF CodePoint, c32toc8, IsUtf8, Continuation
<1> QED BY SMT, <1>1, <1>2, <1>3, <1>4 DEF CodePoint

\* (DecodingInvertsEncoding) c8toc32 reads back every code point that c32toc8
\* has written (src/src/utf.c:75).
THEOREM DecodingInvertsEncoding ==
  ASSUME NEW c \in CodePoint
  PROVE  c8toc32(c32toc8(c)) = c
<1>1. CASE c <= 127
  BY SMT, <1>1 DEF CodePoint, c32toc8, c8toc32
<1>2. CASE 127 < c /\ c <= 2047
  BY SMT, <1>2 DEF CodePoint, c32toc8, c8toc32
<1>3. CASE 2047 < c /\ c <= 65535
  BY SMT, <1>3 DEF CodePoint, c32toc8, c8toc32
<1>4. CASE 65535 < c
  BY SMT, <1>4 DEF CodePoint, c32toc8, c8toc32
<1> QED BY SMT, <1>1, <1>2, <1>3, <1>4 DEF CodePoint

\* (LeadTellsLength) c8len tells from the first byte that c32toc8 has written how
\* many there are (src/src/utf.c:25).
THEOREM LeadTellsLength ==
  ASSUME NEW c \in CodePoint
  PROVE  c8len(c32toc8(c)[1]) = Len(c32toc8(c))
<1>1. CASE c <= 127
  BY SMT, <1>1 DEF CodePoint, c32toc8, c8len
<1>2. CASE 127 < c /\ c <= 2047
  BY SMT, <1>2 DEF CodePoint, c32toc8, c8len
<1>3. CASE 2047 < c /\ c <= 65535
  BY SMT, <1>3 DEF CodePoint, c32toc8, c8len
<1>4. CASE 65535 < c
  BY SMT, <1>4 DEF CodePoint, c32toc8, c8len
<1> QED BY SMT, <1>1, <1>2, <1>3, <1>4 DEF CodePoint

\* (PairInvertsSplit) A code point above the basic plane is split by
\* c32toc16be into a pair that c16type recognises, and c16pairtoc32 joins the
\* pair to the same code point (src/src/utf.c:93, 97).
THEOREM PairInvertsSplit ==
  ASSUME NEW c \in CodePoint, 65535 < c
  PROVE  LET u == c32toc16be(c)
         IN  /\ IsHigh(u[1]) /\ IsLow(u[2])
             /\ c16type(u[1]) = "high" /\ c16type(u[2]) = "low"
             /\ c16pairtoc32(u[1], u[2]) = c
<1> DEFINE h == 55296 + (c - 65536) \div 1024
           l == 56320 + ((c - 65536) % 1024)
<1>1. c32toc16be(c) = <<h, l>>
  BY SMT DEF CodePoint, c32toc16be
<1>2. h \in Nat /\ l \in Nat /\ IsHigh(h) /\ IsLow(l)
  BY SMT DEF CodePoint, IsHigh, IsLow
<1>3. c16type(h) = "high" /\ c16type(l) = "low"
  BY SMT, <1>2 DEF IsHigh, IsLow, c16type, AnyBitOfD800, Bit400
<1>4. c16pairtoc32(h, l) = c
  BY SMT DEF CodePoint, c16pairtoc32
<1> QED BY SMT, <1>1, <1>2, <1>3, <1>4

\* (MaskTakesTooMuch) Which code units c16type takes for no surrogate
\* (src/src/utf.c:15): not all that are none, as the mask 0xD800 asks for any
\* of its bits and not for all five leading ones, but only two small ranges.
THEOREM MaskTakesTooMuch ==
  ASSUME NEW u \in Char16
  PROVE  /\ c16type(u) = "not" <=> (u <= 2047 \/ (8192 <= u /\ u <= 10239))
         /\ IsHigh(u) => c16type(u) = "high"
         /\ IsLow(u) => c16type(u) = "low"
<1>1. c16type(u) = "not" <=> ~AnyBitOfD800(u)
  BY SMT DEF c16type
<1>2. ~AnyBitOfD800(u) <=> (u <= 2047 \/ (8192 <= u /\ u <= 10239))
  BY SMT DEF Char16, AnyBitOfD800
<1>3. IsHigh(u) => c16type(u) = "high"
  BY SMT DEF Char16, IsHigh, c16type, AnyBitOfD800, Bit400
<1>4. IsLow(u) => c16type(u) = "low"
  BY SMT DEF Char16, IsLow, c16type, AnyBitOfD800, Bit400
<1> QED BY SMT, <1>1, <1>2, <1>3, <1>4

-----------------------------------------------------------------------------
(* What parse_string makes of the conversions.                            *)

LEMMA EncodingIsBytes ==
  ASSUME NEW c \in CodePoint
  PROVE  c32toc8(c) \in Seq(Nat) /\ c32toc8(c) # <<>>
<1>1. CASE c <= 127
  BY SMT, <1>1 DEF CodePoint, c32toc8
<1>2. CASE 127 < c /\ c <= 2047
  BY SMT, <1>2 DEF CodePoint, c32toc8
<1>3. CASE 2047 < c /\ c <= 65535
  BY SMT, <1>3 DEF CodePoint, c32toc8
<1>4. CASE 65535 < c
  BY SMT, <1>4 DEF CodePoint, c32toc8
<1> QED BY SMT, <1>1, <1>2, <1>3, <1>4 DEF CodePoint

LEMMA PairIsCodePoint ==
  ASSUME NEW h \in Nat, NEW l \in Nat
  PROVE  c16pairtoc32(h, l) \in CodePoint
BY SMT DEF CodePoint, c16pairtoc32

LEMMA UnitIsCodePoint ==
  ASSUME NEW c \in Char16
  PROVE  c \in CodePoint /\ c \in Nat
BY SMT DEF CodePoint, Char16

-----------------------------------------------------------------------------
(* The inductive invariant.                                                *)

\* The buffer is never fuller than `capacity` says.
Filled == size <= capacity

ToAppend == pc = "append" => pending # <<>>

IInv == TypeOK /\ ToAppend /\ Filled /\ InsideBlock

LEMMA UpcomingType ==
  ASSUME TypeOK, NEW e \in Upcoming
  PROVE  e \in Element \cup {Quote, End} /\ e.code \in Nat
<1>1. e \in Element \cup {Quote, End}
  BY SMT DEF Upcoming, TypeOK
<1>2. e \in Element => e.code \in Nat
  BY SMT, ElementAssumption DEF Char16
<1>3. e \in {Quote, End} => e.code \in Nat
  BY SMT DEF Quote, End
<1> QED BY <1>1, <1>2, <1>3

\* What string_append leaves behind.
LEMMA AppendByteKeeps ==
  ASSUME TypeOK, Filled, InsideBlock, pc # "returned", NEW b \in Nat, AppendByte(b)
  PROVE  /\ capacity' \in Nat /\ block' \in Nat /\ lost' \in Nat
         /\ bytes' \in Seq(Nat) /\ hash' \in Seq(Nat)
         /\ error' \in {"none", "syntax", "oom"}
         /\ size' = size + 1 /\ size' <= capacity'
         /\ block' # 0 /\ capacity' <= block'
<1>1. Contents \in Seq(Nat) /\ Len(Contents) = size
  BY SMT DEF TypeOK, Contents, size, Garbage
<1>2. bytes' \in Seq(Nat) /\ size' = size + 1
  BY SMT, <1>1 DEF AppendByte, size
<1>3. CASE Fits
  BY SMT, <1>2, <1>3 DEF AppendByte, TypeOK, Filled, InsideBlock, Fits, size
<1>4. CASE ~Fits
  <2>1. NewCapacity \in Nat /\ NewCapacity > 0 /\ size + 1 <= NewCapacity
    BY SMT, <1>4, StringBoundsAssumption DEF NewCapacity, Filled, TypeOK, size
  <2> QED BY SMT, <1>2, <1>4, <2>1 DEF AppendByte, TypeOK, size
<1> QED BY <1>3, <1>4

LEMMA NoRoomKeeps ==
  ASSUME TypeOK, Filled, NoRoom
  PROVE  /\ capacity' \in Nat /\ block' \in Nat /\ lost' \in Nat
         /\ bytes' \in Seq(Nat) /\ hash' \in Seq(Nat)
         /\ error' \in {"none", "syntax", "oom"}
         /\ size' <= capacity'
         /\ block' = 0 /\ ~Fits'
BY SMT DEF NoRoom, TypeOK, Filled, Fits, size

\* Both outcomes of a call of string_append, whatever the step does besides.
LEMMA BufferKept ==
  ASSUME IInv, pc # "returned", NEW b \in Nat, AppendByte(b) \/ NoRoom
  PROVE  /\ capacity' \in Nat /\ block' \in Nat /\ lost' \in Nat
         /\ bytes' \in Seq(Nat) /\ hash' \in Seq(Nat)
         /\ error' \in {"none", "syntax", "oom"}
         /\ Filled' /\ InsideBlock'
<1>1. CASE AppendByte(b)
  <2>1. block' # 0 /\ capacity' <= block' /\ size' <= capacity'
    BY <1>1, AppendByteKeeps DEF IInv
  <2>2. capacity' \in Nat /\ block' \in Nat /\ bytes' \in Seq(Nat)
    BY <1>1, AppendByteKeeps DEF IInv
  <2>3. size' <= block'
    BY SMT, <2>1, <2>2 DEF size
  <2> QED BY <1>1, <2>1, <2>2, <2>3, AppendByteKeeps DEF IInv, Filled, InsideBlock
<1>2. CASE NoRoom
  BY SMT, <1>2, NoRoomKeeps DEF IInv, Filled, InsideBlock
<1> QED BY <1>1, <1>2

LEMMA BufferUntouched ==
  ASSUME IInv, UNCHANGED string, pc' = "returned" => pc # "returned"
  PROVE  /\ capacity' \in Nat /\ block' \in Nat /\ bytes' \in Seq(Nat) /\ hash' \in Seq(Nat)
         /\ Filled' /\ (pc # "returned" => InsideBlock')
BY SMT DEF IInv, TypeOK, string, Filled, InsideBlock, Fits, size

LEMMA ConsumeKeeps ==
  ASSUME TypeOK, NEW e, Consume(e)
  PROVE  /\ read' \in Seq(Element \cup {Quote, End})
         /\ ahead' \in Element \cup {Quote, End, Unread}
BY SMT, UpcomingType DEF Consume, TypeOK

\* Both outcomes of append_unicode_code_point, as far as c32toc8.
LEMMA UnicodeKeeps ==
  ASSUME TypeOK, NEW p, Unicode(p)
  PROVE  /\ pending' \in Seq(Nat) /\ high' \in Nat /\ ok' \in BOOLEAN
         /\ error' \in {"none", "syntax", "oom"}
         /\ pc' \in {"append", "returned"} /\ (pc' = "append" => pending' # <<>>)
<1>1. CASE p \in CodePoint
  BY <1>1, EncodingIsBytes DEF Unicode, NoHigh, TypeOK
<1>2. CASE p \notin CodePoint
  BY <1>2 DEF Unicode, NoHigh, TypeOK, Errorf, Return
<1> QED BY <1>1, <1>2

-----------------------------------------------------------------------------
LEMMA InitIInv == Init => IInv
<1> SUFFICES ASSUME Init PROVE IInv
  OBVIOUS
<1>1. size = 0
  BY SMT DEF Init, size
<1>2. ToAppend /\ Filled /\ InsideBlock
  BY SMT, <1>1 DEF Init, ToAppend, Filled, InsideBlock, Fits
<1>3. ok \in BOOLEAN
  BY DEF Init
<1>4. TypeOK
  BY SMT, <1>3 DEF Init, TypeOK, NoHigh
<1> QED BY <1>2, <1>4 DEF IInv

LEMMA CharKeeps == IInv /\ Char => IInv'
<1> SUFFICES ASSUME IInv, Char PROVE IInv'
  OBVIOUS
<1> USE DEF Char
<1>1. PICK e \in Upcoming : Consume(e) /\ (AppendByte(e.code) \/ NoRoom)
  BY DEF Char
<1>2. e.code \in Nat
  BY <1>1, UpcomingType DEF IInv
<1>3. Filled' /\ InsideBlock' /\ TypeOK'
  BY SMT, <1>1, <1>2, BufferKept, ConsumeKeeps DEF IInv, TypeOK
<1> QED BY SMT, <1>3 DEF IInv, ToAppend

LEMMA EscapeKeeps == IInv /\ Escape => IInv'
<1> SUFFICES ASSUME IInv, Escape PROVE IInv'
  OBVIOUS
<1>1. PICK e \in Upcoming : /\ Consume(e)
                            /\ \/ AppendByte(e.code) /\ UNCHANGED <<pc, ok>>
                               \/ NoRoom /\ Return(FALSE)
  BY DEF Escape
<1>2. e.code \in Nat
  BY <1>1, UpcomingType DEF IInv
<1>3. ok' \in BOOLEAN /\ pc' \in {"loop", "returned"}
  BY <1>1 DEF IInv, TypeOK, Escape, Return
<1>a. (AppendByte(e.code) \/ NoRoom) /\ Consume(e) /\ pc # "returned" /\ UNCHANGED <<high, pending>>
  BY <1>1 DEF Escape
<1>4. Filled' /\ InsideBlock' /\ TypeOK'
  BY SMT, <1>2, <1>3, <1>a, BufferKept, ConsumeKeeps DEF IInv, TypeOK
<1> QED BY SMT, <1>3, <1>4 DEF IInv, ToAppend

LEMMA HexKeeps == IInv /\ Hex => IInv'
<1> SUFFICES ASSUME IInv, Hex PROVE IInv'
  OBVIOUS
<1>1. PICK e \in Upcoming :
        /\ Consume(e)
        /\ IF c16type(e.code) # "high" THEN Unicode(e.code)
           ELSE high' = e.code /\ pc' = "pair" /\ UNCHANGED <<pending, error, ok>>
  BY DEF Hex
<1>2. e.code \in Nat
  BY <1>1, UpcomingType DEF IInv
<1>3. /\ pc' \in {"pair", "append", "returned"} /\ high' \in Nat /\ pending' \in Seq(Nat)
      /\ error' \in {"none", "syntax", "oom"} /\ ok' \in BOOLEAN
      /\ ToAppend'
  <2>1. CASE c16type(e.code) # "high"
    BY <1>1, <2>1, UnicodeKeeps DEF IInv, ToAppend
  <2>2. CASE c16type(e.code) = "high"
    BY <1>1, <1>2, <2>2 DEF IInv, TypeOK, ToAppend
  <2> QED BY <2>1, <2>2
<1>4. UNCHANGED <<string, lost>> /\ pc # "returned" /\ Consume(e)
  BY <1>1 DEF Hex
<1>5. Filled' /\ InsideBlock' /\ TypeOK'
  BY SMT, <1>3, <1>4, BufferUntouched, ConsumeKeeps DEF IInv, TypeOK
<1> QED BY <1>3, <1>5 DEF IInv

LEMMA PairKeeps == IInv /\ Pair => IInv'
<1> SUFFICES ASSUME IInv, Pair PROVE IInv'
  OBVIOUS
<1>1. PICK e \in Upcoming : Consume(e) /\ Unicode(c16pairtoc32(high, e.code))
  BY DEF Pair
<1>2. UNCHANGED <<string, lost>> /\ pc # "returned"
  BY DEF Pair
<1>3. ToAppend'
  BY <1>1, UnicodeKeeps DEF IInv, ToAppend
<1>4. Filled' /\ InsideBlock' /\ TypeOK'
  BY SMT, <1>1, <1>2, UnicodeKeeps, BufferUntouched, ConsumeKeeps DEF IInv, TypeOK
<1> QED BY <1>3, <1>4 DEF IInv

LEMMA NoPairKeeps == IInv /\ NoPair => IInv'
<1> SUFFICES ASSUME IInv, NoPair PROVE IInv'
  OBVIOUS
<1>1. ahead' \in Element \cup {Quote, End, Unread}
  BY SMT, UpcomingType DEF NoPair, IInv
<1>2. Unicode(high) /\ UNCHANGED <<read, string, lost>> /\ pc # "returned"
  BY DEF NoPair
<1>3. ToAppend'
  BY <1>2, UnicodeKeeps DEF IInv, ToAppend
<1>4. Filled' /\ InsideBlock' /\ TypeOK'
  BY SMT, <1>1, <1>2, UnicodeKeeps, BufferUntouched DEF IInv, TypeOK
<1> QED BY <1>3, <1>4 DEF IInv

LEMMA UnitKeeps == IInv /\ Unit => IInv'
<1> SUFFICES ASSUME IInv, Unit PROVE IInv'
  OBVIOUS
<1>1. pending # <<>> /\ pending \in Seq(Nat) /\ pc = "append"
  BY DEF IInv, ToAppend, Unit, TypeOK
<1>2. Head(pending) \in Nat /\ Tail(pending) \in Seq(Nat)
  BY <1>1, HeadTailProperties
<1>a. Len(pending) # 1 => Tail(pending) # <<>>
  <2>1. Len(pending) \in Nat \ {0}
    BY SMT, <1>1
  <2>2. Len(Tail(pending)) = Len(pending) - 1
    BY <1>1, HeadTailProperties
  <2> QED BY SMT, <2>1, <2>2
<1>b. pending' \in Seq(Nat) /\ UNCHANGED <<read, ahead, high>>
  BY <1>1, <1>2 DEF Unit, text
<1>3. AppendByte(Head(pending)) \/ NoRoom
  BY DEF Unit
<1>4. ok' \in BOOLEAN /\ pc' \in {"loop", "append", "returned"}
  BY <1>1 DEF IInv, TypeOK, Unit, Return
<1>5. Filled' /\ InsideBlock' /\ TypeOK'
  BY SMT, <1>1, <1>2, <1>3, <1>4, <1>b, BufferKept DEF IInv, TypeOK
<1> QED BY SMT, <1>1, <1>a, <1>4, <1>5 DEF IInv, ToAppend, Unit, Return

LEMMA RefuseKeeps == IInv /\ Refuse => IInv'
<1> SUFFICES ASSUME IInv, Refuse PROVE IInv'
  OBVIOUS
<1>1. pc # "returned" /\ \E e \in Upcoming : Consume(e)
  BY SMT DEF Refuse
<1>2. error' \in {"none", "syntax", "oom"}
  BY SMT DEF Refuse, Errorf
<1>a. ok' \in BOOLEAN
  BY DEF Refuse, Return
<1>3. Filled' /\ InsideBlock' /\ TypeOK'
  BY SMT, <1>1, <1>2, <1>a, BufferUntouched, ConsumeKeeps DEF IInv, TypeOK, Refuse, Return
<1> QED BY SMT, <1>3 DEF IInv, ToAppend, Refuse, Return

LEMMA CloseKeeps == IInv /\ Close => IInv'
<1> SUFFICES ASSUME IInv, Close PROVE IInv'
  OBVIOUS
<1>1. AppendByte(0) \/ NoRoom
  BY DEF Close
<1>2. ok' \in BOOLEAN /\ pc' \in {"shrink", "returned"}
  BY DEF IInv, TypeOK, Close, Return
<1>3. Filled' /\ InsideBlock' /\ TypeOK'
  BY SMT, <1>1, <1>2, BufferKept, ConsumeKeeps DEF IInv, TypeOK, Close
<1> QED BY SMT, <1>2, <1>3 DEF IInv, ToAppend

LEMMA ShrinkKeeps == IInv /\ Shrink => IInv'
<1> SUFFICES ASSUME IInv, Shrink PROVE IInv'
  OBVIOUS
<1>1. ok' \in BOOLEAN /\ pc' = "returned"
  BY DEF Shrink, Return
<1>2. /\ UNCHANGED <<read, ahead, high, pending, capacity, bytes, hash, lost>>
      /\ block' = size \/ block' = block
      /\ error' \in {error, "oom"}
  BY DEF Shrink, text
<1>3. Filled' /\ InsideBlock' /\ block' \in Nat
  BY SMT, <1>1, <1>2 DEF IInv, TypeOK, Filled, InsideBlock, size
<1>4. TypeOK'
  BY SMT, <1>1, <1>2, <1>3 DEF IInv, TypeOK
<1> QED BY SMT, <1>1, <1>3, <1>4 DEF IInv, ToAppend

LEMMA StepIInv == IInv /\ [Next]_vars => IInv'
<1>1. IInv /\ UNCHANGED vars => IInv'
  BY SMT DEF IInv, TypeOK, ToAppend, Filled, InsideBlock, Fits, size, vars, text, string
<1> QED BY <1>1, CharKeeps, EscapeKeeps, HexKeeps, PairKeeps, NoPairKeeps, UnitKeeps,
           RefuseKeeps, CloseKeeps, ShrinkKeeps DEF Next

\* (NeverOutsideTheBlock) string_append writes inside the block that
\* string->data points to, after any number of failing reallocations too
\* (src/src/string.c:74-99).
THEOREM NeverOutsideTheBlock == Spec => []InsideBlock
<1>1. IInv => InsideBlock
  BY DEF IInv
<1> QED BY InitIInv, StepIInv, <1>1, PTL DEF Spec

-----------------------------------------------------------------------------
(* The hash.  As long as no allocation failed it is that of the bytes in   *)
(* the string, and a string that is returned ends with its null character. *)

Whole == (pc = "returned" => ok) /\ error = "none"
Hashed == Whole => hash = bytes /\ (block = 0 => bytes = <<>>)
Ended == pc = "shrink" \/ (pc = "returned" /\ ok) => bytes # <<>> /\ bytes[Len(bytes)] = 0
HInv == Hashed /\ Ended

LEMMA AppendByteHashes ==
  ASSUME IInv, HInv, pc # "returned", NEW b \in Nat, AppendByte(b)
  PROVE  /\ error' = "none" => hash' = bytes' /\ (block' = 0 => bytes' = <<>>)
         /\ bytes' # <<>> /\ bytes'[Len(bytes')] = b
<1>1. block' # 0
  BY AppendByteKeeps DEF IInv
<1>2. Contents \in Seq(Nat)
  BY SMT DEF IInv, TypeOK, Contents, size, Garbage
<1>3. bytes' # <<>> /\ bytes'[Len(bytes')] = b
  BY SMT, <1>2 DEF AppendByte
<1>4. error' = "none" => hash' = bytes'
  <2> SUFFICES ASSUME error' = "none" PROVE hash' = bytes'
    OBVIOUS
  <2>1. hash = bytes /\ (block = 0 => bytes = <<>>)
    BY DEF HInv, Hashed, Whole, AppendByte
  <2>2. Contents = bytes
    <3>1. CASE block = 0
      <4>1. Len(Contents) = 0
        BY SMT, <2>1, <3>1 DEF Contents, size
      <4> QED BY <1>2, <2>1, <3>1, <4>1, EmptySeq
    <3> QED BY <3>1 DEF Contents
  <2> QED BY <2>1, <2>2 DEF AppendByte
<1> QED BY <1>1, <1>3, <1>4

\* A step after which parse_string goes on, or has failed, with one call of
\* string_append in it.
LEMMA AppendStepHashes ==
  ASSUME IInv, HInv, pc # "returned", NEW b \in Nat, AppendByte(b) \/ NoRoom,
         pc' = "shrink" => AppendByte(b) /\ b = 0,
         pc' = "returned" => ~ok'
  PROVE  HInv'
<1>1. CASE AppendByte(b)
  <2>1. Hashed'
    BY <1>1, AppendByteHashes DEF Hashed, Whole
  <2>2. Ended'
    BY <1>1, AppendByteHashes DEF Ended
  <2> QED BY <2>1, <2>2 DEF HInv
<1>2. CASE NoRoom
  <2>1. error' # "none" /\ UNCHANGED bytes
    BY <1>2 DEF NoRoom
  <2>2. Hashed'
    BY <2>1 DEF Hashed, Whole
  <2>3. ~(pc' = "shrink") \/ (AppendByte(b) /\ b = 0)
    OBVIOUS
  <2>4. Ended'
    BY <2>3, AppendByteHashes DEF Ended
  <2> QED BY <2>2, <2>4 DEF HInv
<1> QED BY <1>1, <1>2

LEMMA StepHInv == IInv /\ HInv /\ [Next]_vars => HInv'
<1> SUFFICES ASSUME IInv, HInv, [Next]_vars PROVE HInv'
  OBVIOUS
<1>1. CASE Char
  <2>1. PICK e \in Upcoming : AppendByte(e.code) \/ NoRoom
    BY <1>1 DEF Char
  <2>2. e.code \in Nat
    BY UpcomingType DEF IInv
  <2>3. pc = "loop" /\ pc' = "loop"
    BY <1>1 DEF Char
  <2> QED BY <2>1, <2>2, <2>3, AppendStepHashes
<1>2. CASE Escape
  <2>1. PICK e \in Upcoming : \/ AppendByte(e.code) /\ UNCHANGED <<pc, ok>>
                              \/ NoRoom /\ Return(FALSE)
    BY <1>2 DEF Escape
  <2>2. e.code \in Nat
    BY UpcomingType DEF IInv
  <2>3. pc = "loop" /\ pc' \in {"loop", "returned"} /\ (pc' = "returned" => ~ok')
    BY <1>2, <2>1 DEF Escape, Return
  <2> QED BY <2>1, <2>2, <2>3, AppendStepHashes
<1>3. CASE Hex \/ Pair \/ NoPair
  <2>1. /\ UNCHANGED string /\ pc # "returned"
        /\ \/ UNCHANGED <<error, ok>> /\ pc' \in {"pair", "append"}
           \/ pc' = "returned" /\ ok' = FALSE
    BY <1>3 DEF Hex, Pair, NoPair, Unicode, Return
  <2> QED BY <2>1 DEF string, HInv, Hashed, Whole, Ended
<1>4. CASE Unit
  <2>1. pending # <<>> /\ pending \in Seq(Nat) /\ pc = "append"
    BY <1>4 DEF IInv, ToAppend, Unit, TypeOK
  <2>2. Head(pending) \in Nat
    BY <2>1, HeadTailProperties
  <2>3. AppendByte(Head(pending)) \/ NoRoom
    BY <1>4 DEF Unit
  <2>4. pc' \in {"loop", "append", "returned"} /\ (pc' = "returned" => ~ok')
    BY <1>4, <2>1 DEF Unit, Return
  <2> QED BY <2>1, <2>2, <2>3, <2>4, AppendStepHashes
<1>5. CASE Refuse
  BY <1>5 DEF Refuse, Return, string, HInv, Hashed, Whole, Ended
<1>6. CASE Close
  <2>1. \/ AppendByte(0) /\ pc' = "shrink"
        \/ NoRoom /\ pc' = "returned" /\ ~ok'
    BY <1>6 DEF Close, Return
  <2>2. pc = "loop"
    BY <1>6 DEF Close
  <2> QED BY <2>1, <2>2, AppendStepHashes
<1>7. CASE Shrink
  <2>1. /\ pc = "shrink" /\ pc' = "returned" /\ UNCHANGED <<bytes, hash>>
        /\ ok' => UNCHANGED error /\ block' = size
    BY <1>7 DEF Shrink, Return
  <2>2. bytes # <<>> /\ bytes[Len(bytes)] = 0
    BY <2>1 DEF HInv, Ended
  <2>3. size # 0
    BY <2>2, EmptySeq DEF size, IInv, TypeOK
  <2>4. Hashed'
    BY <2>1, <2>3 DEF HInv, Hashed, Whole
  <2>5. Ended'
    BY <2>1, <2>2 DEF Ended
  <2> QED BY <2>4, <2>5 DEF HInv
<1>8. CASE UNCHANGED vars
  <2>1. UNCHANGED <<pc, ok, error, block, bytes, hash>>
    BY <1>8 DEF vars, string
  <2> QED BY <2>1 DEF HInv, Hashed, Whole, Ended
<1> QED BY <1>1, <1>2, <1>3, <1>4, <1>5, <1>6, <1>7, <1>8 DEF Next

\* Text whose only null character is the last is hashed to its end.
LEMMA HashOfText ==
  ASSUME NEW s \in Seq(Nat), s # <<>>, s[Len(s)] = 0,
         \A n \in 1 .. Len(s) - 1 : s[n] # 0
  PROVE  StringHash(s) = s
<1>1. Len(s) \in Nat \ {0} /\ DOMAIN s = 1 .. Len(s)
  BY SMT
<1>2. {n \in DOMAIN s : s[n] = 0} = {Len(s)}
  BY SMT, <1>1
<1>3. (CHOOSE n \in {Len(s)} : \A m \in {Len(s)} : n <= m) = Len(s)
  BY SMT, <1>1
<1>4. SubSeq(s, 1, Len(s)) = s
  BY SMT, <1>1
<1> QED BY <1>2, <1>3, <1>4 DEF StringHash

\* (KeysAreFound) A string that was parsed without a failing allocation and has
\* no null character inside carries the hash that a lookup computes of its
\* text, byte by byte on the way or at once (src/src/string.c:91, 114).
THEOREM KeysAreFound == Spec => []HashFindsKey
<1>1. Init => HInv
  BY SMT DEF Init, HInv, Hashed, Whole, Ended
<1>2. IInv /\ HInv => HashFindsKey
  <2> SUFFICES ASSUME IInv, HInv, pc = "returned", ok, error = "none",
                      \A n \in 1 .. size - 1 : bytes[n] # 0
               PROVE  hash = StringHash(bytes)
    BY DEF HashFindsKey
  <2>1. hash = bytes /\ bytes # <<>> /\ bytes[Len(bytes)] = 0
    BY DEF HInv, Hashed, Whole, Ended
  <2> QED BY <2>1, HashOfText DEF size, IInv, TypeOK
<1> QED BY InitIInv, StepIInv, <1>1, StepHInv, <1>2, PTL DEF Spec

-----------------------------------------------------------------------------
(* The outcomes that the descent reckons with.                             *)

Refused == {"bad", "badhex", "end"}
Clean == \A n \in DOMAIN read : ~IllFormed(read, n)

\* A first half waits for the second, and what follows one that does not was
\* looked at.
TakenForLow(e) == e.kind = "u" /\ c16type(e.code) = "low"
Waits ==
  /\ pc = "pair" => Half(read, Len(read), "high") /\ high = read[Len(read)].code
  /\ pc \in {"loop", "append"} /\ Half(read, Len(read), "high") => ahead # Unread /\ ~TakenForLow(ahead)

\* An allocation that failed has set the error; nothing else is lost.
Losses == lost \in 0 .. MaxLost /\ (lost # 0 => MemoryFails)
Accounted == /\ error = "none" \/ (error = "oom" /\ MemoryFails)
             /\ error = "none" => lost = 0

\* Of a text that goes on only the first half that waits may yet be ill-formed.
Going == pc # "returned" =>
           /\ Accounted
           /\ \A n \in DOMAIN read : IllFormed(read, n) => pc = "pair" /\ n = Len(read)
Closed == pc = "shrink" => read # <<>> /\ block # 0
Done == pc = "returned" /\ ok => Clean /\ Accounted /\ read # <<>> /\ block # 0
Failed == pc = "returned" /\ ~ok =>
            \/ MemoryFails /\ error = "oom"
            \/ ~Clean /\ error \in IF MemoryFails THEN {"syntax", "none"} ELSE {"syntax"}
OInv == Waits /\ Losses /\ Going /\ Closed /\ Done /\ Failed

LEMMA GoingClean ==
  ASSUME OInv, pc \notin {"pair", "returned"}
  PROVE  Clean
BY DEF OInv, Going, Clean

\* What an element more changes: the last one may find its second half in it.
LEMMA FormsOfAppend ==
  ASSUME NEW S, NEW r \in Seq(S), NEW e \in S
  PROVE  LET n == Len(r)
             s == Append(r, e)
         IN  /\ n \in Nat /\ DOMAIN r = 1 .. n /\ s # <<>> /\ Len(s) = n + 1
             /\ DOMAIN s = (1 .. n) \cup {n + 1} /\ s[n + 1] = e
             /\ \A m \in 1 .. n : IllFormed(s, m) => IllFormed(r, m)
             /\ \A t : Half(s, n + 1, t) <=> e.kind = "u" /\ c16type(e.code) = t
             /\ IllFormed(s, n + 1) <=>
                  \/ e.kind \in Refused
                  \/ /\ e.kind = "u" /\ e.code \notin CodePoint
                     /\ ~(Half(r, n, "high") /\ TakenForLow(e))
             /\ Half(r, n, "high") /\ TakenForLow(e) => ~IllFormed(s, n)
<1> DEFINE n == Len(r)
           s == Append(r, e)
<1>1. /\ Len(s) = n + 1 /\ s # <<>>
      /\ DOMAIN s = 1 .. n + 1 /\ DOMAIN r = 1 .. n
      /\ s[n + 1] = e /\ n \in Nat
      /\ \A m \in 1 .. n : s[m] = r[m]
  BY SMT
<1> HIDE DEF n, s
<1>2. /\ DOMAIN s = (1 .. n) \cup {n + 1}
      /\ (n + 1) - 1 = n /\ (n + 1) + 1 \notin DOMAIN s
  BY <1>1
<1>3. ASSUME NEW m \in 1 .. n, NEW t PROVE Half(s, m, t) <=> Half(r, m, t)
  <2>1. m \in DOMAIN s /\ m \in DOMAIN r /\ s[m] = r[m]
    BY <1>1, <1>2
  <2> QED BY <2>1 DEF Half
<1>4. ASSUME NEW t PROVE Half(s, n + 1, t) <=> e.kind = "u" /\ c16type(e.code) = t
  <2>1. n + 1 \in DOMAIN s /\ s[n + 1] = e
    BY <1>1, <1>2
  <2> QED BY <2>1 DEF Half
<1>5. ASSUME NEW m, NEW t, Half(r, m, t) PROVE Half(s, m, t)
  <2>1. m \in 1 .. n
    BY <1>1, <1>5 DEF Half
  <2> QED BY <2>1, <1>3, <1>5
<1>6. ASSUME NEW m \in 1 .. n, IllFormed(s, m) PROVE IllFormed(r, m)
  <2>1. Joins(r, m) => Joins(s, m)
    BY <1>5 DEF Joins
  <2>2. Joins(r, m - 1) => Joins(s, m - 1)
    BY <1>5 DEF Joins
  <2>3. s[m] = r[m]
    BY <1>1
  <2> QED BY <2>1, <2>2, <2>3, <1>6 DEF IllFormed
<1>7. Half(s, n, "high") <=> Half(r, n, "high")
  <2>1. CASE n \in 1 .. n
    BY <1>3, <2>1
  <2>2. CASE n \notin 1 .. n
    <3>1. n \notin DOMAIN r /\ n \notin DOMAIN s
      BY <1>1, <2>2
    <3> QED BY <3>1 DEF Half
  <2> QED BY <2>1, <2>2
<1>8. Joins(s, n) <=> Half(r, n, "high") /\ TakenForLow(e)
  BY <1>4, <1>7 DEF Joins, TakenForLow
<1>9. ~Joins(s, n + 1)
  BY <1>2 DEF Joins, Half
<1>10. IllFormed(s, n + 1) <=>
         \/ e.kind \in Refused
         \/ /\ e.kind = "u" /\ e.code \notin CodePoint
            /\ ~(Half(r, n, "high") /\ TakenForLow(e))
  <2>1. s[n + 1] = e /\ (n + 1) - 1 = n
    BY <1>1, <1>2
  <2> QED BY Zenon, <2>1, <1>8, <1>9 DEF IllFormed, Refused
<1>11. ASSUME Half(r, n, "high"), TakenForLow(e) PROVE ~IllFormed(s, n)
  <2>1. s[n] = r[n] /\ r[n].kind = "u"
    BY <1>1, <1>11 DEF Half
  <2>2. Joins(s, n)
    BY <1>8, <1>11
  <2> QED BY Zenon, <2>1, <2>2 DEF IllFormed
<1> QED BY <1>1, <1>2, <1>4, <1>6, <1>10, <1>11 DEF n, s

LEMMA ConsumeForms ==
  ASSUME TypeOK, NEW e, Consume(e)
  PROVE  LET n == Len(read)
         IN  /\ n \in Nat /\ DOMAIN read = 1 .. n /\ read' # <<>> /\ Len(read') = n + 1
             /\ DOMAIN read' = (1 .. n) \cup {n + 1} /\ read'[n + 1] = e
             /\ \A m \in 1 .. n : IllFormed(read', m) => IllFormed(read, m)
             /\ \A t : Half(read', n + 1, t) <=> e.kind = "u" /\ c16type(e.code) = t
             /\ IllFormed(read', n + 1) <=>
                  \/ e.kind \in Refused
                  \/ /\ e.kind = "u" /\ e.code \notin CodePoint
                     /\ ~(Half(read, n, "high") /\ TakenForLow(e))
             /\ Half(read, n, "high") /\ TakenForLow(e) => ~IllFormed(read', n)
<1>1. /\ read \in Seq(Element \cup {Quote, End}) /\ e \in Element \cup {Quote, End}
      /\ read' = Append(read, e)
  BY UpcomingType DEF Consume, TypeOK
<1> QED BY <1>1, FormsOfAppend

\* An element that can stand in a string, where no first half waits.
LEMMA ConsumeClean ==
  ASSUME TypeOK, Clean, NEW e, Consume(e),
         e.kind \notin Refused, e.kind = "u" => e.code \in CodePoint
  PROVE  Clean'
BY ConsumeForms DEF Clean

LEMMA ConsumeRefused ==
  ASSUME TypeOK, NEW e, Consume(e), e.kind \in Refused
  PROVE  ~Clean'
BY ConsumeForms DEF Clean

LEMMA AppendAccounts ==
  ASSUME IInv, OInv, pc # "returned", NEW b \in Nat, AppendByte(b) \/ NoRoom
  PROVE  /\ Losses' /\ Accounted'
         /\ NoRoom => MemoryFails /\ error' = "oom"
         /\ AppendByte(b) => block' # 0
<1>1. Losses /\ Accounted
  BY DEF OInv, Going
<1>2. CASE AppendByte(b)
  <2>1. UNCHANGED <<error, lost>> /\ block' # 0
    BY <1>2, AppendByteKeeps DEF AppendByte, IInv
  <2>2. ~NoRoom
    BY <2>1, <1>2 DEF NoRoom
  <2> QED BY <1>1, <2>1, <2>2 DEF Losses, Accounted
<1>3. CASE NoRoom
  <2>1. Losses' /\ MemoryFails /\ error' = "oom" /\ block' = 0
    BY SMT, <1>1, <1>3, StringBoundsAssumption DEF NoRoom, Losses
  <2>2. ~AppendByte(b)
    BY <2>1, AppendByteKeeps DEF IInv
  <2>3. Accounted'
    BY <2>1 DEF Accounted
  <2> QED BY <2>1, <2>2, <2>3
<1> QED BY <1>2, <1>3

\* A step with one call of string_append in it, whose text stays well-formed.
LEMMA AppendStepCounts ==
  ASSUME IInv, OInv, pc # "returned", NEW b \in Nat, AppendByte(b) \/ NoRoom, Clean', Waits',
         pc' = "shrink" => AppendByte(b) /\ read' # <<>>,
         pc' = "returned" => NoRoom /\ ~ok'
  PROVE  OInv'
<1>1. Losses' /\ Accounted'
  BY AppendAccounts
<1>2. Going' /\ Done'
  BY <1>1 DEF Going, Done, Clean
<1>3. Closed'
  BY AppendAccounts DEF Closed
<1>4. Failed'
  BY AppendAccounts DEF Failed
<1> QED BY <1>1, <1>2, <1>3, <1>4 DEF OInv

LEMMA StepWaits == IInv /\ Waits /\ [Next]_vars => Waits'
<1> SUFFICES ASSUME IInv, Waits, [Next]_vars PROVE Waits'
  OBVIOUS
<1>1. CASE Char \/ Escape
  <2>1. PICK e \in Upcoming : e.kind # "u" /\ Consume(e)
    BY <1>1 DEF Char, Escape
  <2>2. ~Half(read', Len(read'), "high")
    BY <2>1, ConsumeForms DEF IInv
  <2>3. pc' # "pair"
    BY <1>1 DEF Char, Escape, Return
  <2> QED BY <2>2, <2>3 DEF Waits
<1>2. CASE Hex
  <2>1. PICK e \in Upcoming :
          /\ e.kind = "u" /\ Consume(e)
          /\ IF c16type(e.code) # "high" THEN Unicode(e.code)
             ELSE high' = e.code /\ pc' = "pair" /\ UNCHANGED <<pending, error, ok>>
    BY <1>2 DEF Hex
  <2>2. /\ Half(read', Len(read'), "high") <=> c16type(e.code) = "high"
        /\ read'[Len(read')] = e
    BY <2>1, ConsumeForms DEF IInv
  <2>3. c16type(e.code) # "high" => pc' # "pair"
    BY <2>1 DEF Unicode, Return
  <2> QED BY <2>1, <2>2, <2>3 DEF Waits
<1>3. CASE Pair
  <2>1. PICK e \in Upcoming :
          e.kind = "u" /\ c16type(e.code) = "low" /\ Consume(e)
    BY <1>3 DEF Pair
  <2>2. ~Half(read', Len(read'), "high")
    BY <2>1, ConsumeForms DEF IInv
  <2>3. pc' # "pair"
    BY <1>3 DEF Pair, Unicode, Return
  <2> QED BY <2>2, <2>3 DEF Waits
<1>4. CASE NoPair
  <2>1. PICK e \in Upcoming : ~(e.kind = "u" /\ c16type(e.code) = "low") /\ ahead' = e
    BY <1>4 DEF NoPair
  <2>2. e # Unread
    <3>1. e \in Element => e.kind # "unread"
      BY SMT, ElementAssumption
    <3> QED BY <3>1, UpcomingType DEF IInv, Unread, Quote, End
  <2>3. pc' # "pair"
    BY <1>4 DEF NoPair, Unicode, Return
  <2> QED BY <2>1, <2>2, <2>3 DEF Waits, TakenForLow
<1>5. CASE Unit
  <2>1. pc = "append" /\ UNCHANGED <<read, ahead>> /\ pc' # "pair"
    BY <1>5 DEF Unit, text, Return
  <2> QED BY <2>1 DEF Waits, TakenForLow
<1>6. CASE Refuse \/ Close \/ Shrink
  <2>1. pc' \in {"returned", "shrink"}
    BY <1>6 DEF Refuse, Close, Shrink, Return
  <2> QED BY <2>1 DEF Waits
<1>7. CASE UNCHANGED vars
  <2>1. UNCHANGED <<read, ahead, pc, high>>
    BY <1>7 DEF vars, text
  <2> QED BY <2>1 DEF Waits, TakenForLow
<1> QED BY <1>1, <1>2, <1>3, <1>4, <1>5, <1>6, <1>7 DEF Next

\* A step that ends in append_unicode_code_point: with a code point the text is
\* one of a string, without one it is none.
LEMMA UnicodeCounts ==
  ASSUME OInv, Waits', pc # "returned", UNCHANGED lost, NEW p, Unicode(p),
         p \in CodePoint => Clean',
         p \notin CodePoint => ~Clean'
  PROVE  OInv'
<1>1. Losses /\ Accounted
  BY DEF OInv, Going
<1>2. CASE p \in CodePoint
  <2>1. UNCHANGED error /\ pc' = "append"
    BY <1>2 DEF Unicode
  <2> QED BY <1>1, <1>2, <2>1 DEF OInv, Losses, Accounted, Going, Closed, Done, Failed, Clean
<1>3. CASE p \notin CodePoint
  <2>1. /\ pc' = "returned" /\ ~ok'
        /\ error' \in IF MemoryFails THEN {"syntax", "none"} ELSE {"syntax"}
    BY <1>3 DEF Unicode, Errorf, Return
  <2> QED BY <1>1, <1>3, <2>1 DEF OInv, Losses, Going, Closed, Done, Failed
<1> QED BY <1>2, <1>3

LEMMA HexCounts == IInv /\ OInv /\ Waits' /\ Hex => OInv'
<1> SUFFICES ASSUME IInv, OInv, Waits', Hex PROVE OInv'
  OBVIOUS
<1>1. PICK e \in Upcoming :
        /\ e.kind = "u" /\ Consume(e)
        /\ IF c16type(e.code) # "high" THEN Unicode(e.code)
           ELSE high' = e.code /\ pc' = "pair" /\ UNCHANGED <<pending, error, ok>>
  BY DEF Hex
<1>2. pc = "loop" /\ UNCHANGED lost /\ Clean /\ Accounted /\ Losses
  BY GoingClean DEF Hex, OInv, Going
<1>3. CASE c16type(e.code) # "high"
  <2>1. e.code \in CodePoint => Clean'
    BY <1>1, <1>2, ConsumeClean DEF IInv, Refused
  <2>2. ~(Half(read, Len(read), "high") /\ TakenForLow(e))
    BY <1>2 DEF OInv, Waits, Upcoming
  <2>3. e.code \notin CodePoint => ~Clean'
    BY <1>1, <2>2, ConsumeForms DEF IInv, Clean
  <2> QED BY <1>1, <1>2, <1>3, <2>1, <2>3, UnicodeCounts
<1>4. CASE c16type(e.code) = "high"
  <2>1. pc' = "pair" /\ UNCHANGED error
    BY <1>1, <1>4
  <2>2. \A n \in DOMAIN read' : IllFormed(read', n) => n = Len(read')
    BY <1>1, <1>2, ConsumeForms DEF IInv, Clean
  <2>3. Going' /\ Losses'
    BY <1>2, <2>1, <2>2 DEF Going, Accounted, Losses
  <2> QED BY <2>1, <2>3 DEF OInv, Closed, Done, Failed
<1> QED BY <1>3, <1>4

LEMMA PairCounts == IInv /\ OInv /\ Waits' /\ Pair => OInv'
<1> SUFFICES ASSUME IInv, OInv, Waits', Pair PROVE OInv'
  OBVIOUS
<1>1. PICK e \in Upcoming :
        /\ e.kind = "u" /\ c16type(e.code) = "low" /\ Consume(e)
        /\ Unicode(c16pairtoc32(high, e.code))
  BY DEF Pair
<1>2. c16pairtoc32(high, e.code) \in CodePoint
  BY UpcomingType, PairIsCodePoint DEF IInv, TypeOK
<1>3. pc = "pair" /\ UNCHANGED lost /\ Half(read, Len(read), "high")
  BY DEF Pair, OInv, Waits
<1>4. \A n \in DOMAIN read : IllFormed(read, n) => n = Len(read)
  BY <1>3 DEF OInv, Going
<1>5. Clean'
  BY <1>1, <1>3, <1>4, ConsumeForms DEF IInv, Clean, TakenForLow, Refused
<1> QED BY <1>1, <1>2, <1>3, <1>5, UnicodeCounts

LEMMA NoPairCounts == IInv /\ OInv /\ Waits' /\ NoPair => OInv'
<1> SUFFICES ASSUME IInv, OInv, Waits', NoPair PROVE OInv'
  OBVIOUS
<1> DEFINE n == Len(read)
<1>1. /\ pc = "pair" /\ UNCHANGED <<read, lost>> /\ Unicode(high)
      /\ Half(read, n, "high") /\ high = read[n].code
  BY DEF NoPair, OInv, Waits
<1>2. n \in DOMAIN read /\ n + 1 \notin DOMAIN read
  <2>1. read \in Seq(Element \cup {Quote, End})
    BY DEF IInv, TypeOK
  <2>2. DOMAIN read = 1 .. n /\ n \in Nat
    BY <2>1
  <2>3. n + 1 \notin 1 .. n
    BY <2>2
  <2> QED BY <1>1, <2>2, <2>3 DEF Half
<1> HIDE DEF n
<1>3. ~Joins(read, n) /\ ~Joins(read, n - 1)
  <2>1. ~Half(read, n + 1, "low")
    BY <1>2 DEF Half
  <2>2. ~Half(read, n, "low")
    BY <1>1 DEF Half
  <2>3. (n - 1) + 1 = n
    BY <1>2 DEF n, IInv, TypeOK
  <2> QED BY <2>1, <2>2, <2>3 DEF Joins
<1>4. IllFormed(read, n) <=> high \notin CodePoint
  BY <1>1, <1>3 DEF IllFormed, Half
<1>5. \A m \in DOMAIN read : IllFormed(read, m) => m = n
  BY <1>1 DEF OInv, Going, n
<1>6. Clean <=> high \in CodePoint
  BY <1>2, <1>4, <1>5 DEF Clean
<1>7. Clean' <=> Clean
  BY <1>1 DEF Clean
<1> QED BY <1>1, <1>6, <1>7, UnicodeCounts

LEMMA StepOInv == IInv /\ HInv /\ OInv /\ [Next]_vars => OInv'
<1> SUFFICES ASSUME IInv, HInv, OInv, [Next]_vars PROVE OInv'
  OBVIOUS
<1>0. Waits'
  BY StepWaits DEF OInv
<1>1. CASE Char
  <2>1. PICK e \in Upcoming : e.kind = "char" /\ Consume(e) /\ (AppendByte(e.code) \/ NoRoom)
    BY <1>1 DEF Char
  <2>2. e.code \in Nat /\ pc = "loop" /\ pc' = "loop"
    BY <1>1, UpcomingType DEF IInv, Char
  <2>3. Clean'
    BY <2>1, <2>2, GoingClean, ConsumeClean DEF IInv, Refused
  <2> QED BY <1>0, <2>1, <2>2, <2>3, AppendStepCounts
<1>2. CASE Escape
  <2>1. PICK e \in Upcoming : /\ e.kind = "escape" /\ Consume(e)
                              /\ \/ AppendByte(e.code) /\ UNCHANGED <<pc, ok>>
                                 \/ NoRoom /\ Return(FALSE)
    BY <1>2 DEF Escape
  <2>2. e.code \in Nat /\ pc = "loop" /\ pc' \in {"loop", "returned"}
    BY <1>2, <2>1, UpcomingType DEF IInv, Escape, Return
  <2>3. Clean'
    BY <2>1, <2>2, GoingClean, ConsumeClean DEF IInv, Refused
  <2>4. pc' = "returned" => NoRoom /\ ~ok'
    BY <2>1, <2>2 DEF Return
  <2> QED BY <1>0, <2>1, <2>2, <2>3, <2>4, AppendStepCounts
<1>3. CASE Hex \/ Pair \/ NoPair
  BY <1>0, <1>3, HexCounts, PairCounts, NoPairCounts
<1>4. CASE Unit
  <2>1. pending # <<>> /\ pending \in Seq(Nat) /\ pc = "append" /\ UNCHANGED read
    BY <1>4 DEF IInv, ToAppend, Unit, TypeOK, text
  <2>2. Head(pending) \in Nat
    BY <2>1, HeadTailProperties
  <2>3. AppendByte(Head(pending)) \/ NoRoom
    BY <1>4 DEF Unit
  <2>4. pc' \in {"loop", "append", "returned"} /\ (pc' = "returned" => NoRoom /\ ~ok')
    BY <1>4, <2>1 DEF Unit, Return
  <2>5. Clean'
    BY <2>1, GoingClean DEF Clean
  <2> QED BY <1>0, <2>1, <2>2, <2>3, <2>4, <2>5, AppendStepCounts
<1>5. CASE Refuse
  <2>1. PICK e \in Upcoming : e.kind \in Refused /\ Consume(e)
    BY <1>5 DEF Refuse, Refused
  <2>2. ~Clean'
    BY <2>1, ConsumeRefused DEF IInv
  <2>3. pc' = "returned" /\ ~ok' /\ UNCHANGED lost
    BY <1>5 DEF Refuse, Return
  <2>4. error' \in IF MemoryFails THEN {"syntax", "none"} ELSE {"syntax"}
    BY <1>5 DEF Refuse, Errorf
  <2> QED BY <1>0, <2>2, <2>3, <2>4 DEF OInv, Losses, Going, Closed, Done, Failed
<1>6. CASE Close
  <2>1. \/ AppendByte(0) /\ pc' = "shrink"
        \/ NoRoom /\ pc' = "returned" /\ ~ok'
    BY <1>6 DEF Close, Return
  <2>2. pc = "loop" /\ Consume(Quote) /\ Quote.kind \notin Refused /\ Quote.kind # "u"
    BY <1>6 DEF Close, Quote, Refused
  <2>3. Clean' /\ read' # <<>>
    BY <2>2, GoingClean, ConsumeClean, ConsumeForms DEF IInv
  <2> QED BY <1>0, <2>1, <2>2, <2>3, AppendStepCounts
<1>7. CASE Shrink
  <2>1. pc = "shrink" /\ pc' = "returned" /\ UNCHANGED <<read, bytes, lost>>
    BY <1>7 DEF Shrink, Return, text
  <2>2. Clean' /\ read' # <<>> /\ Losses'
    BY <2>1, GoingClean DEF OInv, Closed, Clean, Losses
  <2>3. CASE block' = size /\ ok' /\ UNCHANGED error
    <3>1. size # 0
      BY <2>1, EmptySeq DEF size, IInv, TypeOK, HInv, Ended
    <3>2. Accounted'
      BY <2>1, <2>3 DEF OInv, Going, Accounted
    <3> QED BY <1>0, <2>1, <2>2, <2>3, <3>1, <3>2 DEF OInv, Going, Closed, Done, Failed
  <2>4. CASE MemoryFails /\ error' = "oom" /\ ~ok'
    BY <1>0, <2>1, <2>2, <2>4 DEF OInv, Going, Closed, Done, Failed
  <2>5. \/ block' = size /\ ok' /\ UNCHANGED error
        \/ MemoryFails /\ error' = "oom" /\ ~ok'
    BY <1>7 DEF Shrink, Return
  <2> QED BY <2>3, <2>4, <2>5
<1>8. CASE UNCHANGED vars
  <2>1. UNCHANGED <<pc, ok, error, lost, read, block>>
    BY <1>8 DEF vars, string, text
  <2> QED BY <1>0, <2>1 DEF OInv, Losses, Going, Closed, Done, Failed, Clean, Accounted
<1> QED BY <1>1, <1>2, <1>3, <1>4, <1>5, <1>6, <1>7, <1>8 DEF Next

\* (ScanIsEnough) What the descent assumes of a string, Scan of Parser, covers
\* every way that parse_string can end (src/src/parser.c:111-203), for every
\* text and every failure of memory in which a string loses at most one buffer.
THEOREM ScanIsEnough ==
  ASSUME MaxLost <= 1
  PROVE  Spec => []ImplementsScan
<1>1. Init => OInv
  BY SMT, StringBoundsAssumption
     DEF Init, OInv, Waits, Half, Losses, Going, Closed, Done, Failed, Clean, Accounted
<1>2. Init => HInv
  BY SMT DEF Init, HInv, Hashed, Whole, Ended
<1>3. IInv /\ OInv => ImplementsScan
  <2> SUFFICES ASSUME IInv, OInv, pc = "returned"
               PROVE  Outcome \in Descent!Scan(IF WellFormed THEN "str" ELSE "badstr")
    BY DEF ImplementsScan
  <2>1. lost \in {0, 1} /\ (lost # 0 => MemoryFails)
    BY SMT, StringBoundsAssumption DEF OInv, Losses
  <2>2. CASE ok
    <3>1. Clean /\ Accounted /\ read # <<>> /\ block # 0
      BY <2>2 DEF OInv, Done
    <3>2. WellFormed
      BY <3>1 DEF WellFormed, Clean, Refused
    <3>3. Outcome = [ok |-> TRUE, data |-> 1, lost |-> lost, error |-> error]
      BY <2>2, <3>1 DEF Outcome
    <3>4. Outcome \in Descent!Scan("str")
      BY <2>1, <3>1, <3>3 DEF Accounted, Descent!Scan
    <3> QED BY <3>2, <3>4
  <2>3. CASE ~ok
    <3> DEFINE d == IF block = 0 THEN 0 ELSE 1
    <3>a. ok = FALSE
      BY <2>3 DEF IInv, TypeOK
    <3>1. d \in {0, 1} /\ Outcome = [ok |-> FALSE, data |-> d, lost |-> lost, error |-> error]
      BY <3>a DEF Outcome
    <3> HIDE DEF d
    <3>2. CASE MemoryFails /\ error = "oom"
      BY <2>1, <3>1, <3>2 DEF Descent!Scan, Descent!Syntax
    <3>3. CASE ~Clean /\ error \in IF MemoryFails THEN {"syntax", "none"} ELSE {"syntax"}
      <4>1. ~WellFormed
        BY <3>3 DEF WellFormed, Clean, Refused
      <4> QED BY <2>1, <3>1, <3>3, <4>1 DEF Descent!Scan, Descent!Syntax
    <3> QED BY <2>3, <3>2, <3>3 DEF OInv, Failed
  <2> QED BY <2>2, <2>3
<1> QED BY InitIInv, StepIInv, <1>1, <1>2, StepHInv, StepOInv, <1>3, PTL DEF Spec

-----------------------------------------------------------------------------
(* The text.  FlattenSeq is a recursive function: that there is one, and    *)
(* that a sequence more makes it longer by that, comes from a least         *)
(* counterexample.                                                          *)

LEMMA LeastNatural ==
  ASSUME NEW S, S \subseteq Nat, S # {}
  PROVE  \E m \in S : \A k \in S : m <= k
<1>1. PICK m \in S : \A k \in S : ~(<<k, m>> \in OpToRel(<, Nat))
  BY NatLessThanWellFounded, WFMin
<1>2. \A k \in S : ~(k < m)
  BY <1>1 DEF OpToRel
<1> QED BY <1>2

Strings == Seq(Nat)

\* Flats(s)[n] is what the first n sequences of s are together.
Flats(s) ==
  LET flatten[n \in 1 .. Len(s)] == IF n = 1 THEN s[n] ELSE flatten[n - 1] \o s[n]
  IN  flatten

LEMMA FlatIs == \A s : FlattenSeq(s) = IF Len(s) = 0 THEN s ELSE Flats(s)[Len(s)]
BY DEF FlattenSeq, Flats

LEMMA FlatsExist ==
  ASSUME NEW s \in Seq(Strings)
  PROVE  Flats(s) = [n \in 1 .. Len(s) |-> IF n = 1 THEN s[n] ELSE Flats(s)[n - 1] \o s[n]]
<1> DEFINE Partial(m, f) == f = [n \in 1 .. m |-> IF n = 1 THEN s[n] ELSE f[n - 1] \o s[n]]
           Missing == {m \in 0 .. Len(s) : \A f : ~Partial(m, f)}
<1> HIDE DEF Partial
<1>1. Len(s) \in Nat
  OBVIOUS
<1>2. ASSUME Missing # {} PROVE FALSE
  <2>1. Missing \subseteq Nat
    BY <1>1
  <2> USE DEF Partial
  <2> HIDE DEF Missing
  <2>2. PICK m \in Missing : \A k \in Missing : m <= k
    BY <1>2, <2>1, LeastNatural
  <2>0. m \in Nat /\ m - 1 \notin Missing
    BY <2>1, <2>2
  <2> USE DEF Missing
  <2>3. CASE m = 0
    <3> DEFINE z == [n \in 1 .. 0 |-> s]
    <3>1. Partial(0, z)
      OBVIOUS
    <3> QED BY <2>2, <2>3, <3>1
  <2>4. CASE m # 0
    <3>1. m - 1 \in 0 .. Len(s) /\ m - 1 \notin Missing /\ m \in Nat
      <4>1. m \in 0 .. Len(s)
        BY <2>2
      <4> HIDE DEF Missing
      <4>2. m - 1 \in 0 .. Len(s)
        BY <1>1, <2>4, <4>1
      <4> QED BY <2>0, <4>2
    <3>2. PICK f : Partial(m - 1, f)
      BY <3>1
    <3> DEFINE g == [n \in 1 .. m |-> IF n # m THEN f[n]
                                      ELSE IF n = 1 THEN s[n] ELSE f[n - 1] \o s[n]]
    <3>3. ASSUME NEW n \in 1 .. m
          PROVE  g[n] = IF n = 1 THEN s[n] ELSE g[n - 1] \o s[n]
      <4>1. CASE n = m
        <5>1. n # 1 => n - 1 \in 1 .. m /\ n - 1 # m /\ g[n - 1] = f[n - 1]
          BY <3>1, <4>1
        <5> QED BY <4>1, <5>1
      <4>2. CASE n # m
        <5>1. n \in 1 .. m - 1 /\ g[n] = f[n]
          BY <3>1, <4>2
        <5>2. f[n] = IF n = 1 THEN s[n] ELSE f[n - 1] \o s[n]
          BY <3>2, <5>1
        <5>3. n # 1 => g[n - 1] = f[n - 1]
          BY <3>1, <4>2
        <5> QED BY <5>1, <5>2, <5>3
      <4> QED BY <4>1, <4>2
    <3>4. Partial(m, g)
      BY <3>3
    <3> QED BY <2>2, <3>4
  <2> QED BY <2>3, <2>4
<1>3. PICK f : Partial(Len(s), f)
  BY <1>1, <1>2
<1> QED BY <1>3 DEF Flats, Partial

LEMMA FlatsType ==
  ASSUME NEW s \in Seq(Strings), NEW n \in 1 .. Len(s)
  PROVE  Flats(s)[n] \in Strings
<1> DEFINE Odd == {m \in 1 .. Len(s) : Flats(s)[m] \notin Strings}
<1> SUFFICES ASSUME Odd # {} PROVE FALSE
  OBVIOUS
<1>1. Len(s) \in Nat /\ Odd \subseteq Nat
  OBVIOUS
<1> HIDE DEF Odd
<1>2. PICK m \in Odd : \A k \in Odd : m <= k
  BY <1>1, LeastNatural
<1>3. m \in Nat /\ m - 1 \notin Odd
  BY <1>1, <1>2
<1>4. m \in 1 .. Len(s) /\ Flats(s)[m] \notin Strings
  BY <1>2 DEF Odd
<1>5. s[m] \in Strings
  BY <1>4
<1>6. m # 1 /\ Flats(s)[m] = Flats(s)[m - 1] \o s[m]
  BY <1>4, <1>5, FlatsExist
<1>7. m - 1 \in 1 .. Len(s)
  BY <1>1, <1>3, <1>4, <1>6
<1>8. Flats(s)[m - 1] \in Strings
  BY <1>3, <1>7 DEF Odd
<1> QED BY <1>4, <1>5, <1>6, <1>8, ConcatProperties DEF Strings

\* Sequences that agree on their first n elements.
LEMMA FlatsAgree ==
  ASSUME NEW r \in Seq(Strings), NEW s \in Seq(Strings), NEW n \in Nat,
         n <= Len(r), n <= Len(s), \A k \in 1 .. n : r[k] = s[k]
  PROVE  \A k \in 1 .. n : Flats(r)[k] = Flats(s)[k]
<1> DEFINE Differ == {m \in 1 .. n : Flats(r)[m] # Flats(s)[m]}
<1> SUFFICES ASSUME Differ # {} PROVE FALSE
  OBVIOUS
<1>1. Differ \subseteq Nat /\ Len(r) \in Nat /\ Len(s) \in Nat
  OBVIOUS
<1> HIDE DEF Differ
<1>2. PICK m \in Differ : \A k \in Differ : m <= k
  BY <1>1, LeastNatural
<1>3. m \in Nat /\ m - 1 \notin Differ
  BY <1>1, <1>2
<1>4. m \in 1 .. n /\ Flats(r)[m] # Flats(s)[m]
  BY <1>2 DEF Differ
<1>5. m \in 1 .. Len(r) /\ m \in 1 .. Len(s) /\ r[m] = s[m]
  BY <1>1, <1>4
<1>6. m # 1
  BY <1>4, <1>5, FlatsExist
<1>7. m - 1 \in 1 .. n
  BY <1>3, <1>4, <1>6
<1>8. Flats(r)[m - 1] = Flats(s)[m - 1]
  BY <1>3, <1>7 DEF Differ
<1>9. Flats(r)[m] = Flats(r)[m - 1] \o r[m]
  BY <1>5, <1>6, FlatsExist
<1>10. Flats(s)[m] = Flats(s)[m - 1] \o s[m]
  BY <1>5, <1>6, FlatsExist
<1> QED BY <1>4, <1>5, <1>8, <1>9, <1>10

LEMMA FlatOfAppend ==
  ASSUME NEW s \in Seq(Strings), NEW x \in Strings
  PROVE  /\ FlattenSeq(s) \in Strings
         /\ FlattenSeq(Append(s, x)) = FlattenSeq(s) \o x
<1> DEFINE r == Append(s, x)
           n == Len(s)
<1>1. /\ r \in Seq(Strings) /\ n \in Nat /\ Len(r) = n + 1
      /\ r[n + 1] = x /\ \A k \in 1 .. n : r[k] = s[k]
  BY AppendProperties
<1> HIDE DEF r, n
<1>2. FlattenSeq(r) = Flats(r)[n + 1]
  <2>1. Len(r) # 0
    BY <1>1
  <2> QED BY <1>1, <2>1, FlatIs, Zenon
<1>3. CASE n = 0
  <2>1. s = <<>> /\ FlattenSeq(s) = <<>>
    BY <1>3, FlatIs, EmptySeq DEF n
  <2>2. Flats(r)[1] = r[1]
    <3>1. 1 \in 1 .. Len(r)
      BY <1>1
    <3> QED BY <1>1, <3>1, FlatsExist
  <2>3. <<>> \o x = x /\ <<>> \in Strings
    BY ConcatEmptySeq DEF Strings
  <2>4. n + 1 = 1
    BY <1>3
  <2>5. FlattenSeq(r) = x
    BY <1>1, <1>2, <2>2, <2>4, Zenon
  <2> QED BY <2>1, <2>3, <2>5, Zenon DEF r
<1>4. CASE n # 0
  <2>1. n \in 1 .. n /\ n + 1 \in 1 .. Len(r) /\ n + 1 # 1
    BY <1>1, <1>4
  <2>2. Flats(r)[n + 1] = Flats(r)[n] \o r[n + 1]
    <3>1. n + 1 \in 1 .. Len(r) /\ n + 1 # 1
      BY <2>1
    <3>2. PICK m : m = n + 1
      OBVIOUS
    <3>3. Flats(r)[m] = Flats(r)[m - 1] \o r[m]
      BY <1>1, <3>1, <3>2, FlatsExist
    <3>4. m - 1 = n
      BY <1>1, <3>2
    <3> QED BY <3>2, <3>3, <3>4, Zenon
  <2>3. n <= Len(r) /\ n <= Len(s)
    BY <1>1 DEF n
  <2>4. Flats(r)[n] = Flats(s)[n]
    BY <1>1, <2>1, <2>3, FlatsAgree
  <2>5. FlattenSeq(s) = Flats(s)[n]
    BY <1>4, FlatIs, Zenon DEF n
  <2>6. Flats(s)[n] \in Strings
    BY <2>1, FlatsType DEF n
  <2> QED BY <1>1, <1>2, <2>2, <2>3, <2>4, <2>5, <2>6 DEF r
<1> QED BY <1>3, <1>4

\* An element whose number, if it has one, was written without a minus sign.
Letter == {x \in Element \cup {Quote, End} : x.kind = "u" => x.code \in Char16}
High(x) == x.kind = "u" /\ IsHigh(x.code)
Low(x) == x.kind = "u" /\ IsLow(x.code)
Joined(h, l) == 65536 + (h.code - 55296) * 1024 + (l.code - 56320)

\* What an element stands for that is no half of a pair.
Own(x) == IF x.kind # "u" THEN <<x.code>> ELSE c32toc8(x.code)

\* The bytes of the elements e.
Text(e) == FlattenSeq(Meaning(e))

LEMMA LetterType ==
  ASSUME NEW x \in Letter
  PROVE  x.code \in Nat /\ x.code \in CodePoint /\ Own(x) \in Strings /\ x.kind # "unread"
<1>1. x \in Element => x.code \in Char16 /\ x.kind # "unread"
  <2>1. x.kind = "u" => x.code \in Char16
    BY DEF Letter
  <2> QED BY SMT, <2>1, ElementAssumption
<1>2. x \in {Quote, End} => x.code \in Char16 /\ x.kind # "unread"
  BY SMT DEF Quote, End, Char16
<1>3. x.code \in Nat /\ x.code \in CodePoint
  BY <1>1, <1>2, UnitIsCodePoint DEF Letter
<1>4. <<x.code>> \in Strings
  BY <1>3 DEF Strings
<1>5. c32toc8(x.code) \in Strings
  BY <1>3, EncodingIsBytes DEF Strings
<1> QED BY <1>1, <1>2, <1>3, <1>4, <1>5 DEF Own, Letter

LEMMA JoinedIs ==
  ASSUME NEW h \in Letter, NEW l \in Letter, High(h), Low(l)
  PROVE  /\ Joined(h, l) \in CodePoint
         /\ c16pairtoc32(h.code, l.code) = Joined(h, l)
<1>1. h.code \in Nat /\ l.code \in Nat
  BY LetterType
<1>2. /\ 55296 <= h.code /\ h.code <= 56319
      /\ 56320 <= l.code /\ l.code <= 57343
  BY DEF High, Low, IsHigh, IsLow
<1>3. h.code % 1024 = h.code - 55296 /\ l.code % 1024 = l.code - 56320
  BY SMT, <1>1, <1>2
<1> QED BY SMT, <1>1, <1>2, <1>3 DEF Joined, CodePoint, c16pairtoc32

LEMMA MeaningAt ==
  ASSUME NEW e \in Seq(Letter)
  PROVE  /\ Meaning(e) \in Seq(Strings) /\ Len(Meaning(e)) = Len(e)
         /\ \A k \in 1 .. Len(e) :
              Meaning(e)[k] =
                IF e[k].kind # "u" THEN <<e[k].code>>
                ELSE IF Low(e[k]) /\ k # 1 /\ High(e[k - 1]) THEN <<>>
                ELSE c32toc8(IF High(e[k]) /\ k # Len(e) /\ Low(e[k + 1])
                             THEN Joined(e[k], e[k + 1]) ELSE e[k].code)
<1>1. Len(e) \in Nat /\ DOMAIN Meaning(e) = 1 .. Len(e)
  BY DEF Meaning
<1>2. ASSUME NEW k \in 1 .. Len(e)
      PROVE  /\ k - 1 \in 1 .. Len(e) <=> k # 1
             /\ k + 1 \in 1 .. Len(e) <=> k # Len(e)
  BY <1>1
<1>3. ASSUME NEW k \in 1 .. Len(e)
      PROVE  Meaning(e)[k] =
                IF e[k].kind # "u" THEN <<e[k].code>>
                ELSE IF Low(e[k]) /\ k # 1 /\ High(e[k - 1]) THEN <<>>
                ELSE c32toc8(IF High(e[k]) /\ k # Len(e) /\ Low(e[k + 1])
                             THEN Joined(e[k], e[k + 1]) ELSE e[k].code)
  <2>1. CASE e[k].kind # "u"
    BY <2>1 DEF Meaning
  <2>2. CASE e[k].kind = "u"
    <3>1. CASE Low(e[k]) /\ k # 1 /\ High(e[k - 1])
      BY <1>2, <2>2, <3>1 DEF Meaning, Low, High
    <3>2. CASE ~(Low(e[k]) /\ k # 1 /\ High(e[k - 1]))
      <4>1. CASE High(e[k]) /\ k # Len(e) /\ Low(e[k + 1])
        BY <1>2, <2>2, <3>2, <4>1 DEF Meaning, Low, High, Joined
      <4>2. CASE ~(High(e[k]) /\ k # Len(e) /\ Low(e[k + 1]))
        BY <1>2, <2>2, <3>2, <4>2 DEF Meaning, Low, High
      <4> QED BY <4>1, <4>2
    <3> QED BY <3>1, <3>2
  <2> QED BY <2>1, <2>2
<1>4. ASSUME NEW k \in 1 .. Len(e)
      PROVE  Meaning(e)[k] \in Strings
  <2>1. e[k] \in Letter /\ (k # Len(e) => e[k + 1] \in Letter)
    BY <1>2
  <2>2. <<e[k].code>> \in Strings /\ <<>> \in Strings
    BY <2>1, LetterType DEF Strings
  <2>3. (IF High(e[k]) /\ k # Len(e) /\ Low(e[k + 1])
         THEN Joined(e[k], e[k + 1]) ELSE e[k].code) \in CodePoint
    BY Zenon, <2>1, LetterType, JoinedIs
  <2>4. \A c \in CodePoint : c32toc8(c) \in Strings
    BY EncodingIsBytes DEF Strings
  <2> QED BY Zenon, <1>3, <2>2, <2>3, <2>4
<1>5. Meaning(e) \in Seq(Strings) /\ Len(Meaning(e)) = Len(e)
  <2>1. Meaning(e) = [k \in 1 .. Len(e) |-> Meaning(e)[k]]
    BY SMT DEF Meaning
  <2>2. Meaning(e) \in [1 .. Len(e) -> Strings]
    BY Zenon, <1>4, <2>1
  <2> QED BY <1>1, <2>2
<1> QED BY <1>3, <1>5, Zenon

\* An element more, which is not the second half of a pair.
LEMMA TextOfAppend ==
  ASSUME NEW e \in Seq(Letter), NEW x \in Letter,
         ~(e # <<>> /\ High(e[Len(e)]) /\ Low(x))
  PROVE  /\ Text(e) \in Strings
         /\ Text(Append(e, x)) = Text(e) \o Own(x)
<1> DEFINE r == Append(e, x)
           n == Len(e)
           m == Append(Meaning(e), Own(x))
<1>1. /\ r \in Seq(Letter) /\ n \in Nat /\ Len(r) = n + 1
      /\ r[n + 1] = x /\ \A k \in 1 .. n : r[k] = e[k]
  BY AppendProperties
<1>2. Own(x) \in Strings /\ Meaning(e) \in Seq(Strings) /\ Len(Meaning(e)) = n
  BY LetterType, MeaningAt
<1>3. /\ m \in Seq(Strings) /\ Len(m) = n + 1
      /\ m[n + 1] = Own(x) /\ \A k \in 1 .. n : m[k] = Meaning(e)[k]
  BY <1>2, AppendProperties
<1>4. n # 0 => e # <<>>
  BY EmptySeq
<1>a. ~(n # 0 /\ High(e[n]) /\ Low(x))
  BY <1>4, Zenon
<1> HIDE DEF r, n, m
<1>5. ASSUME NEW k \in 1 .. n PROVE Meaning(r)[k] = m[k]
  <2>1. /\ k \in 1 .. Len(r) /\ k # Len(r) /\ r[k] = e[k]
        /\ k # 1 => r[k - 1] = e[k - 1]
        /\ k # n => r[k + 1] = e[k + 1]
        /\ k = n => n # 0 /\ r[k + 1] = x
    BY <1>1
  <2>2. High(r[k]) /\ k # Len(r) /\ Low(r[k + 1]) <=> High(e[k]) /\ k # n /\ Low(e[k + 1])
    BY Zenon, <1>a, <2>1
  <2>3. Low(r[k]) /\ k # 1 /\ High(r[k - 1]) <=> Low(e[k]) /\ k # 1 /\ High(e[k - 1])
    BY Zenon, <2>1
  <2>4. High(e[k]) /\ k # n /\ Low(e[k + 1]) => Joined(r[k], r[k + 1]) = Joined(e[k], e[k + 1])
    BY Zenon, <2>1
  <2>5. Meaning(e)[k] =
                IF e[k].kind # "u" THEN <<e[k].code>>
                ELSE IF Low(e[k]) /\ k # 1 /\ High(e[k - 1]) THEN <<>>
                ELSE c32toc8(IF High(e[k]) /\ k # n /\ Low(e[k + 1])
                             THEN Joined(e[k], e[k + 1]) ELSE e[k].code)
    BY Zenon, MeaningAt DEF n
  <2>6. Meaning(r)[k] =
                IF r[k].kind # "u" THEN <<r[k].code>>
                ELSE IF Low(r[k]) /\ k # 1 /\ High(r[k - 1]) THEN <<>>
                ELSE c32toc8(IF High(r[k]) /\ k # Len(r) /\ Low(r[k + 1])
                             THEN Joined(r[k], r[k + 1]) ELSE r[k].code)
    BY Zenon, <1>1, <2>1, MeaningAt
  <2> QED BY Zenon, <1>3, <2>1, <2>2, <2>3, <2>4, <2>5, <2>6
<1>6. Meaning(r)[n + 1] = m[n + 1]
  <2>1. PICK k : k = n + 1
    OBVIOUS
  <2>2. /\ k \in 1 .. Len(r) /\ k = Len(r) /\ r[k] = x /\ k - 1 = n
        /\ k # 1 => n # 0 /\ r[k - 1] = e[n]
    BY <1>1, <2>1
  <2>3. Meaning(r)[k] =
                IF r[k].kind # "u" THEN <<r[k].code>>
                ELSE IF Low(r[k]) /\ k # 1 /\ High(r[k - 1]) THEN <<>>
                ELSE c32toc8(IF High(r[k]) /\ k # Len(r) /\ Low(r[k + 1])
                             THEN Joined(r[k], r[k + 1]) ELSE r[k].code)
    BY Zenon, <1>1, <2>2, MeaningAt
  <2>4. Meaning(r)[k] = Own(x)
    BY Zenon, <1>a, <2>2, <2>3 DEF Own
  <2> QED BY Zenon, <1>3, <2>1, <2>4
<1>7. Meaning(r) = m
  <2>1. Meaning(r) \in Seq(Strings) /\ Len(Meaning(r)) = n + 1
    BY <1>1, MeaningAt
  <2>2. \A k \in 1 .. n + 1 : k \in 1 .. n \/ k = n + 1
    BY <1>1
  <2>3. \A k \in 1 .. Len(m) : Meaning(r)[k] = m[k]
    BY Zenon, <1>3, <1>5, <1>6, <2>2
  <2> QED BY <1>3, <2>1, <2>3, SeqEqual
<1> QED BY <1>2, <1>7, FlatOfAppend DEF Text, r, m

\* The second half of a pair: the bytes of the first are replaced by those of
\* the pair.
LEMMA TextOfPair ==
  ASSUME NEW d \in Seq(Letter), NEW h \in Letter, NEW x \in Letter, High(h), Low(x)
  PROVE  Text(Append(Append(d, h), x)) = Text(d) \o c32toc8(Joined(h, x))
<1> DEFINE e == Append(d, h)
           r == Append(e, x)
           n == Len(d)
           p == c32toc8(Joined(h, x))
           m == Append(Append(Meaning(d), p), <<>>)
<1>1. /\ e \in Seq(Letter) /\ n \in Nat /\ Len(e) = n + 1
      /\ e[n + 1] = h /\ \A k \in 1 .. n : e[k] = d[k]
  BY AppendProperties
<1>2. /\ r \in Seq(Letter) /\ Len(r) = Len(e) + 1
      /\ r[Len(e) + 1] = x /\ \A k \in 1 .. Len(e) : r[k] = e[k]
  BY <1>1, AppendProperties
<1>3. p \in Strings /\ <<>> \in Strings /\ Meaning(d) \in Seq(Strings) /\ Len(Meaning(d)) = n
  BY JoinedIs, EncodingIsBytes, MeaningAt DEF Strings
<1>4. /\ Append(Meaning(d), p) \in Seq(Strings) /\ Len(Append(Meaning(d), p)) = n + 1
      /\ Append(Meaning(d), p)[n + 1] = p
      /\ \A k \in 1 .. n : Append(Meaning(d), p)[k] = Meaning(d)[k]
  BY <1>3, AppendProperties
<1>5. /\ m \in Seq(Strings) /\ Len(m) = n + 2
      /\ m[n + 2] = <<>> /\ m[n + 1] = p /\ \A k \in 1 .. n : m[k] = Meaning(d)[k]
  BY <1>1, <1>3, <1>4, AppendProperties
<1>6. /\ Len(r) = n + 2 /\ r[n + 1] = h /\ r[n + 2] = x
      /\ \A k \in 1 .. n : r[k] = d[k]
  BY <1>1, <1>2
<1>a. ~Low(h) /\ ~High(x) /\ h.kind = "u" /\ x.kind = "u"
  BY SMT, LetterType DEF Low, High, IsLow, IsHigh
<1> HIDE DEF e, r, n, p, m
<1>7. ASSUME NEW k \in 1 .. n PROVE Meaning(r)[k] = m[k]
  <2>1. /\ k \in 1 .. Len(r) /\ k # Len(r) /\ r[k] = d[k]
        /\ k # 1 => r[k - 1] = d[k - 1]
        /\ k # n => r[k + 1] = d[k + 1]
        /\ k = n => r[k + 1] = h
    BY <1>1, <1>6
  <2>2. High(r[k]) /\ k # Len(r) /\ Low(r[k + 1]) <=> High(d[k]) /\ k # n /\ Low(d[k + 1])
    BY Zenon, <1>a, <2>1
  <2>3. Low(r[k]) /\ k # 1 /\ High(r[k - 1]) <=> Low(d[k]) /\ k # 1 /\ High(d[k - 1])
    BY Zenon, <2>1
  <2>4. High(d[k]) /\ k # n /\ Low(d[k + 1]) => Joined(r[k], r[k + 1]) = Joined(d[k], d[k + 1])
    BY Zenon, <2>1
  <2>5. Meaning(d)[k] =
                IF d[k].kind # "u" THEN <<d[k].code>>
                ELSE IF Low(d[k]) /\ k # 1 /\ High(d[k - 1]) THEN <<>>
                ELSE c32toc8(IF High(d[k]) /\ k # n /\ Low(d[k + 1])
                             THEN Joined(d[k], d[k + 1]) ELSE d[k].code)
    BY Zenon, MeaningAt DEF n
  <2>6. Meaning(r)[k] =
                IF r[k].kind # "u" THEN <<r[k].code>>
                ELSE IF Low(r[k]) /\ k # 1 /\ High(r[k - 1]) THEN <<>>
                ELSE c32toc8(IF High(r[k]) /\ k # Len(r) /\ Low(r[k + 1])
                             THEN Joined(r[k], r[k + 1]) ELSE r[k].code)
    BY Zenon, <1>2, <2>1, MeaningAt
  <2> QED BY Zenon, <1>5, <2>1, <2>2, <2>3, <2>4, <2>5, <2>6
<1>8. Meaning(r)[n + 1] = p /\ Meaning(r)[n + 2] = <<>>
  <2>1. PICK k, l : k = n + 1 /\ l = n + 2
    OBVIOUS
  <2>2. /\ k \in 1 .. Len(r) /\ k # Len(r) /\ k + 1 = l
        /\ l \in 1 .. Len(r) /\ l # 1 /\ l - 1 = k
    BY <1>1, <1>6, <2>1
  <2>3. r[k] = h /\ r[l] = x
    BY Zenon, <1>6, <2>1
  <2>4. Meaning(r)[k] =
                IF r[k].kind # "u" THEN <<r[k].code>>
                ELSE IF Low(r[k]) /\ k # 1 /\ High(r[k - 1]) THEN <<>>
                ELSE c32toc8(IF High(r[k]) /\ k # Len(r) /\ Low(r[k + 1])
                             THEN Joined(r[k], r[k + 1]) ELSE r[k].code)
    BY Zenon, <1>2, <2>2, MeaningAt
  <2>5. Meaning(r)[l] =
                IF r[l].kind # "u" THEN <<r[l].code>>
                ELSE IF Low(r[l]) /\ l # 1 /\ High(r[l - 1]) THEN <<>>
                ELSE c32toc8(IF High(r[l]) /\ l # Len(r) /\ Low(r[l + 1])
                             THEN Joined(r[l], r[l + 1]) ELSE r[l].code)
    BY Zenon, <1>2, <2>2, MeaningAt
  <2>6. Meaning(r)[k] = p
    BY Zenon, <1>a, <2>2, <2>3, <2>4 DEF p
  <2>7. Meaning(r)[l] = <<>>
    BY Zenon, <1>a, <2>2, <2>3, <2>5
  <2> QED BY Zenon, <2>1, <2>6, <2>7
<1>9. Meaning(r) = m
  <2>1. Meaning(r) \in Seq(Strings) /\ Len(Meaning(r)) = n + 2
    BY <1>2, <1>6, MeaningAt
  <2>2. \A k \in 1 .. n + 2 : k \in 1 .. n \/ k = n + 1 \/ k = n + 2
    BY <1>1
  <2>3. \A k \in 1 .. Len(m) : Meaning(r)[k] = m[k]
    BY Zenon, <1>5, <1>7, <1>8, <2>2
  <2> QED BY <1>5, <2>1, <2>3, SeqEqual
<1>10. FlattenSeq(m) = (FlattenSeq(Meaning(d)) \o p) \o <<>>
  BY Zenon, <1>3, <1>4, FlatOfAppend DEF m
<1>11. FlattenSeq(Meaning(d)) \o p \in Seq(Nat)
  BY <1>3, FlatOfAppend, ConcatProperties DEF Strings
<1>12. FlattenSeq(m) = FlattenSeq(Meaning(d)) \o p
  BY <1>10, <1>11, ConcatEmptySeq
<1> QED BY <1>9, <1>12, Zenon DEF Text, r, e, p

-----------------------------------------------------------------------------
(* What the string holds on the way.                                       *)

\* The mask 0xD800 takes the code units of the text for what they are.
MaskTells ==
  \A e \in Element : e.kind = "u" /\ e.code \in Char16 =>
    /\ c16type(e.code) = "high" <=> IsHigh(e.code)
    /\ c16type(e.code) = "low" <=> IsLow(e.code)

\* Waits in terms of halves of pairs.
Halves ==
  /\ pc = "pair" => read # <<>> /\ High(read[Len(read)]) /\ high = read[Len(read)].code
  /\ pc \in {"loop", "append"} /\ read # <<>> /\ High(read[Len(read)]) =>
       ahead # Unread /\ ~Low(ahead)

Decoded ==
  Whole =>
    /\ pc = "loop" => bytes = Text(read)
    /\ pc = "append" => bytes \o pending = Text(read)
    /\ pc = "pair" => bytes = Text(Front(read))
    /\ pc \in {"shrink", "returned"} => read # <<>> /\ bytes = Text(Front(read)) \o <<0>>

LEMMA FrontOfAppend ==
  ASSUME NEW e \in Seq(Letter), NEW x \in Letter
  PROVE  /\ Append(e, x) \in Seq(Letter) /\ Append(e, x) # <<>>
         /\ Front(Append(e, x)) = e
         /\ Append(e, x)[Len(Append(e, x))] = x
<1>1. /\ Append(e, x) \in Seq(Letter) /\ Len(Append(e, x)) = Len(e) + 1 /\ Len(e) \in Nat
      /\ Append(e, x)[Len(e) + 1] = x /\ \A k \in 1 .. Len(e) : Append(e, x)[k] = e[k]
  BY AppendProperties
<1>2. Append(e, x) # <<>>
  BY <1>1, EmptySeq
<1>3. Front(Append(e, x)) = e
  <2>1. Front(Append(e, x)) = SubSeq(Append(e, x), 1, Len(e))
    BY <1>1 DEF Front
  <2> QED BY SMT, <1>1, <2>1
<1> QED BY <1>1, <1>2, <1>3

LEMMA FrontAndLast ==
  ASSUME NEW e \in Seq(Letter), e # <<>>
  PROVE  /\ Front(e) \in Seq(Letter) /\ e[Len(e)] \in Letter
         /\ e = Append(Front(e), e[Len(e)])
<1>1. PICK d \in Seq(Letter), x \in Letter : e = Append(d, x)
  BY SequenceEmptyOrAppend
<1>2. Front(e) = d /\ e[Len(e)] = x
  BY <1>1, FrontOfAppend
<1> QED BY <1>1, <1>2

\* A unit is tested with c16type.
LEMMA MaskIs ==
  ASSUME MaskTells, NEW e \in Letter, e.kind = "u"
  PROVE  (c16type(e.code) = "high" <=> High(e)) /\ (c16type(e.code) = "low" <=> Low(e))
<1>1. e \in Element /\ e.code \in Char16
  BY DEF Letter, Quote, End
<1> QED BY <1>1 DEF MaskTells, High, Low

\* A number with a minus sign is no half of a pair.
LEMMA HalfIsUnit ==
  ASSUME NEW e \in Element \cup {Quote, End}, High(e) \/ Low(e)
  PROVE  e \in Letter
<1>1. e.code \in Nat
  BY SMT, ElementAssumption DEF Quote, End, Char16
<1>2. e.code <= 65535
  BY SMT, <1>1 DEF High, Low, IsHigh, IsLow
<1> QED BY <1>1, <1>2 DEF Letter, Char16

LEMMA UpcomingLetter ==
  ASSUME TypeOK, NEW e \in Upcoming
  PROVE  /\ e.kind # "u" \/ e.code \in Char16 => e \in Letter
         /\ ahead # Unread => e = ahead
<1>1. e.kind # "u" \/ e.code \in Char16 => e \in Letter
  BY UpcomingType DEF Letter
<1> QED BY <1>1 DEF Upcoming

\* What was read, of a text with no minus sign.
LEMMA ReadType ==
  ASSUME TypeOK, Unsigned
  PROVE  read \in Seq(Letter)
<1>1. /\ read \in Seq(Element \cup {Quote, End})
      /\ \A n \in 1 .. Len(read) : read[n].kind = "u" => read[n].code \in Char16
  BY DEF TypeOK, Unsigned
<1>2. \A n \in 1 .. Len(read) : read[n] \in Letter
  BY <1>1 DEF Letter
<1>3. read \in [1 .. Len(read) -> Letter] /\ Len(read) \in Nat
  BY SMT, <1>1, <1>2
<1> QED BY <1>3, SeqDef

LEMMA UnsignedBefore ==
  ASSUME TypeOK, NEW e \in Upcoming, Consume(e), Unsigned'
  PROVE  Unsigned /\ e \in Letter
<1>1. /\ read \in Seq(Element \cup {Quote, End}) /\ e \in Element \cup {Quote, End}
      /\ read' = Append(read, e)
  BY UpcomingType DEF Consume, TypeOK
<1>2. /\ Len(read) + 1 \in DOMAIN read' /\ read'[Len(read) + 1] = e
      /\ \A n \in DOMAIN read : n \in DOMAIN read' /\ read'[n] = read[n]
  BY SMT, <1>1
<1> QED BY <1>2, UpcomingLetter DEF Unsigned

LEMMA HalvesWait ==
  ASSUME MaskTells, TypeOK, Waits, Unsigned
  PROVE  Halves
<1>1. read \in Seq(Letter)
  BY ReadType
<1>2. read # <<>> => Len(read) \in DOMAIN read /\ read[Len(read)] \in Letter
  BY <1>1, FrontAndLast
<1>3. Half(read, Len(read), "high") => read # <<>>
  BY DEF Half
<1>4. Half(read, Len(read), "high") <=> read # <<>> /\ High(read[Len(read)])
  BY <1>2, <1>3, MaskIs DEF Half, High
<1>5. ahead # Unread /\ Low(ahead) => TakenForLow(ahead)
  BY HalfIsUnit, MaskIs DEF TakenForLow, TypeOK, Low
<1> QED BY <1>4, <1>5 DEF Waits, Halves

\* With an error of memory nothing is claimed; without one the byte is added.
LEMMA AppendByteAdds ==
  ASSUME IInv, HInv, pc # "returned", NEW b \in Nat, AppendByte(b) \/ NoRoom, error' = "none"
  PROVE  AppendByte(b) /\ error = "none" /\ bytes' = Append(bytes, b) /\ bytes' = bytes \o <<b>>
<1>1. AppendByte(b) /\ error = "none"
  BY DEF NoRoom, AppendByte
<1>2. Contents \in Seq(Nat) /\ Len(Contents) = size
  BY SMT DEF IInv, TypeOK, Contents, size, Garbage
<1>3. block = 0 => bytes = <<>>
  BY <1>1 DEF HInv, Hashed, Whole
<1>4. Contents = bytes
  <2>1. CASE block = 0
    <3>1. Len(Contents) = 0
      BY <1>2, <1>3, <2>1, EmptySeq DEF size
    <3> QED BY <1>2, <1>3, <2>1, <3>1, EmptySeq
  <2> QED BY <2>1 DEF Contents
<1>5. bytes' = Append(bytes, b)
  BY <1>1, <1>4 DEF AppendByte
<1>6. Append(bytes, b) = bytes \o <<b>>
  BY AppendIsConcat DEF IInv, TypeOK
<1> QED BY <1>1, <1>5, <1>6

DInv == Unsigned => Decoded

LEMMA InitDInv == Init => DInv
<1> SUFFICES ASSUME Init PROVE DInv
  OBVIOUS
<1>1. pc = "loop" /\ read = <<>> /\ bytes = <<>>
  BY DEF Init
<1>2. Meaning(<<>>) \in Seq(Strings) /\ Len(Meaning(<<>>)) = 0
  <2>1. <<>> \in Seq(Letter) /\ Len(<<>>) = 0
    OBVIOUS
  <2> QED BY <2>1, MeaningAt
<1>3. Text(<<>>) = <<>>
  BY <1>2, FlatIs, EmptySeq DEF Text
<1> QED BY <1>1, <1>3 DEF DInv, Decoded

\* An element that is not half of a pair was consumed in the loop.
LEMMA ConsumeText ==
  ASSUME MaskTells, IInv, Waits, pc = "loop", NEW e \in Upcoming, Consume(e), Unsigned'
  PROVE  /\ Unsigned /\ read \in Seq(Letter) /\ e \in Letter
         /\ read' = Append(read, e) /\ ahead' = Unread
         /\ read' # <<>> /\ Front(read') = read /\ read'[Len(read')] = e
         /\ Text(read') = Text(read) \o Own(e)
<1>1. /\ Unsigned /\ read \in Seq(Letter) /\ e \in Letter
      /\ ahead # Unread => e = ahead
  BY UnsignedBefore, ReadType, UpcomingLetter DEF IInv
<1>2. read' = Append(read, e) /\ ahead' = Unread
  BY DEF Consume
<1>3. ~(read # <<>> /\ High(read[Len(read)]) /\ Low(e))
  BY <1>1, HalvesWait DEF Halves, IInv
<1> QED BY <1>1, <1>2, <1>3, TextOfAppend, FrontOfAppend, Zenon

LEMMA CharDecodes == MaskTells /\ IInv /\ HInv /\ Waits /\ DInv /\ (Char \/ Escape) => DInv'
<1> SUFFICES ASSUME MaskTells, IInv, HInv, Waits, DInv, Char \/ Escape, Unsigned' PROVE Decoded'
  BY DEF DInv
<1>1. PICK e \in Upcoming :
        /\ e.kind \in {"char", "escape"} /\ Consume(e)
        /\ AppendByte(e.code) \/ NoRoom
        /\ pc' = "loop" \/ (pc' = "returned" /\ ok' = FALSE)
  BY DEF Char, Escape, Return
<1>2. pc = "loop"
  BY DEF Char, Escape
<1>3. e.code \in Nat
  BY <1>1, UpcomingType DEF IInv
<1>4. Unsigned /\ Text(read') = Text(read) \o <<e.code>>
  BY <1>1, <1>2, ConsumeText DEF Own
<1>6. ASSUME Whole' PROVE pc' = "loop" /\ bytes' = Text(read')
  <2>1. error' = "none" /\ pc' = "loop"
    BY <1>1, <1>6 DEF Whole
  <2>2. error = "none" /\ bytes' = bytes \o <<e.code>>
    BY <1>1, <1>2, <1>3, <2>1, AppendByteAdds
  <2>3. bytes = Text(read)
    BY <1>2, <1>4, <2>2 DEF DInv, Decoded, Whole
  <2> QED BY <1>4, <2>1, <2>2, <2>3
<1> QED BY <1>6 DEF Decoded

LEMMA HexDecodes == MaskTells /\ IInv /\ Waits /\ DInv /\ Hex => DInv'
<1> SUFFICES ASSUME MaskTells, IInv, Waits, DInv, Hex, Unsigned' PROVE Decoded'
  BY DEF DInv
<1>1. PICK e \in Upcoming :
        /\ e.kind = "u" /\ Consume(e)
        /\ IF c16type(e.code) # "high" THEN Unicode(e.code)
           ELSE high' = e.code /\ pc' = "pair" /\ UNCHANGED <<pending, error, ok>>
  BY DEF Hex
<1>2. pc = "loop" /\ UNCHANGED bytes
  BY DEF Hex, string
<1>3. /\ Unsigned /\ e \in Letter /\ Front(read') = read
      /\ Text(read') = Text(read) \o c32toc8(e.code)
  BY <1>1, <1>2, ConsumeText DEF Own
<1>4. e.code \in CodePoint
  BY <1>3, LetterType
<1>5. error = "none" => bytes' = Text(read)
  BY <1>2, <1>3 DEF DInv, Decoded, Whole
<1>6. CASE c16type(e.code) = "high"
  <2>1. pc' = "pair" /\ UNCHANGED error
    BY <1>1, <1>6
  <2> QED BY <1>3, <1>5, <2>1 DEF Decoded, Whole
<1>7. CASE c16type(e.code) # "high"
  <2>1. pc' = "append" /\ pending' = c32toc8(e.code) /\ UNCHANGED error
    BY <1>1, <1>4, <1>7 DEF Unicode
  <2> QED BY <1>3, <1>5, <2>1 DEF Decoded, Whole
<1> QED BY <1>6, <1>7

LEMMA PairDecodes == MaskTells /\ IInv /\ Waits /\ DInv /\ Pair => DInv'
<1> SUFFICES ASSUME MaskTells, IInv, Waits, DInv, Pair, Unsigned' PROVE Decoded'
  BY DEF DInv
<1>1. PICK e \in Upcoming :
        /\ e.kind = "u" /\ c16type(e.code) = "low"
        /\ Consume(e) /\ Unicode(c16pairtoc32(high, e.code))
  BY DEF Pair
<1>2. pc = "pair" /\ UNCHANGED bytes
  BY DEF Pair, string
<1>3. Unsigned /\ e \in Letter /\ Low(e) /\ read \in Seq(Letter)
  BY <1>1, MaskIs, UnsignedBefore, ReadType DEF IInv
<1>4. PICK h : h = read[Len(read)]
  OBVIOUS
<1>5. read # <<>> /\ High(h) /\ high = h.code
  BY <1>2, <1>3, <1>4, HalvesWait DEF IInv, Halves
<1>6. /\ Front(read) \in Seq(Letter) /\ h \in Letter
      /\ read = Append(Front(read), h)
  BY <1>3, <1>4, <1>5, FrontAndLast
<1>7. /\ read' = Append(read, e) /\ pc' = "append" /\ UNCHANGED error
      /\ pending' = c32toc8(Joined(h, e))
  BY <1>1, <1>3, <1>5, <1>6, JoinedIs DEF Consume, Unicode
<1>8. Text(read') = Text(Front(read)) \o c32toc8(Joined(h, e))
  BY <1>3, <1>5, <1>6, <1>7, TextOfPair
<1>9. Whole' => bytes' = Text(Front(read))
  BY <1>2, <1>3, <1>7 DEF DInv, Decoded, Whole
<1> QED BY <1>7, <1>8, <1>9 DEF Decoded

LEMMA NoPairDecodes == MaskTells /\ IInv /\ Waits /\ DInv /\ NoPair => DInv'
<1> SUFFICES ASSUME MaskTells, IInv, Waits, DInv, NoPair, Unsigned' PROVE Decoded'
  BY DEF DInv
<1>1. pc = "pair" /\ UNCHANGED <<read, bytes>> /\ Unicode(high)
  BY DEF NoPair, string
<1>2. Unsigned
  BY <1>1 DEF Unsigned
<1>3. read \in Seq(Letter)
  BY <1>2, ReadType DEF IInv
<1>4. PICK h : h = read[Len(read)]
  OBVIOUS
<1>5. read # <<>> /\ High(h) /\ high = h.code
  BY <1>1, <1>2, <1>4, HalvesWait DEF IInv, Halves
<1>6. /\ Front(read) \in Seq(Letter) /\ h \in Letter
      /\ read = Append(Front(read), h)
  BY <1>3, <1>4, <1>5, FrontAndLast
<1>7. UNCHANGED error /\ pc' = "append" /\ pending' = c32toc8(high)
  BY <1>1, <1>5, <1>6, LetterType DEF Unicode
<1>8. ~Low(h) /\ Own(h) = c32toc8(high)
  <2>1. ~Low(h)
    BY SMT, <1>5, <1>6, LetterType DEF High, Low, IsHigh, IsLow
  <2> QED BY <1>5, <2>1 DEF Own, High
<1>9. Text(Append(Front(read), h)) = Text(Front(read)) \o Own(h)
  BY <1>6, <1>8, TextOfAppend, Zenon
<1>10. Whole' => bytes' = Text(Front(read))
  BY <1>1, <1>2, <1>7 DEF DInv, Decoded, Whole
<1>11. Whole' => bytes' \o pending' = Text(read')
  BY <1>1, <1>6, <1>7, <1>8, <1>9, <1>10, Zenon
<1> QED BY <1>7, <1>11 DEF Decoded

LEMMA UnitDecodes == IInv /\ HInv /\ DInv /\ Unit => DInv'
<1> SUFFICES ASSUME IInv, HInv, DInv, Unit, Unsigned' PROVE Decoded'
  BY DEF DInv
<1>1. pending # <<>> /\ pending \in Seq(Nat) /\ pc = "append" /\ bytes \in Seq(Nat)
  BY DEF IInv, ToAppend, Unit, TypeOK
<1>2. PICK b, rest : b = Head(pending) /\ rest = Tail(pending)
  OBVIOUS
<1>3. /\ b \in Nat /\ rest \in Seq(Nat) /\ Len(rest) = Len(pending) - 1
      /\ pending = <<b>> \o rest
  BY SMT, <1>1, <1>2
<1>4. /\ AppendByte(b) \/ NoRoom
      /\ UNCHANGED <<read, ahead>>
      /\ \/ pending' = rest /\ pc' = IF Len(pending) = 1 THEN "loop" ELSE "append"
         \/ pc' = "returned" /\ ok' = FALSE
  BY <1>1, <1>2 DEF Unit, text, Return
<1>5. Unsigned
  BY <1>4 DEF Unsigned
<1>6. ASSUME Whole'
      PROVE  /\ pc' = "loop" => bytes' = Text(read')
             /\ pc' = "append" => bytes' \o pending' = Text(read')
             /\ pc' \in {"loop", "append"}
  <2>1. error' = "none" /\ pending' = rest /\ pc' = IF Len(pending) = 1 THEN "loop" ELSE "append"
    BY <1>4, <1>6 DEF Whole
  <2>2. error = "none" /\ bytes' = bytes \o <<b>>
    BY <1>1, <1>3, <1>4, <2>1, AppendByteAdds
  <2>3. bytes \o pending = Text(read)
    BY <1>1, <1>5, <2>2 DEF DInv, Decoded, Whole
  <2>4. bytes' \o rest = bytes \o pending
    BY <1>1, <1>3, <2>2, ConcatAssociative
  <2>5. Len(pending) = 1 => bytes' \o rest = bytes'
    <3>1. Len(pending) = 1 => rest = <<>>
      BY <1>3, EmptySeq
    <3>2. bytes' \in Seq(Nat)
      BY <1>1, <1>3, <2>2
    <3> QED BY <3>1, <3>2, ConcatEmptySeq
  <2> QED BY <1>4, <2>1, <2>3, <2>4, <2>5
<1> QED BY <1>5, <1>6 DEF DInv, Decoded

LEMMA EndDecodes ==
  MaskTells /\ IInv /\ HInv /\ Waits /\ DInv /\ (Refuse \/ Close \/ Shrink) => DInv'
<1> SUFFICES ASSUME MaskTells, IInv, HInv, Waits, DInv, Refuse \/ Close \/ Shrink, Unsigned'
             PROVE  Decoded'
  BY DEF DInv
<1>1. CASE Refuse
  BY <1>1 DEF Refuse, Return, Decoded, Whole
<1>2. CASE Close
  <2>1. /\ pc = "loop" /\ Consume(Quote) /\ Quote \in Upcoming
        /\ \/ AppendByte(0) /\ pc' = "shrink"
           \/ NoRoom /\ pc' = "returned" /\ ok' = FALSE
    BY <1>2 DEF Close, Consume, Return
  <2>2. ASSUME Whole'
        PROVE  pc' = "shrink" /\ read' # <<>> /\ bytes' = Text(Front(read')) \o <<0>>
    <3>1. error' = "none" /\ pc' = "shrink"
      BY <2>1, <2>2 DEF Whole
    <3>2. error = "none" /\ bytes' = bytes \o <<0>>
      BY <2>1, <3>1, AppendByteAdds
    <3>3. Unsigned /\ read' # <<>> /\ Front(read') = read
      BY <2>1, ConsumeText
    <3>4. bytes = Text(read)
      BY <2>1, <3>2, <3>3 DEF DInv, Decoded, Whole
    <3> QED BY <3>1, <3>2, <3>3, <3>4
  <2> QED BY <2>1, <2>2 DEF Decoded, Whole
<1>3. CASE Shrink
  <2>1. /\ pc = "shrink" /\ pc' = "returned" /\ UNCHANGED <<read, bytes>>
        /\ (ok' = TRUE /\ UNCHANGED error) \/ ok' = FALSE
    BY <1>3 DEF Shrink, Return, text
  <2>2. Unsigned
    BY <2>1 DEF Unsigned
  <2> QED BY <2>1, <2>2 DEF DInv, Decoded, Whole
<1> QED BY <1>1, <1>2, <1>3

\* (TextIsDecoded) What parse_string leaves in a string is the text between the
\* quotes, with its escapes and pairs of escapes as UTF-8 (parser.c:111-203),
\* for every text without a minus sign after \u whose units the mask of c16type
\* gets right, whatever failed.
THEOREM TextIsDecoded == MaskTells => (Spec => []DecodesRight)
<1> SUFFICES ASSUME MaskTells PROVE Spec => []DecodesRight
  OBVIOUS
<1>1. IInv /\ HInv /\ Waits /\ DInv /\ [Next]_vars => DInv'
  <2>1. DInv /\ UNCHANGED vars => DInv'
    BY DEF vars, string, text, DInv, Decoded, Whole, Unsigned
  <2> QED BY <2>1, CharDecodes, HexDecodes, PairDecodes, NoPairDecodes, UnitDecodes,
             EndDecodes DEF Next
<1>2. Init => HInv
  BY SMT DEF Init, HInv, Hashed, Whole, Ended
<1>3. Init => Waits
  BY SMT DEF Init, Waits, Half
<1>4. DInv => DecodesRight
  BY DEF DInv, Decoded, DecodesRight, Whole, Text
<1> QED BY InitIInv, StepIInv, InitDInv, <1>1, <1>2, StepHInv, <1>3, StepWaits, <1>4, PTL DEF Spec
=============================================================================
