----------------------------- MODULE ParseString -----------------------------
(***************************************************************************)
(* parse_string of src/src/parser.c with the buffer of src/src/string.c    *)
(* that it fills: what module Parser takes for one token.                  *)
(*                                                                         *)
(* The text between the quotes is a sequence of elements, chosen one by    *)
(* one as parse_string looks at them: an ordinary byte, an escape of one   *)
(* letter (`code` is the byte it stands for), \u and four characters that  *)
(* strtoul reads (`code` is the char32_t it makes of them), and two that   *)
(* are refused: "bad" is a control character, a null character or an       *)
(* unknown escape, "badhex" a \u that parse_hex4 refuses.                  *)
(*                                                                         *)
(* Four characters that strtoul reads are not always four digits: with     *)
(* spaces, a plus sign or an 0x before fewer of them the number is below   *)
(* 2^12, and with a minus sign, as in \u-001, it is 2^32 less one of those *)
(* and no code point.  c16type and c16pairtoc32 see its lowest 16 bits.    *)
(*                                                                         *)
(* The hash is the sequence of the bytes that went into it.                *)
(*                                                                         *)
(* An operator named Bad... is a plausible mistake in the definition after *)
(* it: the property it breaks is named in PROJECT.json.                    *)
(***************************************************************************)
EXTENDS Utf, SequencesExt

CONSTANTS
  Element,          \* elements of the text
  MaxElements,      \* bound: length of the text
  InitialCapacity,  \* INITIAL_CAPACITY, 32 in the library
  MemoryFails,      \* whether allocations may fail
  MaxLost           \* bound: buffers a string may lose

ASSUME ElementAssumption ==
  Element \subseteq [kind : {"char", "escape", "bad", "badhex"}, code : Char16]
                     \cup [kind : {"u"}, code : Nat]
ASSUME StringBoundsAssumption ==
  MaxElements \in Nat /\ InitialCapacity \in Nat \ {0} /\ MaxLost \in Nat

Quote == [kind |-> "quote", code |-> 34]
End == [kind |-> "end", code |-> 0]
Unread == [kind |-> "unread", code |-> 0]

\* A byte of a block that nothing was written to.
Garbage == 256
NoHigh == 0

VARIABLES
  read,      \* elements consumed
  ahead,     \* the element at `offset`, if it was looked at
  pc,        \* where parse_string is
  high,      \* p, when it waits for the second half of a pair
  pending,   \* bytes of c8 that are still to be appended
  capacity,  \* string->capacity
  block,     \* bytes of the block string->data points to; 0 for NULL
  bytes,     \* what is in the string; string->size is its length
  hash,      \* string->hash
  error,     \* the error of the thread: "none", "syntax" or "oom"
  lost,      \* history: blocks whose only pointer was overwritten
  ok         \* what parse_string returned

text == <<read, ahead>>
string == <<capacity, block, bytes, hash>>
vars == <<text, pc, high, pending, string, error, lost, ok>>

size == Len(bytes)

-----------------------------------------------------------------------------
(* string_append, which asks string_reserve for one byte more.             *)

Fits == size + 1 <= capacity

\* The loop doubles once: twice the capacity is always one more than `size`.
NewCapacity == 2 * (IF capacity = 0 THEN InitialCapacity ELSE capacity)

\* A new block in place of one that was lost holds nothing of the string.
Contents == IF block = 0 THEN [n \in 1 .. size |-> Garbage] ELSE bytes

BadAppendByte(b) ==
  /\ IF Fits THEN UNCHANGED <<capacity, block>>
     ELSE capacity' = NewCapacity /\ block' = NewCapacity
  /\ bytes' = Append(Contents, b)
  /\ hash' = IF b = 0 THEN hash ELSE Append(hash, b)
  /\ UNCHANGED <<error, lost>>
AppendByte(b) ==
  /\ IF Fits THEN UNCHANGED <<capacity, block>>
     ELSE capacity' = NewCapacity /\ block' = NewCapacity
  /\ bytes' = Append(Contents, b)
  /\ hash' = Append(hash, b)
  /\ UNCHANGED <<error, lost>>

\* json_realloc fails and its NULL overwrites string->data.
BadNoRoomGrown ==
  /\ MemoryFails /\ ~Fits
  /\ block = 0 \/ lost < MaxLost
  /\ block' = 0 /\ capacity' = NewCapacity
  /\ lost' = IF block = 0 THEN lost ELSE lost + 1
  /\ error' = "oom"
  /\ UNCHANGED <<bytes, hash>>
NoRoom ==
  /\ MemoryFails /\ ~Fits
  /\ block = 0 \/ lost < MaxLost
  /\ block' = 0
  /\ lost' = IF block = 0 THEN lost ELSE lost + 1
  /\ error' = "oom"
  /\ UNCHANGED <<capacity, bytes, hash>>

-----------------------------------------------------------------------------
Upcoming == IF ahead # Unread THEN {ahead}
            ELSE {Quote, End} \cup IF Len(read) < MaxElements THEN Element ELSE {}

Consume(e) == e \in Upcoming /\ read' = Append(read, e) /\ ahead' = Unread

Return(b) == ok' = b /\ pc' = "returned"

\* A message of errorf needs memory as well.
Errorf == error' \in IF MemoryFails THEN {"syntax", "none"} ELSE {"syntax"}

Init ==
  /\ read = <<>> /\ ahead = Unread
  /\ pc = "loop" /\ high = NoHigh /\ pending = <<>>
  /\ capacity = 0 /\ block = 0 /\ bytes = <<>> /\ hash = <<>>
  /\ error = "none" /\ lost = 0 /\ ok = FALSE

(* An ordinary byte; string_append may fail and nobody looks (line 199).   *)
Char ==
  /\ pc = "loop"
  /\ \E e \in Upcoming :
       /\ e.kind = "char" /\ Consume(e)
       /\ AppendByte(e.code) \/ NoRoom
  /\ UNCHANGED <<pc, high, pending, ok>>

(* An escape of one letter.                                                *)
Escape ==
  /\ pc = "loop"
  /\ \E e \in Upcoming :
       /\ e.kind = "escape" /\ Consume(e)
       /\ \/ AppendByte(e.code) /\ UNCHANGED <<pc, ok>>
          \/ NoRoom /\ Return(FALSE)
  /\ UNCHANGED <<high, pending>>

(* \u and its digits: the first half of a pair, or all of a code point.    *)
\* append_unicode_code_point(string, p), which asks c32toc8 for the bytes.
BadUnicode(p) ==
  /\ high' = NoHigh
  /\ pending' = c32toc8(p)
  /\ pc' = IF pending' = <<>> THEN "loop" ELSE "append"
  /\ UNCHANGED <<error, ok>>
Unicode(p) ==
  /\ high' = NoHigh
  /\ \/ p \in CodePoint /\ pending' = c32toc8(p) /\ pc' = "append" /\ UNCHANGED <<error, ok>>
     \/ p \notin CodePoint /\ Errorf /\ Return(FALSE) /\ UNCHANGED pending

Hex ==
  /\ pc = "loop"
  /\ \E e \in Upcoming :
       /\ e.kind = "u" /\ Consume(e)
       /\ IF c16type(e.code) # "high" THEN Unicode(e.code)
          ELSE high' = e.code /\ pc' = "pair" /\ UNCHANGED <<pending, error, ok>>
  /\ UNCHANGED <<string, lost>>

\* consume_optionally("\\u"), and a second half follows
Pair ==
  /\ pc = "pair"
  /\ \E e \in Upcoming :
       /\ e.kind = "u" /\ c16type(e.code) = "low"
       /\ Consume(e)
       /\ Unicode(c16pairtoc32(high, e.code))
  /\ UNCHANGED <<string, lost>>

\* Something else follows: `offset` is left or restored.
BadNoPair ==
  /\ pc = "pair"
  /\ \E e \in Upcoming :
       /\ e.kind # "badhex" /\ ~(e.kind = "u" /\ c16type(e.code) = "low")
       /\ Consume(e)
  /\ Unicode(high)
  /\ UNCHANGED <<string, lost>>
NoPair ==
  /\ pc = "pair"
  /\ \E e \in Upcoming :
       /\ e.kind # "badhex" /\ ~(e.kind = "u" /\ c16type(e.code) = "low")
       /\ ahead' = e
  /\ Unicode(high)
  /\ UNCHANGED <<read, string, lost>>

(* The loop of append_unicode_code_point.                                  *)
Unit ==
  /\ pc = "append"
  /\ \/ /\ AppendByte(Head(pending))
        /\ pending' = Tail(pending)
        /\ pc' = IF Len(pending) = 1 THEN "loop" ELSE pc
        /\ UNCHANGED ok
     \/ NoRoom /\ Return(FALSE) /\ UNCHANGED pending
  /\ UNCHANGED <<text, high>>

(* What is refused, also where the second half of a pair may stand.        *)
Refuse ==
  /\ \/ pc = "loop" /\ \E e \in Upcoming : e.kind \in {"bad", "badhex", "end"} /\ Consume(e)
     \/ pc = "pair" /\ \E e \in Upcoming : e.kind = "badhex" /\ Consume(e)
  /\ Errorf
  /\ Return(FALSE)
  /\ UNCHANGED <<high, pending, string, lost>>

(* The closing quote: the null character, then string_shrink.              *)
Close ==
  /\ pc = "loop"
  /\ Consume(Quote)
  /\ \/ AppendByte(0) /\ pc' = "shrink" /\ UNCHANGED ok
     \/ NoRoom /\ Return(FALSE)
  /\ UNCHANGED <<high, pending>>

\* `capacity` keeps its value.
Shrink ==
  /\ pc = "shrink"
  /\ \/ block' = size /\ Return(TRUE) /\ UNCHANGED error
     \/ MemoryFails /\ error' = "oom" /\ Return(FALSE) /\ UNCHANGED block
  /\ UNCHANGED <<text, high, pending, capacity, bytes, hash, lost>>

Next == Char \/ Escape \/ Hex \/ Pair \/ NoPair \/ Unit \/ Refuse \/ Close \/ Shrink

Spec == Init /\ [][Next]_vars

-----------------------------------------------------------------------------
TypeOK ==
  /\ read \in Seq(Element \cup {Quote, End}) /\ ahead \in Element \cup {Quote, End, Unread}
  /\ pc \in {"loop", "pair", "append", "shrink", "returned"}
  /\ high \in Nat /\ pending \in Seq(Nat)
  /\ capacity \in Nat /\ block \in Nat
  /\ bytes \in Seq(Nat) /\ hash \in Seq(Nat)
  /\ error \in {"none", "syntax", "oom"} /\ lost \in Nat /\ ok \in BOOLEAN

\* (InsideBlock) What was written into the buffer was written inside its block,
\* and the next byte will be, also after a growth that failed, which leaves
\* `capacity` and `size` but no block, and a growth from nothing after that.
\* The last realloc leaves `capacity` larger than the block.
InsideBlock ==
  /\ block # 0 => size <= block
  /\ pc # "returned" => IF block = 0 THEN ~Fits ELSE capacity <= block

\* The bytes that each of the elements e stands for: what is no \u stands for
\* itself, and a pair of surrogates is one code point.
Meaning(e) ==
  LET high_(n) == n \in 1 .. Len(e) /\ e[n].kind = "u" /\ IsHigh(e[n].code)
      low(n) == n \in 1 .. Len(e) /\ e[n].kind = "u" /\ IsLow(e[n].code)
      point(n) == IF high_(n) /\ low(n + 1)
                  THEN 65536 + (e[n].code - 55296) * 1024 + (e[n + 1].code - 56320)
                  ELSE e[n].code
  IN  [n \in 1 .. Len(e) |-> IF e[n].kind # "u" THEN <<e[n].code>>
                            ELSE IF low(n) /\ high_(n - 1) THEN <<>>
                            ELSE c32toc8(point(n))]

\* The numbers after \u have no minus sign.
Unsigned == \A n \in DOMAIN read : read[n].kind = "u" => read[n].code \in Char16

\* (DecodesRight) The string holds the bytes of the text between the quotes, with
\* UTF-8 for its \u and pairs of them joined, and then a null character.  A
\* number with a minus sign, which may be joined as half of a pair, means nothing.
DecodesRight ==
  pc = "returned" /\ ok /\ error = "none" /\ Unsigned =>
    bytes = FlattenSeq(Meaning(Front(read))) \o <<0>>

\* string_hash: it stops at the first null character, which it includes.
StringHash(s) ==
  LET zeros == {n \in DOMAIN s : s[n] = 0}
  IN  IF zeros = {} THEN s ELSE SubSeq(s, 1, CHOOSE n \in zeros : \A m \in zeros : n <= m)

\* (HashFindsKey) The hash that string_append has computed on the way is the
\* one that string_hash computes of the text when the key is looked up with
\* json_object_lookup, unless the text has a null character inside.
HashFindsKey ==
  pc = "returned" /\ ok /\ error = "none" /\ (\A n \in 1 .. size - 1 : bytes[n] # 0) =>
    hash = StringHash(bytes)

\* The n-th of the elements e is joined with the next one, as c16type sees them.
Half(e, n, type) == n \in DOMAIN e /\ e[n].kind = "u" /\ c16type(e[n].code) = type
Joins(e, n) == Half(e, n, "high") /\ Half(e, n + 1, "low")

\* What no string can be made of: a number that is no code point is only
\* accepted as half of a pair.
IllFormed(e, n) ==
  \/ e[n].kind \in {"bad", "badhex", "end"}
  \/ e[n].kind = "u" /\ e[n].code \notin CodePoint /\ ~Joins(e, n - 1) /\ ~Joins(e, n)

\* The descent takes a string for one token: "str" is one that parse_string can
\* make a string of, not always one that JSON knows.
WellFormed == read # <<>> /\ \A n \in DOMAIN read : ~IllFormed(read, n)
Outcome == [ok |-> ok, data |-> IF block = 0 THEN 0 ELSE 1, lost |-> lost, error |-> error]

Descent == INSTANCE Parser WITH
  Token <- {"str", "badstr"}, MaxTokens <- 1, MaxDepth <- 1, scarce <- MemoryFails,
  read <- <<>>, ahead <- "unread", gap <- FALSE, all <- FALSE, phase <- "value",
  stack <- <<>>, depth <- 0, ret <- 0, error <- "none", heap <- 0, lost <- 0

\* (ImplementsScan) What Parser assumes of a string, the set Scan of outcomes,
\* is what parse_string does character by character: its answer, its error, and
\* the blocks that it holds and that it has lost.
ImplementsScan ==
  pc = "returned" =>
    Outcome \in Descent!Scan(IF WellFormed THEN "str" ELSE "badstr")
=============================================================================
