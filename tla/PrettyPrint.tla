----------------------------- MODULE PrettyPrint -----------------------------
(***************************************************************************)
(* json_pretty_print: the walk of src/src/pretty.c over a value, and the   *)
(* buffer it prints to with vsnprintf.                                     *)
(*                                                                         *)
(* A text is a sequence of cells, one per character: "nl" and "tab" are    *)
(* white space, "ctl" is a control character without an escape of its own. *)
(* One step is one jprintf, or the work between two of them.  `pending`    *)
(* are the texts that the code in front of the next step prints, each with *)
(* a jprintf of its own.  The C stack is `stack`, a frame per array or     *)
(* object under way.                                                       *)
(*                                                                         *)
(* The caller prints one value as often as he likes, first with size 0, as *)
(* src/prettify/main.c does to know the size it needs.                     *)
(*                                                                         *)
(* An operator named Bad... is a plausible mistake in the definition after *)
(* it: the property it breaks is named in PROJECT.json.                    *)
(***************************************************************************)
EXTENDS Integers, Sequences, FiniteSets, SequencesExt

CONSTANTS
  Character,  \* cells that are letters, digits and signs
  Value,      \* values, with their parts
  MaxSize     \* bound: the size of a buffer, but for the one that is as large
              \* as the call with size 0 says

Control == {"nl", "tab", "ctl"}
Cell == Character \cup Control
          \cup {"quote", "backslash", "slash", "n", "t", "[", "]", "{", "}", ",", ":", " "}
Text == Seq(Cell)

\* A string is its text up to the first null character; a number, true, false
\* and null are what print_json_number and print_json_value print for them.  A
\* blank entry of the table of an object has no key.
ASSUME ValueAssumption ==
  \A v \in Value :
    \/ v.kind \in {"str", "atom"} /\ v.text \in Text
    \/ v.kind = "array" /\ v.values \in Seq(Value)
    \/ v.kind = "object" /\ v.entries \in Seq([used : BOOLEAN, key : Text, value : Value])
ASSUME MaxSizeAssumption == MaxSize \in Nat

Nul == "NUL"

VARIABLES
  pc,        \* "idle", "walk", or "done" when json_pretty_print has returned
  at,        \* the value that print_json_value is called with, as a sequence
             \* of at most one
  pending,   \* texts to be printed before the walk goes on
  stack,     \* print_json_array and print_json_object under way
  indent, position, out_size,
  buffer,    \* what was written: a function from positions
  value,     \* argument of json_pretty_print
  text,      \* history: all that was printed by this call
  returned,  \* what json_pretty_print returned
  needed     \* what it returned with size 0; 0 before

walk == <<at, pending, stack, indent>>
output == <<position, buffer, text>>
vars == <<pc, walk, output, out_size, value, returned, needed>>

Top == stack[Len(stack)]
Below == SubSeq(stack, 1, Len(stack) - 1)
SetTop(frame) == stack' = [stack EXCEPT ![Len(stack)] = frame]

-----------------------------------------------------------------------------
(* Printing to the buffer.                                                 *)

Least(m, n) == IF m <= n THEN m ELSE n

\* vsnprintf(out_begin + position, size, ...): at most size - 1 characters and
\* a null character; nothing for size 0.
BadWritten(piece, size) == IF size = 0 THEN 0 ELSE Least(Len(piece), size)
Written(piece, size) == IF size = 0 THEN 0 ELSE Least(Len(piece), size - 1)

Filled(piece, size) ==
  LET last == position + Written(piece, size)
  IN  [p \in DOMAIN buffer \cup (position .. last) |->
         IF p = last THEN Nul
         ELSE IF p \in position .. last - 1 THEN piece[p - position + 1]
         ELSE buffer[p]]

BadRoom == IF position < out_size THEN out_size ELSE 0
Room == IF position < out_size THEN out_size - position ELSE 0

jprintf(piece) ==
  /\ buffer' = IF Room = 0 THEN buffer ELSE Filled(piece, Room)
  /\ position' = position + Len(piece)
  /\ text' = text \o piece

Emit ==
  /\ pc = "walk" /\ pending # <<>>
  /\ jprintf(Head(pending))
  /\ pending' = Tail(pending)
  /\ UNCHANGED <<pc, at, stack, indent, out_size, value, returned, needed>>

-----------------------------------------------------------------------------
(* What is printed.                                                        *)

\* print_indent with the indentation n
Tabs(n) == [k \in 1 .. n |-> <<"tab">>]

MustBeEscaped == {"quote", "backslash"} \cup Control

\* The letter after a backslash.
Letter == [c \in {"quote", "backslash", "slash", "nl", "tab"} |->
             CASE c = "nl" -> "n" [] c = "tab" -> "t" [] OTHER -> c]

\* The body of the loop of print_json_string, for the switch.  The default case
\* prints a control character twice.
Escaped(c) ==
  IF c \in DOMAIN Letter THEN <<"backslash", Letter[c]>>
  ELSE IF c = "ctl" THEN <<c, c>> ELSE <<c>>

StringPieces(s) ==
  LET slow == \E n \in 1 .. Len(s) : s[n] \in MustBeEscaped
  IN  <<<<"quote">>>> \o (IF slow THEN [n \in 1 .. Len(s) |-> Escaped(s[n])] ELSE <<s>>) \o <<<<"quote">>>>

-----------------------------------------------------------------------------
Ready == pc = "walk" /\ pending = <<>>

Init ==
  /\ pc = "idle"
  /\ at = <<>> /\ pending = <<>> /\ stack = <<>> /\ indent = 0
  /\ position = 0 /\ out_size = 0 /\ buffer = <<>>
  /\ value \in Value
  /\ text = <<>> /\ returned = 0 /\ needed = 0

(* json_pretty_print(out, size, value): pretty_print_begin.                *)
Begin(size) ==
  /\ pc \in {"idle", "done"}
  /\ pc' = "walk"
  /\ at' = <<value>> /\ pending' = <<>> /\ stack' = <<>> /\ indent' = 0
  /\ position' = 0 /\ out_size' = size /\ buffer' = <<>>
  /\ text' = <<>>
  /\ UNCHANGED <<value, returned, needed>>

(* print_json_value                                                        *)
Scalar ==
  /\ Ready /\ at # <<>>
  /\ \/ at[1].kind = "str" /\ pending' = StringPieces(at[1].text)
     \/ at[1].kind = "atom" /\ pending' = <<at[1].text>>
  /\ at' = <<>>
  /\ UNCHANGED <<pc, stack, indent, output, out_size, value, returned, needed>>

\* `object->size` is the number of entries that are used.
Empty ==
  /\ Ready /\ at # <<>>
  /\ \/ at[1].kind = "array" /\ at[1].values = <<>> /\ pending' = <<<<"[", " ", "]">>>>
     \/ /\ at[1].kind = "object" /\ \A n \in 1 .. Len(at[1].entries) : ~at[1].entries[n].used
        /\ pending' = <<<<"{", " ", "}">>>>
  /\ at' = <<>>
  /\ UNCHANGED <<pc, stack, indent, output, out_size, value, returned, needed>>

\* print_json_array and print_json_object up to their loops
Open ==
  /\ Ready /\ at # <<>>
  /\ \/ at[1].kind = "array" /\ at[1].values # <<>> /\ pending' = <<<<"[", "nl">>>>
     \/ /\ at[1].kind = "object" /\ \E n \in 1 .. Len(at[1].entries) : at[1].entries[n].used
        /\ pending' = <<<<"{", "nl">>>>
  /\ stack' = Append(stack, [value |-> at[1], i |-> 0, latch |-> FALSE])
  /\ indent' = indent + 1
  /\ at' = <<>>
  /\ UNCHANGED <<pc, output, out_size, value, returned, needed>>

\* The loops: the frame is in front of the element or entry i + 1.
BadComma == IF Top.i > 0 THEN <<<<",", "nl">>>> ELSE <<>>
Comma == IF Top.latch THEN <<<<",", "nl">>>> ELSE <<>>
Looping(kind) == Ready /\ at = <<>> /\ stack # <<>> /\ Top.value.kind = kind

Element ==
  /\ Looping("array") /\ Top.i < Len(Top.value.values)
  /\ pending' = Comma \o Tabs(indent)
  /\ at' = <<Top.value.values[Top.i + 1]>>
  /\ SetTop([Top EXCEPT !.i = @ + 1, !.latch = TRUE])
  /\ UNCHANGED <<pc, indent, output, out_size, value, returned, needed>>

BadBlank ==
  /\ Looping("object") /\ Top.i < Len(Top.value.entries)
  /\ ~Top.value.entries[Top.i + 1].used
  /\ UNCHANGED vars
Blank ==
  /\ Looping("object") /\ Top.i < Len(Top.value.entries)
  /\ ~Top.value.entries[Top.i + 1].used
  /\ SetTop([Top EXCEPT !.i = @ + 1])
  /\ UNCHANGED <<pc, at, pending, indent, output, out_size, value, returned, needed>>

Entry ==
  /\ Looping("object") /\ Top.i < Len(Top.value.entries)
  /\ LET e == Top.value.entries[Top.i + 1]
     IN  /\ e.used
         /\ pending' = Comma \o Tabs(indent) \o StringPieces(e.key) \o <<<<":", " ">>>>
         /\ at' = <<e.value>>
  /\ SetTop([Top EXCEPT !.i = @ + 1, !.latch = TRUE])
  /\ UNCHANGED <<pc, indent, output, out_size, value, returned, needed>>

Close ==
  /\ \/ Looping("array") /\ Top.i = Len(Top.value.values)
     \/ Looping("object") /\ Top.i = Len(Top.value.entries)
  /\ pending' = <<<<"nl">>>> \o Tabs(indent - 1)
                  \o IF Top.value.kind = "array" THEN <<<<"]">>>> ELSE <<<<"}">>>>
  /\ indent' = indent - 1
  /\ stack' = Below
  /\ UNCHANGED <<pc, at, output, out_size, value, returned, needed>>

(* pretty_print_end                                                        *)
BadReturned == position
Returned == IF position < out_size THEN position ELSE position + 1

End ==
  /\ Ready /\ at = <<>> /\ stack = <<>>
  /\ buffer' = IF position < out_size
               THEN [p \in DOMAIN buffer \cup {position} |-> IF p = position THEN Nul ELSE buffer[p]]
               ELSE buffer
  /\ returned' = Returned
  /\ needed' = IF out_size = 0 THEN returned' ELSE needed
  /\ pc' = "done"
  /\ UNCHANGED <<walk, position, text, out_size, value>>

Step == Emit \/ Scalar \/ Empty \/ Open \/ Element \/ Blank \/ Entry \/ Close \/ End
Next == Step \/ \E size \in (0 .. MaxSize) \cup {needed} : Begin(size)

Spec == Init /\ [][Next]_vars

(* A call that has begun is not interrupted; nobody has to call again.     *)
FairSpec == Spec /\ WF_vars(Step)

-----------------------------------------------------------------------------
Frame == [value : Value, i : Nat, latch : BOOLEAN]

TypeOK ==
  /\ pc \in {"idle", "walk", "done"}
  /\ at \in Seq(Value) /\ Len(at) <= 1
  /\ pending \in Seq(Text) /\ stack \in Seq(Frame) /\ indent = Len(stack)
  /\ position \in Nat /\ out_size \in Nat
  /\ value \in Value /\ text \in Text /\ returned \in Nat /\ needed \in Nat

\* (NeverOutside) "The function doesn't write more than that" (json.h:311):
\* nothing is written outside of the buffer, at any size, in the middle of any
\* jprintf or by pretty_print_end.
NeverOutside == DOMAIN buffer \subseteq 0 .. out_size - 1

\* (TruncatedRight) "If size != 0 output guaranteed have trailing '\0'"
\* (json.h:309): the buffer holds as much of the text as fits, a null character
\* after it, and nothing else, wherever the text was cut.
TruncatedRight ==
  pc = "done" /\ out_size > 0 =>
    LET n == Least(Len(text), out_size - 1)
    IN  /\ DOMAIN buffer = 0 .. n
        /\ buffer[n] = Nul
        /\ \A p \in 0 .. n - 1 : buffer[p] = text[p + 1]

\* (PrecalculatedFits) "passing size = 0 allows to precalculate out buffer size"
\* (json.h:307): a buffer of the size that this call returned takes the whole
\* text with its null character.
PrecalculatedFits ==
  pc = "done" /\ needed > 0 /\ out_size = needed =>
    returned = Len(text) /\ Len(text) < out_size

\* A reader of JSON, behind one more cell: outside of strings he sees all but white
\* space, inside the cells with escapes undone.
White == {" ", "nl", "tab"}
See(s, c) ==
  CASE s.mode = "outside" /\ c \in White -> s
    [] s.mode = "outside" /\ c \notin White ->
         [mode |-> IF c = "quote" THEN "inside" ELSE "outside", seen |-> Append(s.seen, <<"out", c>>)]
    [] s.mode = "inside" /\ c = "quote" -> [mode |-> "outside", seen |-> Append(s.seen, <<"out", c>>)]
    [] s.mode = "inside" /\ c = "backslash" -> [s EXCEPT !.mode = "escape"]
    [] s.mode = "inside" /\ c \notin {"quote", "backslash"} ->
         [s EXCEPT !.seen = Append(@, <<IF c \in Control THEN "raw" ELSE "in", c>>)]
    [] s.mode = "escape" ->
         [mode |-> "inside",
          seen |-> s.seen \o SetToSeq({<<"in", d>> : d \in {d \in DOMAIN Letter : Letter[d] = c}})]
Read(t) ==
  LET read[n \in 0 .. Len(t)] ==
        IF n = 0 THEN [mode |-> "outside", seen |-> <<>>] ELSE See(read[n - 1], t[n])
  IN  read[Len(t)].seen

\* What he has to see of value v, if `meaning` says it of its parts.  (A blank entry
\* leaves nothing to be listed.)
Out(t) == [n \in DOMAIN t |-> <<"out", t[n]>>]
Str(s) == Out(<<"quote">>) \o [n \in DOMAIN s |-> <<"in", s[n]>>] \o Out(<<"quote">>)
CommaList(items) ==
  LET list[n \in 0 .. Len(items)] ==
        IF n = 0 THEN <<>>
        ELSE IF items[n] = <<>> THEN list[n - 1]
        ELSE IF list[n - 1] = <<>> THEN items[n]
        ELSE list[n - 1] \o Out(<<",">>) \o items[n]
  IN  list[Len(items)]
Member(e, seen) == IF e.used THEN Str(e.key) \o Out(<<":">>) \o seen ELSE <<>>
Content(v, meaning) ==
  CASE v.kind = "str" -> Str(v.text)
    [] v.kind = "atom" -> Out(v.text)
    [] v.kind = "array" ->
         Out(<<"[">>) \o CommaList([n \in DOMAIN v.values |-> meaning[v.values[n]]]) \o Out(<<"]">>)
    [] v.kind = "object" ->
         Out(<<"{">>)
           \o CommaList([n \in DOMAIN v.entries |-> Member(v.entries[n], meaning[v.entries[n].value])])
           \o Out(<<"}">>)
Meaning[v \in Value] == Content(v, Meaning)

\* (PrintsTheValue) The text printed is JSON for the value: a reader finds each
\* bracket, comma and colon in its place, and every string, with its quotes,
\* backslashes and control characters escaped, as it was.
PrintsTheValue == pc = "done" => Read(text) = Meaning[value]

\* (PrintingEnds) Every call returns.
PrintingEnds == pc = "walk" ~> pc = "done"
=============================================================================
