------------------------------- MODULE Parser -------------------------------
(***************************************************************************)
(* The recursive descent of src/src/parser.c, called through json_parse    *)
(* (src/src/json.c), with the memory it owns at every point.               *)
(*                                                                         *)
(* The input is a sequence of tokens, chosen one by one as the parser      *)
(* looks at it; MaxTokens bounds it.  The C call stack is `stack`: a frame *)
(* is a call of parse_value that has entered parse_array or parse_object.  *)
(* Memory is counted in blocks: what a frame would free if it failed now.  *)
(*                                                                         *)
(* A string is one token.  What its characters do to the buffer of the     *)
(* string, where some failures of string_append are ignored, is the set    *)
(* Scan of the outcomes that parse_string has: "str" is what it takes for  *)
(* a string.  A number is one token, "num", or "longnum" when it has more  *)
(* than the 4094 characters that number_buffer has room for.  A number or  *)
(* a word that is broken is "junk", like a character that begins no token; *)
(* white space is not a token, it may stand before any of them.            *)
(*                                                                         *)
(* In a call where memory is scarce allocations may fail, in the release   *)
(* build: json_malloc_ and its sisters set the error "out of memory".  (The *)
(* debug build sets none.)                                                 *)
(*                                                                         *)
(* An operator named Bad... is a plausible mistake in the definition after *)
(* it: the property it breaks is named in PROJECT.json.                    *)
(***************************************************************************)
EXTENDS Integers, Sequences

CONSTANTS
  Token,        \* tokens of the input
  MaxTokens,    \* bound: length of the input
  MaxDepth      \* max_depth, 128 in the library

ASSUME TokenAssumption ==
  Token \subseteq {"[", "]", "{", "}", ",", ":", "str", "num", "word",
                   "badstr", "longnum", "junk", "0xFF"}
ASSUME MaxDepthAssumption == MaxDepth \in Nat
ASSUME MaxTokensAssumption == MaxTokens \in Nat

EOF == "EOF"
Unread == "unread"
Space == "space"

VARIABLES
  read,      \* the tokens consumed
  ahead,     \* the token at `offset`, if it was looked at
  gap,       \* white space stands before that token
  all,       \* argument of json_parse
  scarce,    \* whether allocations of this call may fail
  phase,     \* where the parser is
  stack,     \* calls of parse_array and parse_object under way
  depth,     \* the static variable `depth`
  ret,       \* blocks of the value just returned by parse_value; 0 for NULL
  error,     \* the error of the thread: "none", "syntax" or "oom"
  heap,      \* blocks allocated for the caller
  lost       \* history: blocks whose only pointer was overwritten

input == <<read, ahead, gap>>
memory == <<heap, lost>>
call == <<all, scarce>>
vars == <<input, call, phase, stack, depth, ret, error, memory>>

Top == stack[Len(stack)]
Below == SubSeq(stack, 1, Len(stack) - 1)
SetTop(frame) == stack' = [stack EXCEPT ![Len(stack)] = frame]

-----------------------------------------------------------------------------
(* Reading.                                                                *)

\* What may come next in the input.
Upcoming == IF ahead # Unread THEN {ahead}
            ELSE IF Len(read) < MaxTokens THEN Token \cup {EOF} ELSE {EOF}

\* skip_spaces, then peek
BadPeekAfterSpaces == IF gap THEN {Space} ELSE Upcoming
PeekAfterSpaces == Upcoming

\* peek returns a plain char, and the byte 0xFF as one is EOF
IsEof(t) == t = EOF \/ t = "0xFF"

\* The parser goes past token t, and is then in front of the next one.
Consume(t) == /\ read' = Append(read, t)
              /\ ahead' = Unread
              /\ gap' \in BOOLEAN

\* It has only looked at t.
Keep(t) == ahead' = t /\ gap' = FALSE /\ UNCHANGED read

-----------------------------------------------------------------------------
(* Allocating.  The release build reports a failure in json_malloc_; a     *)
(* message of errorf needs memory as well.                                 *)

Syntax == IF scarce THEN {"syntax", "none"} ELSE {"syntax"}

BadErrorf == UNCHANGED error
Errorf == error' \in Syntax
OutOfMemory == scarce /\ error' = "oom"

\* The outcomes of parse_string for a string (t = "str") and for text that is
\* a string only at its beginning (t = "badstr"): whether it returns true, the
\* blocks its buffer has then, the blocks lost on the way and the error set.
\*   An ordinary character is appended without looking at the result
\* (parser.c:199): when the growth of the buffer fails there, the old buffer
\* is lost (string.c:83) and later characters go to a new one.  A failure on
\* an escape, on the final null character or in string_shrink is returned.
\* Bound: a string loses its buffer at most once.
Scan(t) ==
  IF t = "str"
    THEN {[ok |-> TRUE, data |-> 1, lost |-> 0, error |-> error]}
           \cup (IF ~scarce THEN {}
                 ELSE [ok : {TRUE}, data : {1}, lost : {0, 1}, error : {"oom"}]
                        \cup [ok : {FALSE}, data : {0, 1}, lost : {0, 1}, error : {"oom"}])
    ELSE [ok : {FALSE}, data : {0, 1}, lost : IF scarce THEN {0, 1} ELSE {0},
          error : Syntax \cup IF scarce THEN {"oom"} ELSE {}]

-----------------------------------------------------------------------------
(* Returning from parse_value.                                             *)

\* `--depth; return value`
Return(blocks) == ret' = blocks /\ phase' = "returned" /\ depth' = depth - 1

\* The way out of parse_array or parse_object at `fail`, and of parse_value:
\* the key and the value at hand, the children and the value are freed.
BadFail(pending) ==
  /\ heap' = heap - (Top.own + pending)
  /\ stack' = Below
  /\ Return(0)
Fail(pending) ==
  /\ heap' = heap - (Top.own + Top.key + pending)
  /\ stack' = Below
  /\ Return(0)

\* The closing bracket was consumed: parse_value returns the whole value.
Close ==
  /\ stack' = Below
  /\ Return(Top.own)
  /\ UNCHANGED <<error, memory>>

-----------------------------------------------------------------------------
Init ==
  /\ read = <<>> /\ ahead = Unread /\ gap = FALSE
  /\ all = FALSE /\ scarce = FALSE
  /\ phase = "idle"
  /\ stack = <<>> /\ depth = 0 /\ ret = 0
  /\ error = "none"
  /\ heap = 0 /\ lost = 0

(* json_parse(json, a): parser_begin.  The caller has freed what the last  *)
(* call returned.  Memory is scarce or not.                                *)
BadBegin(a) ==
  /\ phase \in {"idle", "done"}
  /\ read' = <<>> /\ ahead' = Unread /\ gap' \in BOOLEAN
  /\ all' = a /\ scarce' \in BOOLEAN
  /\ phase' = "value"
  /\ ret' = 0
  /\ error' = "none"
  /\ heap' = 0 /\ lost' = 0
  /\ UNCHANGED <<stack, depth>>
Begin(a) ==
  /\ phase \in {"idle", "done"}
  /\ read' = <<>> /\ ahead' = Unread /\ gap' \in BOOLEAN
  /\ all' = a /\ scarce' \in BOOLEAN
  /\ phase' = "value"
  /\ depth' = 0 /\ ret' = 0
  /\ error' = "none"
  /\ heap' = 0 /\ lost' = 0
  /\ UNCHANGED stack

(* parse_value: the three ways to fail before or instead of dispatching.   *)
TooDeep ==
  /\ phase = "value" /\ depth + 1 > MaxDepth
  /\ depth' = depth + 1
  /\ Errorf
  /\ ret' = 0 /\ phase' = "returned"
  /\ UNCHANGED <<input, call, stack, memory>>

NoValue ==
  /\ phase = "value" /\ depth + 1 <= MaxDepth
  /\ depth' = depth + 1
  /\ OutOfMemory
  /\ ret' = 0 /\ phase' = "returned"
  /\ UNCHANGED <<input, call, stack, memory>>

\* Not the beginning of a value, or a number or a word that is broken.
NotAValue ==
  /\ phase = "value" /\ depth + 1 <= MaxDepth
  /\ \E t \in PeekAfterSpaces :
       /\ t \notin {"[", "{", "str", "badstr", "num", "longnum", "word"}
       /\ Keep(t)
  /\ Errorf
  /\ ret' = 0 /\ phase' = "returned"
  /\ UNCHANGED <<call, stack, depth, memory>>

\* number_append has no room for a character of the number, or for the null
\* character after it.
NumberTooLong ==
  /\ phase = "value" /\ depth + 1 <= MaxDepth
  /\ \E t \in PeekAfterSpaces \cap {"longnum"} : Keep(t)
  /\ Errorf
  /\ ret' = 0 /\ phase' = "returned"
  /\ UNCHANGED <<call, stack, depth, memory>>

\* A value of one block and one token, t.
Scalar(t) ==
  /\ phase = "value" /\ depth + 1 <= MaxDepth
  /\ t \in PeekAfterSpaces /\ Consume(t)
  /\ heap' = heap + 1
  /\ ret' = 1 /\ phase' = "returned"
  /\ UNCHANGED <<call, stack, depth, error, lost>>

\* parse_value_true, parse_value_false, parse_value_null
Word == Scalar("word")

\* parse_value_number
Number == Scalar("num")

\* parse_value_string
StringValue ==
  /\ phase = "value" /\ depth + 1 <= MaxDepth
  /\ \E t \in PeekAfterSpaces \cap {"str", "badstr"} :
       /\ Consume(t)
       /\ \E s \in Scan(t) :
            /\ error' = s.error
            /\ lost' = lost + s.lost
            /\ ret' = IF s.ok THEN 1 + s.data ELSE 0
            /\ heap' = heap + s.lost + ret'
  /\ phase' = "returned"
  /\ UNCHANGED <<call, stack, depth>>

\* parse_value_array and parse_value_object, up to the first skip_spaces
BadOpen ==
  /\ phase = "value" /\ depth + 1 <= MaxDepth
  /\ \E t \in PeekAfterSpaces \cap {"[", "{"} :
       /\ Consume(t)
       /\ stack' = Append(stack, [kind |-> IF t = "[" THEN "array" ELSE "object",
                                  own |-> 1, key |-> 0])
  /\ heap' = heap + 1
  /\ phase' = "first"
  /\ UNCHANGED <<call, depth, ret, error, lost>>
Open ==
  /\ phase = "value" /\ depth + 1 <= MaxDepth
  /\ \E t \in PeekAfterSpaces \cap {"[", "{"} :
       /\ Consume(t)
       /\ stack' = Append(stack, [kind |-> IF t = "[" THEN "array" ELSE "object",
                                  own |-> 1, key |-> 0])
  /\ depth' = depth + 1
  /\ heap' = heap + 1
  /\ phase' = "first"
  /\ UNCHANGED <<call, ret, error, lost>>

Closing == IF Top.kind = "array" THEN "]" ELSE "}"

\* `if (consume_optionally("]")) return true`
CloseEmpty ==
  /\ phase = "first"
  /\ \E t \in PeekAfterSpaces \cap {Closing} : Consume(t)
  /\ Close
  /\ UNCHANGED call

EnterLoop ==
  /\ phase = "first"
  /\ \E t \in PeekAfterSpaces \ {Closing} : Keep(t)
  /\ phase' = IF Top.kind = "array" THEN "value" ELSE "key"
  /\ UNCHANGED <<call, stack, depth, ret, error, memory>>

-----------------------------------------------------------------------------
(* The loop of parse_object, up to the value.                              *)

NoKey ==
  /\ phase = "key"
  /\ OutOfMemory
  /\ Fail(0)
  /\ UNCHANGED <<input, call, lost>>

\* The key is not a string: parse_string fails at once.
NotAKey ==
  /\ phase = "key"
  /\ \E t \in PeekAfterSpaces \ {"str", "badstr"} : Keep(t)
  /\ Errorf
  /\ Fail(0)
  /\ UNCHANGED <<call, lost>>

\* parse_string fails somewhere in the key.
BrokenKey ==
  /\ phase = "key"
  /\ \E t \in PeekAfterSpaces \cap {"str", "badstr"} :
       /\ Consume(t)
       /\ \E s \in Scan(t) :
            /\ ~s.ok
            /\ error' = s.error
            /\ lost' = lost + s.lost
            /\ heap' = heap + s.lost - Top.own
  /\ stack' = Below
  /\ Return(0)
  /\ UNCHANGED call

\* The key is a block for the struct and one for its characters.
Key ==
  /\ phase = "key"
  /\ \E t \in PeekAfterSpaces \cap {"str"} :
       /\ Consume(t)
       /\ \E s \in Scan(t) :
            /\ s.ok
            /\ error' = s.error
            /\ lost' = lost + s.lost
            /\ heap' = heap + s.lost + 1 + s.data
            /\ SetTop([Top EXCEPT !.key = 1 + s.data])
  /\ phase' = "colon"
  /\ UNCHANGED <<call, depth, ret>>

Colon ==
  /\ phase = "colon"
  /\ \E t \in PeekAfterSpaces \cap {":"} : Consume(t)
  /\ phase' = "value"
  /\ UNCHANGED <<call, stack, depth, ret, error, memory>>

NoColon ==
  /\ phase = "colon"
  /\ \E t \in PeekAfterSpaces \ {":"} : Keep(t)
  /\ Errorf
  /\ Fail(0)
  /\ UNCHANGED <<call, lost>>

-----------------------------------------------------------------------------
(* Both loops, when parse_value has returned.                              *)

InnerReturn == phase = "returned" /\ stack # <<>>

\* goes on with the next element
BadValueFailed ==
  /\ InnerReturn /\ ret = 0
  /\ phase' = IF Top.kind = "array" THEN "value" ELSE "key"
  /\ depth' = Len(stack)
  /\ UNCHANGED <<input, call, stack, ret, error, memory>>
ValueFailed ==
  /\ InnerReturn /\ ret = 0
  /\ Fail(0)
  /\ UNCHANGED <<input, call, error, lost>>

\* object_add or array_append: a new buffer for the first element; a later
\* growth replaces one block by another.  The key belongs to the object now.
Added(buffer) ==
  /\ SetTop([Top EXCEPT !.own = @ + Top.key + ret + buffer, !.key = 0])
  /\ heap' = heap + buffer
  /\ ret' = 0
  /\ phase' = "more"
  /\ UNCHANGED <<input, call, depth, error, lost>>

AddValue == InnerReturn /\ ret # 0 /\ Added(IF Top.own = 1 THEN 1 ELSE 0)

NoRoom ==
  /\ InnerReturn /\ ret # 0
  /\ OutOfMemory
  /\ Fail(ret)
  /\ UNCHANGED <<input, call, lost>>

CloseAfter ==
  /\ phase = "more"
  /\ \E t \in PeekAfterSpaces \cap {Closing} : Consume(t)
  /\ Close
  /\ UNCHANGED call

BadComma ==
  /\ phase = "more"
  /\ \E t \in PeekAfterSpaces \cap {","} : Consume(t)
  /\ phase' = "first"
  /\ UNCHANGED <<call, stack, depth, ret, error, memory>>
Comma ==
  /\ phase = "more"
  /\ \E t \in PeekAfterSpaces \cap {","} : Consume(t)
  /\ phase' = IF Top.kind = "array" THEN "value" ELSE "key"
  /\ UNCHANGED <<call, stack, depth, ret, error, memory>>

NoComma ==
  /\ phase = "more"
  /\ \E t \in PeekAfterSpaces \ {",", Closing} : Keep(t)
  /\ Errorf
  /\ Fail(0)
  /\ UNCHANGED <<call, lost>>

-----------------------------------------------------------------------------
(* parse_json_text, when the outermost parse_value has returned.           *)

OuterReturn == phase = "returned" /\ stack = <<>>

Trailing ==
  /\ OuterReturn /\ all /\ ret # 0
  /\ \E t \in PeekAfterSpaces : ~IsEof(t) /\ Keep(t)
  /\ Errorf
  /\ heap' = heap - ret
  /\ ret' = 0
  /\ phase' = "done"
  /\ UNCHANGED <<call, stack, depth, lost>>

Finish ==
  /\ OuterReturn
  /\ \E t \in PeekAfterSpaces : (all /\ ret # 0 => IsEof(t)) /\ Keep(t)
  /\ phase' = "done"
  /\ UNCHANGED <<call, stack, depth, ret, error, memory>>

-----------------------------------------------------------------------------
Step ==
  \/ TooDeep \/ NoValue \/ NotAValue \/ NumberTooLong
  \/ Word \/ Number \/ StringValue \/ Open \/ CloseEmpty \/ EnterLoop
  \/ NoKey \/ NotAKey \/ BrokenKey \/ Key \/ Colon \/ NoColon
  \/ ValueFailed \/ AddValue \/ NoRoom \/ CloseAfter \/ Comma \/ NoComma
  \/ Trailing \/ Finish

Next == Step \/ \E a \in BOOLEAN : Begin(a)

Spec == Init /\ [][Next]_vars

(* A call that has begun is not interrupted; nobody has to call again.     *)
FairSpec == Spec /\ WF_vars(Step)

-----------------------------------------------------------------------------
Frame == [kind : {"array", "object"}, own : Nat, key : Nat]

TypeOK ==
  /\ read \in Seq(Token) /\ ahead \in Token \cup {EOF, Unread} /\ gap \in BOOLEAN
  /\ all \in BOOLEAN /\ scarce \in BOOLEAN
  /\ phase \in {"idle", "value", "first", "key", "colon", "returned", "more", "done"}
  /\ stack \in Seq(Frame) /\ depth \in Nat
  /\ ret \in Nat /\ error \in {"none", "syntax", "oom"}
  /\ heap \in Nat /\ lost \in Nat

\* The blocks that the parser still knows of.
Owned ==
  LET sum[n \in 0 .. Len(stack)] ==
        IF n = 0 THEN 0 ELSE sum[n - 1] + stack[n].own + stack[n].key
  IN  sum[Len(stack)] + ret

\* (Ownership) At every point of the descent, whatever failed before, each
\* allocated block belongs to exactly one frame, to the value being returned,
\* or is one of those string.c:83 has lost: no path frees a block twice or
\* forgets one.
Ownership == heap = Owned + lost

\* (RecursionBounded) The C stack never holds more than max_depth calls of
\* parse_value: `depth` is in step with the calls, also after failures and
\* after a call that failed half-way (depth is not decremented there).
RecursionBounded ==
  /\ Len(stack) <= MaxDepth
  /\ phase \in {"value", "first", "key", "colon", "more"} => depth = Len(stack)

Grammar == INSTANCE JsonGrammar

\* (AcceptsOnlyJson) What json_parse returns a value for is a JSON text, nested
\* at most max_depth deep, and with `all` nothing follows it ("Is it required
\* to parse whole buffer or unparsed trailing bytes are allowed",
\* includes/json.h:298).  The byte 0xFF is not told from the end.
AcceptsOnlyJson ==
  phase = "done" /\ ret # 0 => read \in Grammar!Texts /\ (all => IsEof(ahead))

\* (RejectsOnlyBroken) With enough memory, json_parse returns NULL only if no
\* JSON text within its two limits, max_depth levels and 4094 characters for a
\* number, begins with what it has read.
RejectsOnlyBroken ==
  phase = "done" /\ ret = 0 /\ ~scarce =>
    CASE ahead = EOF -> read \notin Grammar!Texts
      [] ahead \in {Unread, Space} -> read \notin Grammar!ViablePrefixes
      [] OTHER -> Append(read, ahead) \notin Grammar!ViablePrefixes

\* (ErrorIffNull) `assert(!!value != !!strcmp(json_strerror(), ""))`
\* (src/src/json.c:285): with enough memory NULL comes with an error, a value
\* with none.
ErrorIffNull == phase = "done" /\ ~scarce => (ret # 0) # (error # "none")

\* (ParseEnds) Every call of json_parse returns.
ParseEnds == phase = "value" ~> phase = "done"
=============================================================================
