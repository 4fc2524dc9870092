---------------------------- MODULE ParserProofs ----------------------------
(***************************************************************************)
(* Theorems about the descent of the parser (module Parser), for every set *)
(* of tokens, length of input and max_depth, whether allocations may fail  *)
(* or not.                                                                 *)
(*                                                                         *)
(* RecursionBounded is not inductive: `depth` is not decremented when      *)
(* parse_value gives up early, so that between the failure and the end of  *)
(* the call it is ahead of the stack.  Counted says by how much it may be, *)
(* and that this happens only where no further value is parsed.            *)
(*                                                                         *)
(* Ownership adds up the frames with a recursive function.  The lemmas on  *)
(* Sum say what one frame more, one frame less and another frame at the    *)
(* top do to that sum (its values are shown to exist, and to be unique, by *)
(* a least counterexample).  What makes Ownership inductive is Held: where *)
(* a frame holds a key and where a value is at hand, so that each way out  *)
(* frees all there is.                                                     *)
(*                                                                         *)
(* What was read is related to the grammar (module JsonGrammar) by two     *)
(* invariants: Sound, that the input read is the beginning of a text, cut  *)
(* along the stack, and Complete, that with enough memory the rest of any  *)
(* text which begins like the input is what the frames still wait for.     *)
(***************************************************************************)
EXTENDS Parser, SequenceTheorems, WellFoundedInduction, TLAPS

\* A frame owns its value at least.
Shape ==
  /\ stack \in Seq([kind : {"array", "object"}, own : Nat \ {0}, key : Nat])
  /\ depth \in Nat /\ ret \in Nat
  /\ all \in BOOLEAN /\ scarce \in BOOLEAN
  /\ phase \in {"idle", "value", "first", "key", "colon", "returned", "more", "done"}
  /\ error \in {"none", "syntax", "oom"}

\* The loops of parse_array and parse_object have a frame.
Framed ==
  /\ phase \in {"idle", "done"} => stack = <<>>
  /\ phase \in {"first", "key", "colon", "more"} => stack # <<>>

\* How far `depth` may be from the number of calls.
Counted ==
  /\ Len(stack) <= MaxDepth
  /\ phase \in {"value", "first", "key", "colon", "more"} => depth = Len(stack)
  /\ phase = "returned" => depth >= Len(stack) /\ (ret # 0 => depth = Len(stack))

\* With enough memory a failure has an error from the moment it occurs.
Reported ==
  ~scarce =>
    IF phase \in {"returned", "done"} THEN (ret # 0) # (error # "none")
                                      ELSE phase # "idle" => error = "none"

IInv == Shape /\ Framed /\ Counted /\ Reported

-----------------------------------------------------------------------------
(* The stack.                                                              *)

\* Taking off the last element, or replacing it, leaves a sequence.
LEMMA StackOps ==
  ASSUME NEW S, NEW s \in Seq(S), s # <<>>
  PROVE  /\ Len(s) \in Nat \ {0}
         /\ s[Len(s)] \in S
         /\ SubSeq(s, 1, Len(s) - 1) \in Seq(S)
         /\ Len(SubSeq(s, 1, Len(s) - 1)) = Len(s) - 1
         /\ \A e \in S : /\ [s EXCEPT ![Len(s)] = e] \in Seq(S)
                         /\ Len([s EXCEPT ![Len(s)] = e]) = Len(s)
                         /\ [s EXCEPT ![Len(s)] = e] # <<>>
<1>1. Len(s) \in Nat \ {0}
  BY EmptySeq
<1>2. s[Len(s)] \in S
  BY <1>1
<1>3. /\ SubSeq(s, 1, Len(s) - 1) \in Seq(S)
      /\ Len(SubSeq(s, 1, Len(s) - 1)) = Len(s) - 1
  <2> DEFINE n == Len(s) - 1
  <2>1. n \in Int /\ \A j \in 1 .. n : s[j] \in S
    BY <1>1
  <2>2. /\ SubSeq(s, 1, n) \in Seq(S)
        /\ Len(SubSeq(s, 1, n)) = IF 1 <= n THEN n - 1 + 1 ELSE 0
    BY <2>1, SubSeqProperties
  <2>3. n \in Nat
    BY <1>1
  <2> HIDE DEF n
  <2>4. Len(SubSeq(s, 1, n)) = n
    BY <2>2, <2>3
  <2> QED BY <2>2, <2>4 DEF n
<1>4. ASSUME NEW e \in S
      PROVE  /\ [s EXCEPT ![Len(s)] = e] \in Seq(S)
             /\ Len([s EXCEPT ![Len(s)] = e]) = Len(s)
             /\ [s EXCEPT ![Len(s)] = e] # <<>>
  BY <1>1, ExceptSeq
<1> QED BY <1>1, <1>2, <1>3, <1>4

FrameSet == [kind : {"array", "object"}, own : Nat \ {0}, key : Nat]

-----------------------------------------------------------------------------
(* The inductive invariant.                                                *)

LEMMA InitIInv == Init => IInv
<1> SUFFICES ASSUME Init PROVE IInv
  OBVIOUS
<1>1. Shape /\ Framed /\ Reported
  BY EmptySeq DEF Init, Shape, Framed, Reported
<1>2. Counted
  BY MaxDepthAssumption DEF Init, Counted
<1> QED BY <1>1, <1>2 DEF IInv

LEMMA StutterIInv == IInv /\ UNCHANGED vars => IInv'
  BY DEF IInv, Shape, Framed, Counted, Reported, vars, input, memory, call

LEMMA BeginIInv == ASSUME IInv, NEW a \in BOOLEAN, Begin(a) PROVE IInv'
<1> USE DEF IInv, Begin
<1>1. Shape'
  BY DEF Shape
<1>2. Framed' /\ Reported'
  BY DEF Framed, Reported
<1>3. Counted'
  BY DEF Shape, Framed, Counted
<1> QED BY <1>1, <1>2, <1>3

\* parse_value fails before it has dispatched.
LEMMA NoValueIInv == ASSUME IInv, TooDeep \/ NoValue \/ NotAValue \/ NumberTooLong PROVE IInv'
<1>1. /\ phase = "value" /\ phase' = "returned" /\ ret' = 0
      /\ depth' \in {depth, depth + 1}
      /\ UNCHANGED <<all, scarce, stack>>
  BY DEF TooDeep, NoValue, NotAValue, NumberTooLong, call
<1>2. error' \in {"none", "syntax", "oom"} /\ (~scarce => error' # "none")
  BY DEF TooDeep, NoValue, NotAValue, NumberTooLong, Errorf, Syntax, OutOfMemory, call
<1>3. Shape' /\ Framed' /\ Reported'
  BY <1>1, <1>2 DEF IInv, Shape, Framed, Reported
<1>4. Counted'
  BY <1>1, LenProperties DEF IInv, Shape, Counted
<1> QED BY <1>3, <1>4 DEF IInv

-----------------------------------------------------------------------------
(* Steps that go on.                                                       *)

\* What parse_string may answer, and that without failures of memory it has
\* no error exactly when it returns true.
LEMMA ScanOutcome ==
  ASSUME NEW t, NEW s \in Scan(t), error \in {"none", "syntax", "oom"}
  PROVE  /\ s.data \in {0, 1} /\ s.lost \in {0, 1}
         /\ s.error \in {"none", "syntax", "oom"}
         /\ (~scarce /\ error = "none") => (s.ok <=> s.error = "none")
<1> DEFINE Clean == [ok |-> TRUE, data |-> 1, lost |-> 0, error |-> error]
           Ignored == [ok : {TRUE}, data : {1}, lost : {0, 1}, error : {"oom"}]
           Returned == [ok : {FALSE}, data : {0, 1}, lost : {0, 1}, error : {"oom"}]
           Malformed == [ok : {FALSE}, data : {0, 1}, lost : IF scarce THEN {0, 1} ELSE {0},
                         error : Syntax \cup IF scarce THEN {"oom"} ELSE {}]
<1>1. \/ s = Clean
      \/ scarce /\ s \in Ignored
      \/ scarce /\ s \in Returned
      \/ s \in Malformed
  BY ZenonT(30) DEF Scan
<1>2. CASE s = Clean
  BY <1>2
<1>3. CASE scarce /\ s \in Ignored
  BY <1>3
<1>4. CASE scarce /\ s \in Returned
  BY <1>4
<1>5. CASE s \in Malformed
  <2>1. s.data \in {0, 1} /\ s.error \in Syntax \cup IF scarce THEN {"oom"} ELSE {}
    BY <1>5
  <2>4. s.lost \in {0, 1}
    BY <1>5
  <2>2. s.ok = FALSE
    BY <1>5
  <2>3. s.error \in {"none", "syntax", "oom"} /\ (~scarce => s.error = "syntax")
    BY <2>1 DEF Syntax
  <2> QED BY <2>1, <2>2, <2>3, <2>4, Zenon
<1> QED BY <1>1, <1>2, <1>3, <1>4, <1>5

\* A value that is no container was parsed, or a string failed.
LEMMA ScalarIInv == ASSUME IInv, Word \/ Number \/ StringValue PROVE IInv'
<1>1. /\ phase = "value" /\ phase' = "returned"
      /\ UNCHANGED <<all, scarce, stack, depth>>
  BY DEF Word, Number, Scalar, StringValue, call
<1>2. /\ ret' \in Nat /\ error' \in {"none", "syntax", "oom"}
      /\ ~scarce => ((ret' # 0) # (error' # "none"))
  <2>1. CASE Word \/ Number
    BY <2>1 DEF Word, Number, Scalar, IInv, Shape, Reported
  <2>2. CASE StringValue
    <3>1. PICK t \in {"str", "badstr"} :
            \E s \in Scan(t) : error' = s.error /\ ret' = IF s.ok THEN 1 + s.data ELSE 0
      BY <2>2 DEF StringValue
    <3> PICK s \in Scan(t) : error' = s.error /\ ret' = IF s.ok THEN 1 + s.data ELSE 0
      BY <3>1
    <3>2. /\ s.data \in {0, 1}
          /\ s.error \in {"none", "syntax", "oom"}
          /\ (~scarce /\ error = "none") => (s.ok <=> s.error = "none")
      BY ScanOutcome DEF IInv, Shape
    <3>3. ~scarce => error = "none"
      BY <1>1 DEF IInv, Reported
    <3>4. ret' \in Nat /\ (ret' # 0 <=> s.ok)
      BY <3>2
    <3> QED BY <3>2, <3>3, <3>4
  <2> QED BY <2>1, <2>2
<1>3. Shape' /\ Framed' /\ Reported'
  BY <1>1, <1>2 DEF IInv, Shape, Framed, Reported
<1>4. Counted'
  BY <1>1, LenProperties DEF IInv, Shape, Counted
<1> QED BY <1>3, <1>4 DEF IInv

\* parse_value calls parse_array or parse_object.
LEMMA OpenIInv == ASSUME IInv, Open PROVE IInv'
<1>1. PICK f \in FrameSet : stack' = Append(stack, f)
  <2>1. PICK t : stack' = Append(stack, [kind |-> IF t = "[" THEN "array" ELSE "object",
                                         own |-> 1, key |-> 0])
    BY DEF Open, call
  <2>2. [kind |-> IF t = "[" THEN "array" ELSE "object", own |-> 1, key |-> 0] \in FrameSet
    BY DEF FrameSet
  <2> QED BY <2>1, <2>2
<1>2. /\ phase = "value" /\ phase' = "first"
      /\ depth + 1 <= MaxDepth /\ depth' = depth + 1
      /\ UNCHANGED <<all, scarce, ret, error>>
  BY DEF Open, call
<1>3. stack \in Seq(FrameSet)
  BY DEF IInv, Shape, FrameSet
<1>4. stack' \in Seq(FrameSet) /\ stack' # <<>> /\ Len(stack') = Len(stack) + 1
  BY <1>1, <1>3, AppendProperties
<1>5. Shape' /\ Framed' /\ Reported'
  BY <1>2, <1>4 DEF IInv, Shape, Framed, Reported, FrameSet
<1>6. Counted'
  BY <1>2, <1>3, <1>4, LenProperties, MaxDepthAssumption DEF IInv, Shape, Counted
<1> QED BY <1>5, <1>6 DEF IInv

\* A step inside a loop that leaves the calls as they are.
LEMMA LoopIInv == ASSUME IInv, EnterLoop \/ Colon \/ Comma PROVE IInv'
<1>1. /\ phase \in {"first", "colon", "more"} /\ phase' \in {"value", "key"}
      /\ UNCHANGED <<all, scarce, stack, depth, ret, error>>
  BY DEF EnterLoop, Colon, Comma, memory, call
<1> QED BY <1>1 DEF IInv, Shape, Framed, Counted, Reported

\* A key was read, or a value added: the frame at the top changes.
LEMMA FrameIInv == ASSUME IInv, Key \/ AddValue PROVE IInv'
<1>1. stack # <<>> /\ stack \in Seq(FrameSet)
  BY DEF IInv, Framed, Shape, FrameSet, Key, AddValue, InnerReturn
<1>2. Top \in FrameSet
  BY <1>1, StackOps DEF Top
<1>3. \E f \in FrameSet : SetTop(f)
  <2>1. CASE Key
    <3>1. PICK s \in Scan("str") : s.ok /\ SetTop([Top EXCEPT !.key = 1 + s.data])
      BY <2>1 DEF Key
    <3>2. s.data \in {0, 1}
      BY ScanOutcome DEF IInv, Shape
    <3>3. [Top EXCEPT !.key = 1 + s.data] \in FrameSet
      BY <1>2, <3>2 DEF FrameSet
    <3> QED BY <3>1, <3>3
  <2>2. CASE AddValue
    <3>1. PICK b \in {0, 1} : SetTop([Top EXCEPT !.own = Top.own + Top.key + ret + b, !.key = 0])
      BY <2>2 DEF AddValue, Added
    <3>2. ret \in Nat
      BY DEF IInv, Shape
    <3>3. Top.own \in Nat \ {0} /\ Top.key \in Nat
      BY <1>2 DEF FrameSet
    <3>4. Top.own + Top.key + ret + b \in Nat \ {0}
      <4>1. \A x \in Nat \ {0}, y, z \in Nat, c \in {0, 1} : x + y + z + c \in Nat \ {0}
        OBVIOUS
      <4>2. b \in {0, 1}
        BY <3>1
      <4> QED BY <4>1, <4>2, <3>2, <3>3
    <3>5. [Top EXCEPT !.own = Top.own + Top.key + ret + b, !.key = 0] \in FrameSet
      BY <1>2, <3>4 DEF FrameSet
    <3> QED BY <3>1, <3>5
  <2> QED BY <2>1, <2>2
<1>4. stack' \in Seq(FrameSet) /\ Len(stack') = Len(stack) /\ stack' # <<>>
  BY <1>1, <1>3, StackOps DEF SetTop
<1>5. /\ phase' \in {"colon", "more"} /\ UNCHANGED <<all, scarce, depth>>
      /\ ret' \in {0, ret}
      /\ phase = "key" \/ (phase = "returned" /\ ret # 0)
  BY DEF Key, AddValue, Added, InnerReturn, call
<1>6. error' \in {"none", "syntax", "oom"} /\ (~scarce => error' = "none")
  <2>1. CASE Key
    <3>1. PICK s \in Scan("str") : s.ok /\ error' = s.error
      BY <2>1 DEF Key
    <3>2. phase = "key"
      BY <2>1 DEF Key
    <3>3. ~scarce => error = "none"
      BY <3>2 DEF IInv, Reported
    <3> QED BY <3>1, <3>3, ScanOutcome DEF IInv, Shape
  <2>2. CASE AddValue
    BY <2>2 DEF AddValue, Added, InnerReturn, IInv, Shape, Reported
  <2> QED BY <2>1, <2>2
<1>7. Shape' /\ Framed' /\ Reported'
  BY <1>4, <1>5, <1>6 DEF IInv, Shape, Framed, Reported, FrameSet
<1>8. Counted'
  BY <1>4, <1>5 DEF IInv, Shape, Counted
<1> QED BY <1>7, <1>8 DEF IInv

-----------------------------------------------------------------------------
(* Steps that leave parse_array or parse_object.                           *)

LEMMA PopIInv ==
  ASSUME IInv, stack # <<>>, stack' = Below, UNCHANGED <<all, scarce>>,
         phase \in {"first", "key", "colon", "more"} \/ (phase = "returned" /\ ret' = 0),
         Return(ret'), ret' \in Nat,
         error' \in {"none", "syntax", "oom"},
         ~scarce => ((ret' # 0) # (error' # "none"))
  PROVE  IInv'
<1>1. stack \in Seq(FrameSet)
  BY DEF IInv, Shape, FrameSet
<1>2. stack' \in Seq(FrameSet) /\ Len(stack') = Len(stack) - 1 /\ Len(stack) \in Nat \ {0}
  BY <1>1, StackOps DEF Below
<1>3. phase' = "returned" /\ depth' = depth - 1
  BY DEF Return
<1>4. depth \in Nat /\ depth >= Len(stack) /\ (ret' # 0 => depth = Len(stack))
  BY <1>2 DEF IInv, Shape, Counted
<1>5. Shape'
  BY <1>2, <1>3, <1>4 DEF IInv, Shape, FrameSet
<1>6. Framed' /\ Reported'
  BY <1>3 DEF Framed, Reported
<1>7. Counted'
  BY <1>2, <1>3, <1>4, MaxDepthAssumption DEF IInv, Counted
<1> QED BY <1>5, <1>6, <1>7 DEF IInv

LEMMA CloseIInv == ASSUME IInv, CloseEmpty \/ CloseAfter PROVE IInv'
<1>1. /\ phase \in {"first", "more"}
      /\ stack' = Below /\ UNCHANGED <<all, scarce, error>>
      /\ Return(Top.own)
  BY DEF CloseEmpty, CloseAfter, Close, call
<1>2. stack # <<>> /\ stack \in Seq(FrameSet)
  BY <1>1 DEF IInv, Framed, Shape, FrameSet
<1>3. Top.own \in Nat \ {0}
  <2>1. Top \in FrameSet
    BY <1>2, StackOps DEF Top
  <2> QED BY <2>1 DEF FrameSet
<1>4. ret' = Top.own
  BY <1>1 DEF Return
<1>5. error \in {"none", "syntax", "oom"} /\ (~scarce => error = "none")
  BY <1>1 DEF IInv, Shape, Reported
<1> QED BY <1>1, <1>2, <1>3, <1>4, <1>5, PopIInv

LEMMA FailIInv ==
  ASSUME IInv,
         NoKey \/ NotAKey \/ BrokenKey \/ NoColon \/ ValueFailed \/ NoRoom \/ NoComma
  PROVE  IInv'
<1>1. stack' = Below /\ UNCHANGED <<all, scarce>> /\ Return(0)
  BY DEF NoKey, NotAKey, BrokenKey, NoColon, ValueFailed, NoRoom, NoComma, Fail, call
<1>2. ret' = 0
  BY <1>1 DEF Return
<1>3. phase \in {"key", "colon", "more"} \/ (phase = "returned" /\ stack # <<>>)
  BY DEF NoKey, NotAKey, BrokenKey, NoColon, ValueFailed, NoRoom, NoComma, InnerReturn, call
<1>4. stack # <<>>
  BY <1>3 DEF IInv, Framed
<1>5. error' \in {"none", "syntax", "oom"} /\ (~scarce => error' # "none")
  <2>1. CASE NoKey \/ NotAKey \/ NoColon \/ NoRoom \/ NoComma
    BY <2>1 DEF NoKey, NotAKey, NoColon, NoRoom, NoComma, Errorf, Syntax, OutOfMemory
  <2>2. CASE BrokenKey
    <3>1. PICK t \in {"str", "badstr"} : \E s \in Scan(t) : ~s.ok /\ error' = s.error
      BY <2>2 DEF BrokenKey
    <3> PICK s \in Scan(t) : ~s.ok /\ error' = s.error
      BY <3>1
    <3>2. ~scarce => error = "none"
      BY <2>2 DEF BrokenKey, IInv, Reported
    <3> QED BY <3>2, ScanOutcome DEF IInv, Shape
  <2>3. CASE ValueFailed
    BY <2>3 DEF ValueFailed, InnerReturn, IInv, Shape, Reported
  <2> QED BY <2>1, <2>2, <2>3
<1> QED BY <1>1, <1>2, <1>3, <1>4, <1>5, PopIInv

\* parse_json_text returns.
LEMMA EndIInv == ASSUME IInv, Trailing \/ Finish PROVE IInv'
<1>1. /\ phase = "returned" /\ stack = <<>> /\ phase' = "done"
      /\ UNCHANGED <<all, scarce, stack, depth>>
  BY DEF Trailing, Finish, OuterReturn, call
<1>2. \/ ret' = 0 /\ error' \in Syntax
      \/ UNCHANGED <<ret, error>>
  BY DEF Trailing, Finish, Errorf
<1> QED BY <1>1, <1>2 DEF IInv, Shape, Framed, Counted, Reported, Syntax

LEMMA NextIInv == ASSUME IInv, Next PROVE IInv'
<1>1. CASE \E a \in BOOLEAN : Begin(a)
  BY <1>1, BeginIInv
<1>2. CASE Step
  BY <1>2, NoValueIInv, ScalarIInv, OpenIInv, LoopIInv, FrameIInv, CloseIInv, FailIInv,
     EndIInv DEF Step
<1> QED BY <1>1, <1>2 DEF Next

LEMMA SpecIInv == Spec => []IInv
<1>1. IInv /\ [Next]_vars => IInv'
  BY NextIInv, StutterIInv
<1> QED BY InitIInv, <1>1, PTL DEF Spec

-----------------------------------------------------------------------------
(* What the frames of a stack own together.                                *)

LEMMA LeastNatural ==
  ASSUME NEW S, S \subseteq Nat, S # {}
  PROVE  \E m \in S : \A k \in S : m <= k
<1>1. PICK m \in S : \A k \in S : ~(<<k, m>> \in OpToRel(<, Nat))
  BY NatLessThanWellFounded, WFMin
<1>2. \A k \in S : ~(k < m)
  BY <1>1 DEF OpToRel
<1> QED BY <1>2

\* Sums(s)[n] is what the first n frames own.
Sums(s) ==
  LET sum[n \in 0 .. Len(s)] == IF n = 0 THEN 0 ELSE sum[n - 1] + s[n].own + s[n].key
  IN  sum
Sum(s) == Sums(s)[Len(s)]

\* A frame has the blocks of its value, and those of a key.
Blocks(f) == f.own + f.key

LEMMA BlocksType == \A f \in Frame : f.own \in Nat /\ f.key \in Nat /\ Blocks(f) \in Nat
BY DEF Frame, Blocks

LEMMA SumsExist ==
  ASSUME NEW s \in Seq(Frame)
  PROVE  Sums(s) = [n \in 0 .. Len(s) |->
                      IF n = 0 THEN 0 ELSE Sums(s)[n - 1] + s[n].own + s[n].key]
<1> DEFINE Partial(m, f) ==
             f = [n \in 0 .. m |-> IF n = 0 THEN 0 ELSE f[n - 1] + s[n].own + s[n].key]
           Missing == {m \in 0 .. Len(s) : \A f : ~Partial(m, f)}
<1>1. Len(s) \in Nat
  OBVIOUS
<1>2. ASSUME Missing # {} PROVE FALSE
  <2>1. Missing \subseteq Nat
    BY <1>1
  <2> HIDE DEF Missing
  <2>2. PICK m \in Missing : \A k \in Missing : m <= k
    BY <1>2, <2>1, LeastNatural
  <2>0. m \in Nat /\ m - 1 \notin Missing
    BY <2>1, <2>2
  <2> USE DEF Missing
  <2>3. CASE m = 0
    <3> DEFINE z == [n \in 0 .. 0 |-> 0]
    <3>1. Partial(0, z)
      OBVIOUS
    <3> QED BY <2>2, <2>3, <3>1
  <2>4. CASE m # 0
    <3>1. m - 1 \in 0 .. Len(s) /\ m - 1 \notin Missing /\ m \in Nat
      <4>1. m \in 0 .. Len(s)
        BY <2>2
      <4> HIDE DEF Missing
      <4>2. m - 1 \in 0 .. Len(s)
        BY <1>1, <2>4, <4>1
      <4> QED BY <2>0, <4>2
    <3>2. PICK f : Partial(m - 1, f)
      BY <3>1
    <3> DEFINE g == [n \in 0 .. m |-> IF n = m THEN f[m - 1] + s[m].own + s[m].key ELSE f[n]]
    <3>3. ASSUME NEW n \in 0 .. m
          PROVE  g[n] = IF n = 0 THEN 0 ELSE g[n - 1] + s[n].own + s[n].key
      <4>1. CASE n = m
        BY <2>4, <3>1, <4>1
      <4>2. CASE n # m
        <5>1. n \in 0 .. m - 1 /\ g[n] = f[n]
          BY <3>1, <4>2
        <5>2. f[n] = IF n = 0 THEN 0 ELSE f[n - 1] + s[n].own + s[n].key
          BY <3>2, <5>1
        <5>3. n # 0 => g[n - 1] = f[n - 1]
          BY <3>1, <4>2
        <5> QED BY <5>1, <5>2, <5>3
      <4> QED BY <4>1, <4>2
    <3>4. Partial(m, g)
      BY <3>3
    <3> QED BY <2>2, <3>4
  <2> QED BY <2>3, <2>4
<1>3. PICK f : Partial(Len(s), f)
  BY <1>1, <1>2
<1> QED BY <1>3 DEF Sums

LEMMA SumsType ==
  ASSUME NEW s \in Seq(Frame), NEW n \in 0 .. Len(s)
  PROVE  Sums(s)[n] \in Nat
<1> DEFINE Odd == {m \in 0 .. Len(s) : Sums(s)[m] \notin Nat}
<1> SUFFICES ASSUME Odd # {} PROVE FALSE
  OBVIOUS
<1>1. Len(s) \in Nat /\ Odd \subseteq Nat
  OBVIOUS
<1> HIDE DEF Odd
<1>2. PICK m \in Odd : \A k \in Odd : m <= k
  BY <1>1, LeastNatural
<1>3. m \in Nat /\ m - 1 \notin Odd
  BY <1>1, <1>2
<1>4. m \in 0 .. Len(s) /\ Sums(s)[m] \notin Nat
  BY <1>2 DEF Odd
<1>5. m # 0
  BY <1>4, SumsExist
<1>6. m - 1 \in 0 .. Len(s) /\ m \in 1 .. Len(s)
  BY <1>1, <1>3, <1>4, <1>5
<1>7. Sums(s)[m - 1] \in Nat
  BY <1>3, <1>6 DEF Odd
<1>8. Sums(s)[m] = Sums(s)[m - 1] + s[m].own + s[m].key
  BY <1>4, <1>5, SumsExist
<1>9. s[m] \in Frame
  BY <1>6
<1> QED BY <1>4, <1>7, <1>8, <1>9, BlocksType

\* Stacks that agree on their first n frames own the same there.
LEMMA SumsAgree ==
  ASSUME NEW r \in Seq(Frame), NEW s \in Seq(Frame), NEW n \in Nat,
         n <= Len(r), n <= Len(s), \A k \in 1 .. n : r[k] = s[k]
  PROVE  Sums(r)[n] = Sums(s)[n]
<1> DEFINE Differ == {m \in 0 .. n : Sums(r)[m] # Sums(s)[m]}
<1> SUFFICES ASSUME Differ # {} PROVE FALSE
  OBVIOUS
<1>1. Differ \subseteq Nat /\ Len(r) \in Nat /\ Len(s) \in Nat
  OBVIOUS
<1> HIDE DEF Differ
<1>2. PICK m \in Differ : \A k \in Differ : m <= k
  BY <1>1, LeastNatural
<1>3. m \in Nat /\ m - 1 \notin Differ
  BY <1>1, <1>2
<1>4. m \in 0 .. n /\ Sums(r)[m] # Sums(s)[m]
  BY <1>2 DEF Differ
<1>5. m \in 0 .. Len(r) /\ m \in 0 .. Len(s)
  BY <1>1, <1>4
<1>6. m # 0
  BY <1>4, <1>5, SumsExist
<1>7. m - 1 \in 0 .. n /\ r[m] = s[m]
  BY <1>4, <1>6
<1>8. Sums(r)[m - 1] = Sums(s)[m - 1]
  BY <1>3, <1>7 DEF Differ
<1>9. Sums(r)[m] = Sums(r)[m - 1] + r[m].own + r[m].key
  BY <1>5, <1>6, SumsExist
<1>10. Sums(s)[m] = Sums(s)[m - 1] + s[m].own + s[m].key
  BY <1>5, <1>6, SumsExist
<1> QED BY <1>4, <1>7, <1>8, <1>9, <1>10

\* The sum of a stack and of what a step makes of it.
LEMMA SumOfEmpty == Sum(<<>>) = 0
<1>1. <<>> \in Seq(Frame) /\ Len(<<>>) = 0
  BY EmptySeq
<1> SUFFICES ASSUME NEW s \in Seq(Frame), s = <<>>, Len(s) = 0 PROVE Sum(s) = 0
  BY <1>1
<1>2. 0 \in 0 .. Len(s)
  OBVIOUS
<1>3. Sums(s)[0] = 0
  BY <1>2, SumsExist
<1> QED BY <1>3 DEF Sum

LEMMA SumOfTop ==
  ASSUME NEW s \in Seq(Frame), s # <<>>, NEW b, b = SubSeq(s, 1, Len(s) - 1)
  PROVE  /\ Sum(b) \in Nat
         /\ Sum(s) = Sum(b) + Blocks(s[Len(s)])
         /\ \A e \in Frame : Sum([s EXCEPT ![Len(s)] = e]) = Sum(b) + Blocks(e)
<1>1. /\ Len(s) \in Nat \ {0} /\ s[Len(s)] \in Frame
      /\ b \in Seq(Frame) /\ Len(b) = Len(s) - 1
      /\ \A e \in Frame : /\ [s EXCEPT ![Len(s)] = e] \in Seq(Frame)
                          /\ Len([s EXCEPT ![Len(s)] = e]) = Len(s)
  BY StackOps
<1>2. \A k \in 1 .. Len(b) : b[k] = s[k]
  BY <1>1
<1>3. Sum(b) \in Nat
  <2>1. Len(b) \in 0 .. Len(b)
    BY <1>1
  <2> QED BY <1>1, <2>1, SumsType DEF Sum
<1>4. ASSUME NEW r \in Seq(Frame), Len(r) = Len(s), \A k \in 1 .. Len(b) : r[k] = b[k]
      PROVE  Sum(r) = Sum(b) + Blocks(r[Len(r)])
  <2>1. Sums(r)[Len(s)] = Sums(r)[Len(s) - 1] + r[Len(s)].own + r[Len(s)].key
    BY <1>1, <1>4, SumsExist
  <2>2. Sums(r)[Len(b)] = Sums(b)[Len(b)]
    <3>1. Len(b) \in Nat /\ Len(b) <= Len(r) /\ Len(b) <= Len(b)
      BY <1>1, <1>4
    <3> QED BY <1>1, <1>4, <3>1, SumsAgree
  <2>3. r[Len(s)] \in Frame
    BY <1>1, <1>4
  <2>4. PICK e : e = r[Len(s)]
    OBVIOUS
  <2>5. e.own \in Nat /\ e.key \in Nat /\ Blocks(e) = e.own + e.key
    BY <2>3, <2>4, BlocksType DEF Blocks
  <2>6. Sum(r) = Sum(b) + e.own + e.key
    BY <1>1, <1>4, <2>1, <2>2, <2>4 DEF Sum
  <2>7. Sum(r) = Sum(b) + Blocks(e)
    BY <1>3, <2>5, <2>6
  <2> QED BY <1>4, <2>4, <2>7
<1>5. Sum(s) = Sum(b) + Blocks(s[Len(s)])
  BY <1>2, <1>4
<1>6. ASSUME NEW e \in Frame
      PROVE  Sum([s EXCEPT ![Len(s)] = e]) = Sum(b) + Blocks(e)
  <2> DEFINE r == [s EXCEPT ![Len(s)] = e]
  <2>1. r \in Seq(Frame) /\ Len(r) = Len(s) /\ r[Len(r)] = e
    BY <1>1
  <2>2. \A k \in 1 .. Len(b) : r[k] = b[k]
    BY <1>1, <1>2
  <2> HIDE DEF r
  <2>3. Sum(r) = Sum(b) + Blocks(e)
    BY <1>4, <2>1, <2>2
  <2> QED BY <2>3 DEF r
<1> QED BY <1>3, <1>5, <1>6

LEMMA SumOfMore ==
  ASSUME NEW s \in Seq(Frame), NEW e \in Frame
  PROVE  Sum(s) \in Nat /\ Sum(Append(s, e)) = Sum(s) + Blocks(e)
<1> DEFINE r == Append(s, e)
<1>1. /\ Len(s) \in Nat /\ r \in Seq(Frame) /\ Len(r) = Len(s) + 1 /\ r[Len(r)] = e
      /\ \A k \in 1 .. Len(s) : r[k] = s[k]
  BY AppendProperties
<1> HIDE DEF r
<1>2. Sum(s) \in Nat
  BY <1>1, SumsType DEF Sum
<1>3. Sums(r)[Len(r)] = Sums(r)[Len(r) - 1] + e.own + e.key
  BY <1>1, SumsExist
<1>4. Sums(r)[Len(s)] = Sums(s)[Len(s)]
  BY <1>1, SumsAgree
<1>5. Len(r) - 1 = Len(s)
  BY <1>1
<1>6. Sum(r) = Sum(s) + Blocks(e)
  BY <1>2, <1>3, <1>4, <1>5, BlocksType DEF Sum, Blocks
<1> QED BY <1>2, <1>6 DEF r

-----------------------------------------------------------------------------
(* The memory that the parser owns.                                        *)

\* A frame holds a key from the end of the key to the addition of its value,
\* and a value is at hand only where parse_value has returned one.
Held ==
  /\ phase \in {"first", "key", "more"} => Top.key = 0
  /\ phase \in {"value", "first", "key", "colon", "more"} => ret = 0

MInv == lost \in Nat /\ Ownership /\ Held

LEMMA OwnedIsSum == Owned = Sum(stack) + ret /\ Owned' = Sum(stack') + ret'
BY DEF Owned, Sum, Sums

LEMMA FrameStack ==
  ASSUME IInv
  PROVE  stack \in Seq(FrameSet) /\ stack \in Seq(Frame) /\ ret \in Nat
<1>1. FrameSet \subseteq Frame
  BY DEF Frame, FrameSet
<1>2. stack \in Seq(FrameSet) /\ ret \in Nat
  BY DEF IInv, Shape, FrameSet
<1> QED BY <1>1, <1>2, SeqDef

\* The frame at the top, and the frames below it.
LEMMA TopAndBelow ==
  ASSUME IInv, stack # <<>>
  PROVE  /\ Top \in FrameSet /\ Top \in Frame /\ Top.own \in Nat \ {0} /\ Top.key \in Nat
         /\ Sum(Below) \in Nat /\ Sum(stack) = Sum(Below) + Top.own + Top.key
<1>1. stack \in Seq(Frame) /\ stack \in Seq(FrameSet)
  BY FrameStack
<1>2. Top \in FrameSet
  BY <1>1, StackOps DEF Top
<1>3. Top \in Frame /\ Top.own \in Nat \ {0} /\ Top.key \in Nat
  BY <1>2 DEF Frame, FrameSet
<1>4. Sum(Below) \in Nat /\ Sum(stack) = Sum(Below) + Blocks(Top)
  BY <1>1, SumOfTop DEF Below, Top
<1> QED BY <1>2, <1>3, <1>4 DEF Blocks

LEMMA SumType == IInv => Sum(stack) \in Nat
<1> SUFFICES ASSUME IInv PROVE Sum(stack) \in Nat
  OBVIOUS
<1>1. CASE stack = <<>>
  BY <1>1, SumOfEmpty
<1>2. CASE stack # <<>>
  BY <1>2, TopAndBelow
<1> QED BY <1>1, <1>2

\* A step that leaves the frames as they are.
LEMMA SameFramesMInv ==
  ASSUME IInv, MInv,
         TooDeep \/ NoValue \/ NotAValue \/ NumberTooLong \/ Word \/ Number \/ StringValue
           \/ EnterLoop \/ Colon \/ Comma
  PROVE  MInv'
<1>1. stack' = stack /\ Top' = Top
  BY DEF TooDeep, NoValue, NotAValue, NumberTooLong, Word, Number, StringValue, Scalar, EnterLoop, Colon,
         Comma, Top
<1>2. Sum(stack) \in Nat /\ Sum(stack') = Sum(stack)
  BY <1>1, SumType
<1>3. heap = Sum(stack) + ret + lost /\ lost \in Nat
  BY OwnedIsSum DEF MInv, Ownership
<1>4. CASE TooDeep \/ NoValue \/ NotAValue \/ NumberTooLong
  <2>1. phase = "value" /\ phase' = "returned" /\ ret' = 0 /\ heap' = heap /\ lost' = lost
    BY <1>4 DEF TooDeep, NoValue, NotAValue, NumberTooLong, memory
  <2>2. ret = 0
    BY <2>1 DEF MInv, Held
  <2> QED BY <1>2, <1>3, <2>1, <2>2, OwnedIsSum DEF MInv, Ownership, Held
<1>5. CASE Word \/ Number
  <2>1. /\ phase = "value" /\ phase' = "returned" /\ ret' = 1
        /\ heap' = heap + 1 /\ lost' = lost
    BY <1>5 DEF Word, Number, Scalar
  <2>2. ret = 0
    BY <2>1 DEF MInv, Held
  <2> QED BY <1>2, <1>3, <2>1, <2>2, OwnedIsSum DEF MInv, Ownership, Held
<1>6. CASE StringValue
  <2>1. PICK t : \E s \in Scan(t) : /\ lost' = lost + s.lost
                                    /\ ret' = IF s.ok THEN 1 + s.data ELSE 0
                                    /\ heap' = heap + s.lost + ret'
    BY <1>6 DEF StringValue
  <2>2. PICK s \in Scan(t) : /\ lost' = lost + s.lost
                             /\ ret' = IF s.ok THEN 1 + s.data ELSE 0
                             /\ heap' = heap + s.lost + ret'
    BY <2>1
  <2>3. s.lost \in {0, 1} /\ s.data \in {0, 1}
    BY ScanOutcome DEF IInv, Shape
  <2>4. phase = "value" /\ phase' = "returned"
    BY <1>6 DEF StringValue
  <2>5. ret = 0 /\ ret' \in Nat
    BY <2>2, <2>3, <2>4 DEF MInv, Held
  <2>6. lost' \in Nat /\ heap' = Sum(stack') + ret' + lost'
    BY <1>2, <1>3, <2>2, <2>3, <2>5
  <2> QED BY <2>4, <2>6, OwnedIsSum DEF MInv, Ownership, Held
<1>7. CASE EnterLoop \/ Colon \/ Comma
  <2>1. /\ phase \in {"first", "colon", "more"} /\ phase' \in {"value", "key"}
        /\ phase' = "key" => phase \in {"first", "more"}
        /\ ret' = ret /\ heap' = heap /\ lost' = lost
    BY <1>7 DEF EnterLoop, Colon, Comma, memory
  <2> QED BY <1>1, <1>2, <1>3, <2>1, OwnedIsSum DEF MInv, Ownership, Held
<1> QED BY <1>4, <1>5, <1>6, <1>7

LEMMA OpenMInv == ASSUME IInv, MInv, Open PROVE MInv'
<1>1. PICK f \in Frame : stack' = Append(stack, f) /\ Blocks(f) = 1 /\ f.key = 0
  <2>1. PICK t : stack' = Append(stack, [kind |-> IF t = "[" THEN "array" ELSE "object",
                                         own |-> 1, key |-> 0])
    BY DEF Open
  <2>2. [kind |-> IF t = "[" THEN "array" ELSE "object", own |-> 1, key |-> 0] \in Frame
    BY DEF Frame
  <2> QED BY <2>1, <2>2 DEF Blocks
<1>2. /\ phase = "value" /\ phase' = "first"
      /\ ret' = ret /\ lost' = lost /\ heap' = heap + 1
  BY DEF Open
<1>3. stack \in Seq(Frame) /\ ret = 0
  BY <1>2, FrameStack DEF MInv, Held
<1>4. Top'.key = 0
  BY <1>1, <1>3, AppendProperties DEF Top
<1>5. Sum(stack) \in Nat /\ Sum(stack') = Sum(stack) + 1
  BY <1>1, <1>3, SumOfMore
<1>6. heap = Sum(stack) + ret + lost /\ lost \in Nat
  BY OwnedIsSum DEF MInv, Ownership
<1> QED BY <1>2, <1>3, <1>4, <1>5, <1>6, OwnedIsSum DEF MInv, Ownership, Held

LEMMA FrameMInv == ASSUME IInv, MInv, Key \/ AddValue PROVE MInv'
<1>1. stack # <<>> /\ stack \in Seq(Frame)
  BY FrameStack DEF IInv, Framed, Key, AddValue, InnerReturn
<1>2. /\ Top \in Frame /\ Top.own \in Nat /\ Top.key \in Nat
      /\ Sum(Below) \in Nat /\ Sum(stack) = Sum(Below) + Top.own + Top.key
  BY <1>1, TopAndBelow
<1>3. ASSUME NEW f \in Frame, SetTop(f)
      PROVE  Sum(stack') = Sum(Below) + f.own + f.key /\ Top' = f
  <2>1. stack' = [stack EXCEPT ![Len(stack)] = f]
    BY <1>3 DEF SetTop
  <2>2. Sum(stack') = Sum(Below) + Blocks(f)
    BY <1>1, <2>1, SumOfTop DEF Below
  <2>3. Top' = f
    BY <1>1, <2>1, StackOps DEF Top
  <2> QED BY <1>2, <2>2, <2>3, BlocksType DEF Blocks
<1>4. heap = Sum(stack) + ret + lost /\ lost \in Nat /\ ret \in Nat
  BY OwnedIsSum, FrameStack DEF MInv, Ownership
<1>5. CASE Key
  <2>1. PICK s \in Scan("str") :
          /\ SetTop([Top EXCEPT !.key = 1 + s.data])
          /\ lost' = lost + s.lost
          /\ heap' = heap + s.lost + 1 + s.data
    BY <1>5 DEF Key
  <2>2. s.data \in {0, 1} /\ s.lost \in {0, 1}
    BY ScanOutcome DEF IInv, Shape
  <2>3. PICK f : f = [Top EXCEPT !.key = 1 + s.data]
    OBVIOUS
  <2>4. f \in Frame /\ f.own = Top.own /\ f.key = 1 + s.data
    BY <1>2, <2>2, <2>3 DEF Frame
  <2>5. Sum(stack') = Sum(Below) + Top.own + (1 + s.data)
    BY <1>3, <2>1, <2>3, <2>4
  <2>6. phase = "key" /\ phase' = "colon" /\ ret' = ret
    BY <1>5 DEF Key
  <2>7. Top.key = 0 /\ ret = 0
    BY <2>6 DEF MInv, Held
  <2> QED BY <1>2, <1>4, <2>1, <2>2, <2>5, <2>6, <2>7, OwnedIsSum DEF MInv, Ownership, Held
<1>6. CASE AddValue
  <2>1. PICK b \in {0, 1} : Added(b)
    BY <1>6 DEF AddValue
  <2>2. PICK f : f = [Top EXCEPT !.own = Top.own + Top.key + ret + b, !.key = 0]
    OBVIOUS
  <2>3. SetTop(f)
    BY <2>1, <2>2 DEF Added
  <2>4. b \in {0, 1} /\ Top.own + Top.key + ret + b \in Nat
    BY <1>2, <1>4, <2>1
  <2>5. f \in Frame /\ f.own = Top.own + Top.key + ret + b /\ f.key = 0
    <3> DEFINE n == Top.own + Top.key + ret + b
    <3>1. Top \in Frame /\ n \in Nat /\ f = [Top EXCEPT !.own = n, !.key = 0]
      BY <1>2, <2>2, <2>4
    <3> HIDE DEF n
    <3>2. f \in Frame /\ f.own = n /\ f.key = 0
      BY <3>1 DEF Frame
    <3> QED BY <3>2 DEF n
  <2>6. Sum(stack') = Sum(Below) + (Top.own + Top.key + ret + b) + 0 /\ Top'.key = 0
    BY <1>3, <2>3, <2>5
  <2>7. heap' = heap + b /\ ret' = 0 /\ phase' = "more" /\ lost' = lost
    BY <2>1 DEF Added
  <2> QED BY <1>2, <1>4, <2>6, <2>7, <2>4, OwnedIsSum DEF MInv, Ownership, Held
<1> QED BY <1>5, <1>6

\* A frame is left: its blocks are returned or freed.
LEMMA PopMInv ==
  ASSUME IInv, MInv,
         CloseEmpty \/ CloseAfter \/ NoKey \/ NotAKey \/ BrokenKey \/ NoColon
           \/ ValueFailed \/ NoRoom \/ NoComma
  PROVE  MInv'
<1>1. stack # <<>>
  BY DEF IInv, Framed, CloseEmpty, CloseAfter, NoKey, NotAKey, BrokenKey, NoColon, ValueFailed,
         NoRoom, NoComma, InnerReturn
<1>2. /\ Top.own \in Nat /\ Top.key \in Nat
      /\ Sum(Below) \in Nat /\ Sum(stack) = Sum(Below) + Top.own + Top.key
  BY <1>1, TopAndBelow
<1>3. heap = Sum(stack) + ret + lost /\ lost \in Nat /\ ret \in Nat
  BY OwnedIsSum, FrameStack DEF MInv, Ownership
<1>4. CASE CloseEmpty \/ CloseAfter
  <2>1. /\ phase \in {"first", "more"} /\ phase' = "returned"
        /\ stack' = Below /\ ret' = Top.own /\ heap' = heap /\ lost' = lost
    BY <1>4 DEF CloseEmpty, CloseAfter, Close, Return, memory
  <2>2. Top.key = 0 /\ ret = 0
    BY <2>1 DEF MInv, Held
  <2> QED BY <1>2, <1>3, <2>1, <2>2, OwnedIsSum DEF MInv, Ownership, Held
<1>5. CASE NoKey \/ NotAKey \/ NoColon \/ ValueFailed \/ NoRoom \/ NoComma
  <2>1. PICK p \in {0, ret} : Fail(p) /\ p = ret /\ lost' = lost
    BY <1>5 DEF NoKey, NotAKey, NoColon, ValueFailed, NoRoom, NoComma, InnerReturn, MInv, Held
  <2>2. /\ stack' = Below /\ ret' = 0 /\ phase' = "returned"
        /\ heap' = heap - (Top.own + Top.key + ret)
    BY <2>1 DEF Fail, Return
  <2> QED BY <1>2, <1>3, <2>1, <2>2, OwnedIsSum DEF MInv, Ownership, Held
<1>6. CASE BrokenKey
  <2>1. PICK t : \E s \in Scan(t) : lost' = lost + s.lost /\ heap' = heap + s.lost - Top.own
    BY <1>6 DEF BrokenKey
  <2>2. PICK s \in Scan(t) : lost' = lost + s.lost /\ heap' = heap + s.lost - Top.own
    BY <2>1
  <2>3. s.lost \in {0, 1}
    BY ScanOutcome DEF IInv, Shape
  <2>4. phase = "key" /\ phase' = "returned" /\ stack' = Below /\ ret' = 0
    BY <1>6 DEF BrokenKey, Return
  <2>5. Top.key = 0 /\ ret = 0
    BY <2>4 DEF MInv, Held
  <2> QED BY <1>2, <1>3, <2>2, <2>3, <2>4, <2>5, OwnedIsSum DEF MInv, Ownership, Held
<1> QED BY <1>4, <1>5, <1>6

LEMMA OutsideMInv ==
  ASSUME IInv, MInv, Trailing \/ Finish \/ \E a \in BOOLEAN : Begin(a)
  PROVE  MInv'
<1>1. stack = <<>> /\ stack' = <<>>
  BY DEF Trailing, Finish, OuterReturn, Begin, IInv, Framed
<1>2. Sum(stack) = 0 /\ Sum(stack') = 0
  BY <1>1, SumOfEmpty
<1>3. heap = Sum(stack) + ret + lost /\ lost \in Nat /\ ret \in Nat
  BY OwnedIsSum, FrameStack DEF MInv, Ownership
<1>4. CASE Trailing
  <2>1. heap' = heap - ret /\ ret' = 0 /\ lost' = lost /\ phase' = "done"
    BY <1>4 DEF Trailing
  <2> QED BY <1>2, <1>3, <2>1, OwnedIsSum DEF MInv, Ownership, Held
<1>5. CASE Finish
  <2>1. heap' = heap /\ ret' = ret /\ lost' = lost /\ phase' = "done"
    BY <1>5 DEF Finish, memory
  <2> QED BY <1>2, <1>3, <2>1, OwnedIsSum DEF MInv, Ownership, Held
<1>6. CASE \E a \in BOOLEAN : Begin(a)
  <2>1. heap' = 0 /\ ret' = 0 /\ lost' = 0 /\ phase' = "value"
    BY <1>6 DEF Begin
  <2> QED BY <1>2, <2>1, OwnedIsSum DEF MInv, Ownership, Held
<1> QED BY <1>4, <1>5, <1>6

LEMMA SpecMInv == Spec => []MInv
<1>1. Init => MInv
  <2> SUFFICES ASSUME Init PROVE MInv
    OBVIOUS
  <2>1. stack = <<>> /\ ret = 0 /\ heap = 0 /\ lost = 0 /\ phase = "idle"
    BY DEF Init
  <2>2. Sum(stack) = 0
    BY <2>1, SumOfEmpty
  <2> QED BY <2>1, <2>2, OwnedIsSum DEF MInv, Ownership, Held
<1>2. IInv /\ MInv /\ Next => MInv'
  BY SameFramesMInv, OpenMInv, FrameMInv, PopMInv, OutsideMInv DEF Next, Step
<1>3. MInv /\ UNCHANGED vars => MInv'
  <2> SUFFICES ASSUME MInv, UNCHANGED vars PROVE MInv'
    OBVIOUS
  <2>1. stack' = stack /\ ret' = ret /\ heap' = heap /\ lost' = lost /\ phase' = phase
    BY DEF vars, memory
  <2>2. Owned' = Owned /\ Top' = Top
    BY <2>1, OwnedIsSum DEF Top
  <2> QED BY <2>1, <2>2 DEF MInv, Ownership, Held
<1> QED BY <1>1, <1>2, <1>3, SpecIInv, PTL DEF Spec

-----------------------------------------------------------------------------
(* The input: nothing but tokens is ever consumed.                         *)

Reading == read \in Seq(Token) /\ ahead \in Token \cup {EOF, Unread} /\ gap \in BOOLEAN

LEMMA NextReading == ASSUME Reading, Next PROVE Reading'
<1>1. \A t \in PeekAfterSpaces : t \in Token \cup {EOF}
  BY DEF PeekAfterSpaces, Upcoming, Reading
<1>2. ASSUME NEW t \in PeekAfterSpaces, Consume(t), t # EOF PROVE Reading'
  <2>1. t \in Token
    BY <1>1, <1>2
  <2>2. read' \in Seq(Token)
    BY <1>2, <2>1 DEF Consume, Reading
  <2> QED BY <1>2, <2>2 DEF Consume, Reading
<1>3. ASSUME NEW t \in PeekAfterSpaces, Keep(t) PROVE Reading'
  BY <1>1, <1>3 DEF Keep, Reading
<1>4. ASSUME UNCHANGED input PROVE Reading'
  BY <1>4 DEF input, Reading
<1>5. ASSUME NEW a \in BOOLEAN, Begin(a) PROVE Reading'
  BY <1>5 DEF Begin, Reading
<1>6. ASSUME \/ Word \/ Number \/ StringValue \/ Open \/ CloseEmpty \/ BrokenKey \/ Key
             \/ Colon \/ CloseAfter \/ Comma
      PROVE  \E t \in PeekAfterSpaces : Consume(t) /\ t # EOF
  BY <1>6 DEF Word, Number, Scalar, StringValue, Open, CloseEmpty, BrokenKey, Key, Colon,
              CloseAfter, Comma, Closing, EOF
<1>7. ASSUME NotAValue \/ NumberTooLong \/ EnterLoop \/ NotAKey \/ NoColon \/ NoComma \/ Trailing \/ Finish
      PROVE  \E t \in PeekAfterSpaces : Keep(t)
  BY <1>7 DEF NotAValue, NumberTooLong, EnterLoop, NotAKey, NoColon, NoComma, Trailing, Finish
<1>8. ASSUME TooDeep \/ NoValue \/ NoKey \/ ValueFailed \/ AddValue \/ NoRoom
      PROVE  UNCHANGED input
  BY <1>8 DEF TooDeep, NoValue, NoKey, ValueFailed, AddValue, Added, NoRoom
<1> QED BY <1>2, <1>3, <1>4, <1>5, <1>6, <1>7, <1>8 DEF Next, Step

LEMMA SpecReading == Spec => []Reading
<1>1. Init => Reading
  <2> <<>> \in Seq(Token)
    OBVIOUS
  <2> QED BY DEF Init, Reading
<1>2. Reading /\ UNCHANGED vars => Reading'
  BY DEF Reading, vars, input
<1> QED BY <1>1, <1>2, NextReading, PTL DEF Spec

-----------------------------------------------------------------------------
(* The grammar.  Its texts are sequences of these symbols.                 *)

Symbol == {"[", "]", "{", "}", ",", ":", "str", "num", "word",
           "badstr", "longnum", "junk", "0xFF"}
Text == Seq(Symbol)

LEMMA Induct ==
  ASSUME NEW M \in Nat, NEW S, 0 \in S, \A n \in 0 .. M - 1 : n \in S => n + 1 \in S
  PROVE  0 .. M \subseteq S
<1> DEFINE Out == {n \in 0 .. M : n \notin S}
<1> SUFFICES ASSUME Out # {} PROVE FALSE
  OBVIOUS
<1>1. Out \subseteq Nat
  OBVIOUS
<1> HIDE DEF Out
<1>2. PICK n \in Out : \A k \in Out : n <= k
  BY <1>1, LeastNatural
<1>3. n \in 0 .. M /\ n \notin S
  BY <1>2 DEF Out
<1>4. n # 0 /\ n - 1 \in 0 .. M - 1
  BY <1>3
<1>5. n - 1 \notin Out
  BY <1>1, <1>2, <1>4
<1>6. n - 1 \in S
  BY <1>4, <1>5 DEF Out
<1>7. n - 1 + 1 = n
  BY <1>3
<1> QED BY <1>3, <1>4, <1>6, <1>7

\* The lists of one more text of S than those of L.
Joined(x, y) == x \o <<",">> \o y
Longer(S, L) == S \cup Grammar!Short({Joined(x, y) : x \in S, y \in L})

\* Lists(S)[n] is what CommaList takes from: at most n texts of S.
Lists(S) ==
  LET list[n \in 0 .. MaxTokens] == IF n = 0 THEN {} ELSE Longer(S, list[n - 1])
  IN  list
Half == (MaxTokens + 1) \div 2

LEMMA CommaLists == \A S : Grammar!CommaList(S) = Lists(S)[Half]
BY DEF Grammar!CommaList, Lists, Half, Longer, Joined

LEMMA ListsExist ==
  ASSUME NEW S
  PROVE  Lists(S) = [n \in 0 .. MaxTokens |-> IF n = 0 THEN {} ELSE Longer(S, Lists(S)[n - 1])]
<1> DEFINE Partial(m, f) ==
             f = [n \in 0 .. m |-> IF n = 0 THEN {} ELSE Longer(S, f[n - 1])]
           Made == {m \in 0 .. MaxTokens : \E f : Partial(m, f)}
<1>1. MaxTokens \in Nat
  BY MaxTokensAssumption
<1>2. 0 \in Made
  <2> DEFINE z == [n \in 0 .. 0 |-> {}]
  <2>1. Partial(0, z)
    OBVIOUS
  <2>2. 0 \in 0 .. MaxTokens
    BY <1>1
  <2>3. \E f : Partial(0, f)
    <3> HIDE DEF z, Partial
    <3> QED BY <2>1
  <2> QED BY <2>2, <2>3
<1>3. ASSUME NEW m \in 0 .. MaxTokens - 1, m \in Made PROVE m + 1 \in Made
  <2>1. PICK f : Partial(m, f)
    BY <1>3
  <2> DEFINE g == [n \in 0 .. m + 1 |-> IF n = m + 1 THEN Longer(S, f[m]) ELSE f[n]]
  <2>2. ASSUME NEW n \in 0 .. m + 1
        PROVE  g[n] = IF n = 0 THEN {} ELSE Longer(S, g[n - 1])
    <3>1. CASE n = m + 1
      BY <1>1, <3>1
    <3>2. CASE n # m + 1
      <4>1. n \in 0 .. m /\ g[n] = f[n]
        BY <1>1, <3>2
      <4>2. f[n] = IF n = 0 THEN {} ELSE Longer(S, f[n - 1])
        BY <2>1, <4>1
      <4>3. n # 0 => g[n - 1] = f[n - 1]
        BY <1>1, <3>2
      <4> QED BY <4>1, <4>2, <4>3
    <3> QED BY <3>1, <3>2
  <2>3. Partial(m + 1, g)
    BY <2>2
  <2>4. m + 1 \in 0 .. MaxTokens
    BY <1>1
  <2> QED BY <2>3, <2>4
<1> HIDE DEF Made
<1>4. MaxTokens \in Made
  BY <1>1, <1>2, <1>3, Induct
<1>5. PICK f : Partial(MaxTokens, f)
  BY <1>4 DEF Made
<1> QED BY <1>5 DEF Lists

LEMMA HalfType == MaxTokens \in Nat /\ Half \in 0 .. MaxTokens /\ 2 * Half <= MaxTokens + 1
                  /\ \A k \in Nat : 2 * k <= MaxTokens + 1 => k <= Half
BY MaxTokensAssumption DEF Half

LEMMA ListsStep ==
  ASSUME NEW S
  PROVE  /\ Lists(S)[0] = {}
         /\ \A n \in 1 .. MaxTokens : Lists(S)[n] = Longer(S, Lists(S)[n - 1])
<1>1. \A n \in 0 .. MaxTokens :
        Lists(S)[n] = IF n = 0 THEN {} ELSE Longer(S, Lists(S)[n - 1])
  BY ListsExist
<1>2. 0 \in 0 .. MaxTokens /\ 1 .. MaxTokens \subseteq 0 .. MaxTokens
  BY HalfType
<1> QED BY <1>1, <1>2

LEMMA JoinedSet ==
  ASSUME NEW S, NEW L
  PROVE  Longer(S, L) = S \cup {s \in {Joined(x, y) : x \in S, y \in L} : Len(s) <= MaxTokens}
BY DEF Longer, Grammar!Short

\* A list is a text of S, or one before a comma and a list.
LEMMA LongerParts ==
  ASSUME NEW S, NEW L
  PROVE  /\ \A x \in S : x \in Longer(S, L)
         /\ \A x \in S, y \in L : Len(Joined(x, y)) <= MaxTokens => Joined(x, y) \in Longer(S, L)
         /\ \A e \in Longer(S, L) :
              e \in S \/ \E x \in S, y \in L : e = Joined(x, y) /\ Len(e) <= MaxTokens
BY JoinedSet

LEMMA LongerMonotone ==
  ASSUME NEW S, NEW K, NEW L, K \subseteq L
  PROVE  Longer(S, K) \subseteq Longer(S, L)
BY JoinedSet

LEMMA ListsMonotone ==
  ASSUME NEW S, NEW k \in 0 .. MaxTokens, NEW m \in 0 .. MaxTokens, k <= m
  PROVE  Lists(S)[k] \subseteq Lists(S)[m]
<1> DEFINE Grow == {n \in 0 .. MaxTokens - 1 : Lists(S)[n] \subseteq Lists(S)[n + 1]}
           Within == {n \in 0 .. MaxTokens : n >= k => Lists(S)[k] \subseteq Lists(S)[n]}
<1>0. MaxTokens \in Nat
  BY HalfType
<1>1. ASSUME NEW n \in 0 .. MaxTokens - 1 PROVE n \in Grow
  <2>1. CASE MaxTokens = 0
    BY <2>1
  <2>2. CASE MaxTokens # 0
    <3>1. MaxTokens - 1 \in Nat
      BY <1>0, <2>2
    <3>2. 0 \in Grow
      <4>1. 0 \in 0 .. MaxTokens - 1
        BY <3>1
      <4> QED BY <4>1, ListsStep
    <3>3. ASSUME NEW j \in 0 .. MaxTokens - 1 - 1, j \in Grow PROVE j + 1 \in Grow
      <4>1. j + 1 \in 0 .. MaxTokens - 1 /\ j + 1 \in 1 .. MaxTokens /\ j + 1 + 1 \in 1 .. MaxTokens
            /\ j + 1 - 1 = j /\ j + 1 + 1 - 1 = j + 1
        BY <1>0
      <4>2. Lists(S)[j + 1] = Longer(S, Lists(S)[j])
        BY <4>1, ListsStep
      <4>3. Lists(S)[j + 1 + 1] = Longer(S, Lists(S)[j + 1])
        BY <4>1, ListsStep
      <4>4. Lists(S)[j] \subseteq Lists(S)[j + 1]
        BY <3>3
      <4>5. Lists(S)[j + 1] \subseteq Lists(S)[j + 1 + 1]
        BY <4>2, <4>3, <4>4, LongerMonotone
      <4> QED BY <4>1, <4>5
    <3> HIDE DEF Grow
    <3> QED BY <3>1, <3>2, <3>3, Induct
  <2> QED BY <2>1, <2>2
<1>2. 0 \in Within
  BY <1>0
<1>3. ASSUME NEW j \in 0 .. MaxTokens - 1, j \in Within PROVE j + 1 \in Within
  <2>1. j + 1 \in 0 .. MaxTokens
    BY <1>0
  <2>2. Lists(S)[j] \subseteq Lists(S)[j + 1]
    BY <1>1
  <2> QED BY <1>3, <2>1, <2>2
<1>4. 0 .. MaxTokens \subseteq Within
  <2> HIDE DEF Within
  <2> QED BY <1>0, <1>2, <1>3, Induct
<1> QED BY <1>4

-----------------------------------------------------------------------------
(* Lists grow at their end.                                                *)

LEMMA ConcatFacts ==
  ASSUME NEW x \in Text, NEW y \in Text
  PROVE  x \o y \in Text /\ Len(x \o y) = Len(x) + Len(y) /\ Len(x) \in Nat
BY ConcatProperties, LenProperties DEF Text

LEMMA ConcatAssoc ==
  ASSUME NEW x \in Text, NEW y \in Text, NEW z \in Text
  PROVE  (x \o y) \o z = x \o (y \o z)
BY ConcatAssociative DEF Text

LEMMA OneSymbol == \A t \in Symbol : <<t>> \in Text /\ Len(<<t>>) = 1
BY DEF Text

LEMMA JoinedFacts ==
  ASSUME NEW x \in Text, NEW y \in Text
  PROVE  /\ Joined(x, y) \in Text /\ Len(Joined(x, y)) = Len(x) + 1 + Len(y)
         /\ Len(x) \in Nat /\ Len(y) \in Nat
         /\ \A v \in Text : Joined(Joined(x, y), v) = Joined(x, Joined(y, v))
<1> DEFINE c == <<",">>
<1>1. c \in Text /\ Len(c) = 1
  BY OneSymbol DEF Symbol
<1> HIDE DEF c
<1>2. /\ x \o c \in Text /\ Len(x \o c) = Len(x) + 1
      /\ Len(x) \in Nat /\ Len(y) \in Nat
  BY ZenonT(60), <1>1, ConcatFacts
<1>3. /\ x \o c \o y \in Text /\ Len(x \o c \o y) = Len(x) + 1 + Len(y)
  BY <1>2, ConcatFacts
<1>4. ASSUME NEW v \in Text
      PROVE  (x \o c \o y) \o c \o v = x \o c \o (y \o c \o v)
  <2>1. y \o c \in Text /\ y \o c \o v \in Text
    BY <1>1, ConcatFacts
  <2>2. (x \o c \o y) \o c = (x \o c) \o (y \o c)
    BY <1>1, <1>2, ConcatAssoc
  <2>3. ((x \o c) \o (y \o c)) \o v = (x \o c) \o ((y \o c) \o v)
    BY SMTT(30), <1>2, <2>1, ConcatAssoc
  <2> QED BY <2>2, <2>3
<1> QED BY <1>2, <1>3, <1>4 DEF Joined, c

LEMMA ListsAreTexts ==
  ASSUME NEW S, S \subseteq Text, NEW n \in 0 .. MaxTokens
  PROVE  Lists(S)[n] \subseteq Text
<1> DEFINE Fine == {m \in 0 .. MaxTokens : Lists(S)[m] \subseteq Text}
<1>0. MaxTokens \in Nat
  BY HalfType
<1>1. 0 \in Fine
  BY <1>0, ListsStep
<1>2. ASSUME NEW m \in 0 .. MaxTokens - 1, m \in Fine PROVE m + 1 \in Fine
  <2>1. m + 1 \in 0 .. MaxTokens /\ m + 1 \in 1 .. MaxTokens /\ m + 1 - 1 = m
    BY <1>0
  <2>2. Lists(S)[m + 1] = Longer(S, Lists(S)[m])
    BY <2>1, ListsStep
  <2>3. Longer(S, Lists(S)[m]) \subseteq Text
    BY <1>2, LongerParts, JoinedFacts
  <2> QED BY <2>1, <2>2, <2>3
<1>3. 0 .. MaxTokens \subseteq Fine
  <2> HIDE DEF Fine
  <2> QED BY <1>0, <1>1, <1>2, Induct
<1> QED BY <1>3

\* Lists grow at their end as well.
LEMMA ListsAppend ==
  ASSUME NEW S, S \subseteq Text, NEW n \in 0 .. MaxTokens - 1, NEW e \in Lists(S)[n], NEW v \in S,
         Len(Joined(e, v)) <= MaxTokens
  PROVE  Joined(e, v) \in Lists(S)[n + 1]
<1> DEFINE Fine == {m \in 0 .. MaxTokens - 1 :
              \A d \in Lists(S)[m] : Len(Joined(d, v)) <= MaxTokens
                => Joined(d, v) \in Lists(S)[m + 1]}
<1>0. MaxTokens \in Nat /\ MaxTokens - 1 \in Nat
  BY HalfType
<1>1. 0 \in Fine
  <2>1. 0 \in 0 .. MaxTokens - 1 /\ Lists(S)[0] = {}
    BY <1>0, ListsStep
  <2> QED BY <2>1
<1>2. ASSUME NEW m \in 0 .. MaxTokens - 1 - 1, m \in Fine PROVE m + 1 \in Fine
  <2>1. /\ m + 1 \in 0 .. MaxTokens - 1 /\ m \in 0 .. MaxTokens
        /\ m + 1 \in 1 .. MaxTokens /\ m + 1 - 1 = m
        /\ m + 1 + 1 \in 1 .. MaxTokens /\ m + 1 + 1 - 1 = m + 1
    BY <1>0
  <2>2. Lists(S)[m + 1] = Longer(S, Lists(S)[m])
    BY <2>1, ListsStep
  <2>3. Lists(S)[m + 1 + 1] = Longer(S, Lists(S)[m + 1])
    BY <2>1, ListsStep
  <2>4. ASSUME NEW d \in Longer(S, Lists(S)[m]), Len(Joined(d, v)) <= MaxTokens
        PROVE  Joined(d, v) \in Longer(S, Lists(S)[m + 1])
    <3>1. CASE d \in S
      <4>1. v \in Lists(S)[m + 1]
        BY <2>2, LongerParts
      <4> QED BY <2>4, <3>1, <4>1, LongerParts
    <3>2. CASE \E x \in S, y \in Lists(S)[m] : d = Joined(x, y)
      <4>1. PICK x \in S, y \in Lists(S)[m] : d = Joined(x, y)
        BY <3>2
      <4>2. x \in Text /\ y \in Text /\ v \in Text
        BY <2>1, ListsAreTexts
      <4>3. Joined(d, v) = Joined(x, Joined(y, v)) /\ Joined(y, v) \in Text
        BY <4>1, <4>2, JoinedFacts
      <4>4. Len(Joined(d, v)) = Len(x) + 1 + Len(Joined(y, v))
              /\ Len(x) \in Nat /\ Len(Joined(y, v)) \in Nat
        BY <4>2, <4>3, JoinedFacts
      <4>5. Len(Joined(y, v)) <= MaxTokens
        BY <1>0, <2>4, <4>4
      <4>6. Joined(y, v) \in Lists(S)[m + 1]
        BY <1>2, <4>1, <4>5
      <4> QED BY <2>4, <4>3, <4>6, LongerParts
    <3> QED BY <3>1, <3>2, LongerParts
  <2> QED BY <2>1, <2>2, <2>3, <2>4
<1>3. 0 .. MaxTokens - 1 \subseteq Fine
  <2> HIDE DEF Fine
  <2> QED BY <1>0, <1>1, <1>2, Induct
<1> QED BY <1>3

-----------------------------------------------------------------------------
(* Values, level by level.                                                 *)

Level(d) == Grammar!Values[d]

LEMMA ValuesExist ==
  Grammar!Values = [d \in 0 .. MaxDepth |-> IF d = 0 THEN {} ELSE Grammar!Nest(Grammar!Values[d - 1])]
<1> DEFINE Partial(m, f) ==
             f = [d \in 0 .. m |-> IF d = 0 THEN {} ELSE Grammar!Nest(f[d - 1])]
           Made == {m \in 0 .. MaxDepth : \E f : Partial(m, f)}
<1>1. MaxDepth \in Nat
  BY MaxDepthAssumption
<1>2. 0 \in Made
  <2> DEFINE z == [d \in 0 .. 0 |-> {}]
  <2>1. Partial(0, z)
    OBVIOUS
  <2>2. 0 \in 0 .. MaxDepth
    BY <1>1
  <2>3. \E f : Partial(0, f)
    <3> HIDE DEF z, Partial
    <3> QED BY <2>1
  <2> QED BY <2>2, <2>3
<1>3. ASSUME NEW m \in 0 .. MaxDepth - 1, m \in Made PROVE m + 1 \in Made
  <2>1. PICK f : Partial(m, f)
    BY <1>3
  <2> DEFINE g == [d \in 0 .. m + 1 |-> IF d = m + 1 THEN Grammar!Nest(f[m]) ELSE f[d]]
  <2>2. ASSUME NEW d \in 0 .. m + 1
        PROVE  g[d] = IF d = 0 THEN {} ELSE Grammar!Nest(g[d - 1])
    <3>1. CASE d = m + 1
      BY <1>1, <3>1
    <3>2. CASE d # m + 1
      <4>1. d \in 0 .. m /\ g[d] = f[d]
        BY <1>1, <3>2
      <4>2. f[d] = IF d = 0 THEN {} ELSE Grammar!Nest(f[d - 1])
        BY <2>1, <4>1
      <4>3. d # 0 => g[d - 1] = f[d - 1]
        BY <1>1, <3>2
      <4> QED BY <4>1, <4>2, <4>3
    <3> QED BY <3>1, <3>2
  <2>3. Partial(m + 1, g)
    BY <2>2
  <2>4. m + 1 \in 0 .. MaxDepth
    BY <1>1
  <2> QED BY <2>3, <2>4
<1> HIDE DEF Made
<1>4. MaxDepth \in Made
  BY <1>1, <1>2, <1>3, Induct
<1>5. PICK f : Partial(MaxDepth, f)
  BY <1>4 DEF Made
<1> QED BY <1>5 DEF Grammar!Values

LEMMA LevelStep ==
  /\ Level(0) = {}
  /\ \A d \in 1 .. MaxDepth : Level(d) = Grammar!Nest(Level(d - 1))
<1>1. \A d \in 0 .. MaxDepth :
        Grammar!Values[d] = IF d = 0 THEN {} ELSE Grammar!Nest(Grammar!Values[d - 1])
  BY ValuesExist
<1>2. 0 \in 0 .. MaxDepth /\ 1 .. MaxDepth \subseteq 0 .. MaxDepth
  BY MaxDepthAssumption
<1> QED BY <1>1, <1>2 DEF Level

\* A container of kind k with the list e, and its members with the values S.
Kind == {"array", "object"}
Opens(k) == IF k = "array" THEN "[" ELSE "{"
Closes(k) == IF k = "array" THEN "]" ELSE "}"
Wrapped(k, e) == <<Opens(k)>> \o e \o <<Closes(k)>>
Lead(k) == IF k = "array" THEN <<>> ELSE <<"str", ":">>
Items(k, S) == IF k = "array" THEN S ELSE Grammar!Members(S)
Contents(k, S) == {<<>>} \cup Grammar!CommaList(Items(k, S))

LEMMA NestSet ==
  ASSUME NEW S
  PROVE  Grammar!Nest(S) =
           {s \in {<<"str">>, <<"num">>, <<"word">>}
                    \cup {Wrapped("array", e) : e \in Contents("array", S)}
                    \cup {Wrapped("object", e) : e \in Contents("object", S)} : Len(s) <= MaxTokens}
<1> DEFINE A == {<<"[">> \o e \o <<"]">> : e \in Contents("array", S)}
           O == {<<"{">> \o e \o <<"}">> : e \in Contents("object", S)}
<1>1. Wrapped("array", <<>>) = <<"[">> \o <<>> \o <<"]">>
  BY DEF Wrapped, Opens, Closes
<1>2. \A e : Wrapped("array", e) = <<"[">> \o e \o <<"]">>
  BY DEF Wrapped, Opens, Closes
<1>3. \A e : Wrapped("object", e) = <<"{">> \o e \o <<"}">>
  BY DEF Wrapped, Opens, Closes
<1>4. A = {Wrapped("array", e) : e \in Contents("array", S)}
  BY <1>2, Zenon
<1>5. O = {Wrapped("object", e) : e \in Contents("object", S)}
  BY <1>3, Zenon
<1>6. Contents("array", S) = {<<>>} \cup Grammar!CommaList(S)
  BY DEF Contents, Items
<1>7. Contents("object", S) = {<<>>} \cup Grammar!CommaList(Grammar!Members(S))
  BY DEF Contents, Items
<1>8. Grammar!Bracketed("[", S, "]") = A
  BY <1>6 DEF Grammar!Bracketed
<1>9. Grammar!Bracketed("{", Grammar!Members(S), "}") = O
  BY <1>7 DEF Grammar!Bracketed
<1> HIDE DEF A, O
<1>10. Grammar!Nest(S) = {s \in {<<"str">>, <<"num">>, <<"word">>} \cup A \cup O : Len(s) <= MaxTokens}
  BY <1>8, <1>9 DEF Grammar!Nest, Grammar!Short, Grammar!Scalar
<1> QED BY <1>4, <1>5, <1>10

LEMMA NestParts ==
  ASSUME NEW S
  PROVE  /\ \A t \in {"str", "num", "word"} : MaxTokens >= 1 => <<t>> \in Grammar!Nest(S)
         /\ \A k \in Kind : \A e \in Contents(k, S) :
              Len(Wrapped(k, e)) <= MaxTokens => Wrapped(k, e) \in Grammar!Nest(S)
         /\ \A s \in Grammar!Nest(S) :
              /\ Len(s) <= MaxTokens
              /\ \/ \E t \in {"str", "num", "word"} : s = <<t>>
                 \/ \E k \in Kind : \E e \in Contents(k, S) : s = Wrapped(k, e)
<1>1. \A t \in {"str", "num", "word"} : Len(<<t>>) = 1
  BY OneSymbol DEF Symbol
<1>2. ASSUME NEW t \in {"str", "num", "word"}, MaxTokens >= 1 PROVE <<t>> \in Grammar!Nest(S)
  BY <1>1, <1>2, NestSet, HalfType
<1>3. ASSUME NEW k \in Kind, NEW e \in Contents(k, S), Len(Wrapped(k, e)) <= MaxTokens
      PROVE  Wrapped(k, e) \in Grammar!Nest(S)
  BY <1>3, NestSet DEF Kind
<1>4. ASSUME NEW s \in Grammar!Nest(S)
      PROVE  /\ Len(s) <= MaxTokens
             /\ \/ \E t \in {"str", "num", "word"} : s = <<t>>
                \/ \E k \in Kind : \E e \in Contents(k, S) : s = Wrapped(k, e)
  BY NestSet DEF Kind
<1> QED BY <1>2, <1>3, <1>4

\* Sets of texts of the length that the grammar has.
Solid(S) == S \subseteq Text /\ \A s \in S : Len(s) \in 1 .. MaxTokens

LEMMA TwoSymbols == <<"str">> \o <<":">> = <<"str", ":">>
<1>1. \A x \in Symbol, y \in Symbol :
        /\ <<x>> \in Text /\ Len(<<x>>) = 1 /\ <<x>>[1] = x
        /\ <<x, y>> \in Text /\ Len(<<x, y>>) = 2 /\ <<x, y>>[1] = x /\ <<x, y>>[2] = y
  BY DEF Text
<1>2. ASSUME NEW x \in Symbol, NEW y \in Symbol PROVE <<x>> \o <<y>> = <<x, y>>
  <2> DEFINE r == <<x>>
             s == <<y>>
             t == <<x, y>>
  <2>1. /\ r \in Text /\ Len(r) = 1 /\ r[1] = x /\ s \in Text /\ Len(s) = 1 /\ s[1] = y
        /\ t \in Text /\ Len(t) = 2 /\ t[1] = x /\ t[2] = y
    BY <1>1
  <2> HIDE DEF r, s, t
  <2>2. r \o s \in Text /\ Len(r \o s) = 2 /\ (r \o s)[1] = x /\ (r \o s)[2] = y
    BY SMTT(30), <2>1, ConcatProperties DEF Text
  <2>3. r \o s = t
    BY <2>1, <2>2, SeqEqual DEF Text
  <2> QED BY <2>3 DEF r, s, t
<1>3. "str" \in Symbol /\ ":" \in Symbol
  BY DEF Symbol
<1> QED BY <1>2, <1>3

\* Read text u, what comes next b, and then c.
LEMMA ThreeTexts ==
  ASSUME NEW u \in Text, NEW b \in Text, NEW c \in Text
  PROVE  /\ u \o b \in Text /\ b \o c \in Text /\ (u \o b) \o c \in Text
         /\ (u \o b) \o c = u \o (b \o c)
BY SMTT(30), ConcatFacts, ConcatAssoc

LEMMA LeadFacts ==
  ASSUME NEW k \in Kind, NEW v \in Text
  PROVE  /\ Lead(k) \in Text /\ Lead(k) \o v \in Text
         /\ Len(Lead(k)) \in Nat /\ Len(Lead(k) \o v) = Len(Lead(k)) + Len(v)
         /\ k = "array" => Lead(k) \o v = v
<1>1. Lead(k) \in Text
  <2>1. <<>> \in Text
    BY EmptySeq DEF Text
  <2>2. "str" \in Symbol /\ ":" \in Symbol
    BY DEF Symbol
  <2>3. <<"str", ":">> \in Text
    BY <2>2 DEF Text
  <2> QED BY <2>1, <2>3 DEF Lead
<1>2. k = "array" => Lead(k) \o v = v
  BY ConcatEmptySeq DEF Lead, Text
<1> QED BY <1>1, <1>2, ConcatFacts

LEMMA ItemsParts ==
  ASSUME NEW S, Solid(S), NEW k \in Kind
  PROVE  /\ Solid(Items(k, S))
         /\ \A v \in S : Len(Lead(k) \o v) <= MaxTokens => Lead(k) \o v \in Items(k, S)
         /\ \A x \in Items(k, S) : \E v \in S : x = Lead(k) \o v
<1>1. CASE k = "array"
  <2>1. Items(k, S) = S
    BY <1>1 DEF Items
  <2>2. \A v \in S : Lead(k) \o v = v
    BY <1>1, LeadFacts DEF Solid
  <2> QED BY <2>1, <2>2
<1>2. CASE k = "object"
  <2>1. Items(k, S) = {s \in {Lead(k) \o v : v \in S} : Len(s) <= MaxTokens}
    BY <1>2 DEF Items, Grammar!Members, Grammar!Short, Lead
  <2>2. ASSUME NEW v \in S
        PROVE  /\ Lead(k) \o v \in Text
               /\ Len(Lead(k) \o v) \in Nat \ {0}
    <3>1. v \in Text /\ Len(v) \in Nat \ {0}
      BY HalfType DEF Solid
    <3> QED BY <3>1, LeadFacts
  <2>3. ASSUME NEW x \in Items(k, S)
        PROVE  x \in Text /\ Len(x) \in 1 .. MaxTokens /\ \E v \in S : x = Lead(k) \o v
    <3>1. PICK v \in S : x = Lead(k) \o v /\ Len(x) <= MaxTokens
      BY <2>1
    <3>2. x \in Text /\ Len(x) \in Nat \ {0}
      BY <2>2, <3>1
    <3> QED BY <3>1, <3>2, HalfType
  <2>4. \A v \in S : Len(Lead(k) \o v) <= MaxTokens => Lead(k) \o v \in Items(k, S)
    BY <2>1
  <2> QED BY <2>3, <2>4 DEF Solid
<1> QED BY <1>1, <1>2 DEF Kind

LEMMA WrappedFacts ==
  ASSUME NEW k \in Kind, NEW e \in Text
  PROVE  Wrapped(k, e) \in Text /\ Len(Wrapped(k, e)) = Len(e) + 2 /\ Len(e) \in Nat
<1>1. <<Opens(k)>> \in Text /\ <<Closes(k)>> \in Text /\ Len(<<Opens(k)>>) = 1 /\ Len(<<Closes(k)>>) = 1
  BY OneSymbol DEF Symbol, Opens, Closes
<1>2. /\ <<Opens(k)>> \o e \in Text /\ Len(<<Opens(k)>> \o e) = 1 + Len(e) /\ Len(e) \in Nat
  BY <1>1, ConcatFacts
<1>3. /\ <<Opens(k)>> \o e \o <<Closes(k)>> \in Text
      /\ Len(<<Opens(k)>> \o e \o <<Closes(k)>>) = Len(<<Opens(k)>> \o e) + 1
  BY <1>1, <1>2, ConcatFacts
<1> QED BY <1>2, <1>3 DEF Wrapped

LEMMA ContentsAreTexts ==
  ASSUME NEW S, Solid(S), NEW k \in Kind PROVE Contents(k, S) \subseteq Text
<1>1. Solid(Items(k, S))
  BY ItemsParts
<1>2. Grammar!CommaList(Items(k, S)) \subseteq Text
  BY <1>1, CommaLists, ListsAreTexts, HalfType DEF Solid
<1>3. <<>> \in Text
  BY DEF Text
<1> QED BY <1>2, <1>3 DEF Contents

LEMMA LevelsAreSolid == \A d \in 0 .. MaxDepth : Solid(Level(d))
<1> DEFINE Fine == {d \in 0 .. MaxDepth : Solid(Level(d))}
<1>0. MaxDepth \in Nat
  BY MaxDepthAssumption
<1>1. 0 \in Fine
  <2>1. Solid(Level(0))
    BY LevelStep DEF Solid
  <2> QED BY <1>0, <2>1
<1>2. ASSUME NEW d \in 0 .. MaxDepth - 1, d \in Fine PROVE d + 1 \in Fine
  <2>1. d + 1 \in 0 .. MaxDepth /\ d + 1 \in 1 .. MaxDepth /\ d + 1 - 1 = d
    BY <1>0
  <2>2. Level(d + 1) = Grammar!Nest(Level(d))
    BY <2>1, LevelStep
  <2>3. ASSUME NEW s \in Grammar!Nest(Level(d)) PROVE s \in Text /\ Len(s) \in 1 .. MaxTokens
    <3>1. s \in Text /\ Len(s) \in Nat \ {0}
      <4>1. CASE \E t \in {"str", "num", "word"} : s = <<t>>
        <5>1. PICK t \in {"str", "num", "word"} : s = <<t>>
          BY <4>1
        <5>2. t \in Symbol
          BY DEF Symbol
        <5> QED BY <5>1, <5>2, OneSymbol
      <4>2. CASE \E k \in Kind : \E e \in Contents(k, Level(d)) : s = Wrapped(k, e)
        <5>1. PICK k \in Kind : \E e \in Contents(k, Level(d)) : s = Wrapped(k, e)
          BY <4>2
        <5>2. PICK e \in Contents(k, Level(d)) : s = Wrapped(k, e)
          BY <5>1
        <5>3. e \in Text
          BY <1>2, ContentsAreTexts
        <5> QED BY <5>2, <5>3, WrappedFacts
      <4>3. \/ \E t \in {"str", "num", "word"} : s = <<t>>
            \/ \E k \in Kind : \E e \in Contents(k, Level(d)) : s = Wrapped(k, e)
        BY NestParts
      <4> QED BY <4>1, <4>2, <4>3, Zenon
    <3>2. Len(s) <= MaxTokens
      BY NestParts
    <3> QED BY <3>1, <3>2, HalfType
  <2>4. Solid(Level(d + 1))
    BY <2>2, <2>3 DEF Solid
  <2> QED BY <2>1, <2>4
<1>3. 0 .. MaxDepth \subseteq Fine
  <2> HIDE DEF Fine
  <2> QED BY <1>0, <1>1, <1>2, Induct
<1> QED BY <1>3

-----------------------------------------------------------------------------
(* Lists as the parser reads them: Listed(S, e) says as well that e is long *)
(* enough for the texts in it, which are at most Half then.                *)

Listed(S, e) == \E k \in 0 .. Half : e \in Lists(S)[k] /\ 2 * k <= Len(e) + 1

LEMMA ListedFacts ==
  ASSUME NEW S, Solid(S)
  PROVE  /\ \A v \in S : Listed(S, v)
         /\ \A e, v : Listed(S, e) /\ v \in S /\ Len(Joined(e, v)) <= MaxTokens
                        => Listed(S, Joined(e, v))
         /\ \A e : Listed(S, e) => e \in Text /\ e \in Grammar!CommaList(S)
<1>0. MaxTokens \in Nat /\ Half \in 0 .. MaxTokens /\ S \subseteq Text
  BY HalfType DEF Solid
<1>1. ASSUME NEW v \in S PROVE Listed(S, v)
  <2>1. Len(v) \in 1 .. MaxTokens
    BY DEF Solid
  <2>2. 1 \in 0 .. Half /\ 1 \in 1 .. MaxTokens /\ 2 * 1 <= Len(v) + 1
    BY <1>0, <2>1, HalfType
  <2>3. v \in Lists(S)[1]
    BY <2>2, ListsStep, LongerParts
  <2> QED BY <2>2, <2>3 DEF Listed
<1>2. ASSUME NEW e, NEW v, Listed(S, e), v \in S, Len(Joined(e, v)) <= MaxTokens
      PROVE  Listed(S, Joined(e, v))
  <2>1. PICK k \in 0 .. Half : e \in Lists(S)[k] /\ 2 * k <= Len(e) + 1
    BY <1>2 DEF Listed
  <2>2. e \in Text /\ v \in Text
    BY <1>0, <1>2, <2>1, ListsAreTexts
  <2>3. Len(Joined(e, v)) = Len(e) + 1 + Len(v) /\ Len(e) \in Nat /\ Len(v) \in 1 .. MaxTokens
    BY <1>2, <2>2, JoinedFacts DEF Solid
  <2>4. 2 * (k + 1) <= Len(Joined(e, v)) + 1 /\ 2 * (k + 1) <= MaxTokens + 1
    BY <1>0, <1>2, <2>1, <2>3
  <2>5. k + 1 \in 0 .. Half /\ k \in 0 .. MaxTokens - 1
    <3>1. k + 1 \in Nat
      BY <1>0
    <3>2. k + 1 <= Half
      BY <2>4, <3>1, HalfType
    <3> QED BY <1>0, <3>1, <3>2
  <2>6. Joined(e, v) \in Lists(S)[k + 1]
    BY <1>0, <1>2, <2>1, <2>5, ListsAppend
  <2> QED BY <2>4, <2>5, <2>6 DEF Listed
<1>3. ASSUME NEW e, Listed(S, e) PROVE e \in Text /\ e \in Grammar!CommaList(S)
  <2>1. PICK k \in 0 .. Half : e \in Lists(S)[k]
    BY <1>3 DEF Listed
  <2>2. k \in 0 .. MaxTokens /\ Half \in 0 .. MaxTokens /\ k <= Half
    BY <1>0
  <2>3. e \in Lists(S)[Half] /\ e \in Text
    BY <1>0, <2>1, <2>2, ListsMonotone, ListsAreTexts
  <2> QED BY <2>3, CommaLists
<1> QED BY <1>1, <1>2, <1>3

\* A list begins with one of its texts, and a list follows the comma.
LEMMA ListParts ==
  ASSUME NEW S, Solid(S), NEW e \in Grammar!CommaList(S)
  PROVE  /\ e \in Text
         /\ e \in S \/ \E x \in S, y \in Grammar!CommaList(S) : e = Joined(x, y)
<1>0. MaxTokens \in Nat /\ Half \in 0 .. MaxTokens /\ S \subseteq Text /\ e \in Lists(S)[Half]
  BY HalfType, CommaLists DEF Solid
<1>1. Half # 0
  BY <1>0, ListsStep
<1>2. Half \in 1 .. MaxTokens /\ Half - 1 \in 0 .. MaxTokens /\ Half - 1 <= Half
  BY <1>0, <1>1
<1>3. Lists(S)[Half] = Longer(S, Lists(S)[Half - 1])
  BY <1>2, ListsStep
<1>4. Lists(S)[Half - 1] \subseteq Grammar!CommaList(S)
  BY <1>0, <1>2, ListsMonotone, CommaLists
<1>5. e \in S \/ \E x \in S, y \in Lists(S)[Half - 1] : e = Joined(x, y)
  BY <1>0, <1>3, LongerParts
<1>6. e \in Text
  BY <1>0, ListsAreTexts
<1> QED BY <1>4, <1>5, <1>6

-----------------------------------------------------------------------------
(* A container as it is read: k is its kind, S the values it may have.     *)

\* Up to the place of a further value or member, and up to the end of one.
Begun(k, S, b) ==
  \/ b = <<Opens(k)>>
  \/ \E e \in Text : Listed(Items(k, S), e) /\ b = <<Opens(k)>> \o e \o <<",">>
Filled(k, S, b) == \E e \in Text : Listed(Items(k, S), e) /\ b = <<Opens(k)>> \o e

LEMMA BracketFacts ==
  ASSUME NEW k \in Kind
  PROVE  /\ <<Opens(k)>> \in Text /\ <<Closes(k)>> \in Text /\ <<",">> \in Text
         /\ Len(<<Opens(k)>>) = 1 /\ Len(<<Closes(k)>>) = 1 /\ Len(<<",">>) = 1
BY OneSymbol DEF Symbol, Opens, Closes

LEMMA BegunFacts ==
  ASSUME NEW k \in Kind, NEW S, Solid(S), NEW b, Begun(k, S, b)
  PROVE  /\ b \in Text
         /\ \A x \in Items(k, S) : Len(b \o x) <= MaxTokens => Filled(k, S, b \o x)
<1>1. Solid(Items(k, S))
  BY ItemsParts
<1>2. CASE b = <<Opens(k)>>
  <2>1. \A x \in Items(k, S) : Listed(Items(k, S), x) /\ x \in Text
    BY <1>1, ListedFacts DEF Solid
  <2> QED BY <1>2, <2>1, BracketFacts DEF Filled
<1>3. CASE \E e \in Text : Listed(Items(k, S), e) /\ b = <<Opens(k)>> \o e \o <<",">>
  <2>1. PICK e \in Text : Listed(Items(k, S), e) /\ b = <<Opens(k)>> \o e \o <<",">>
    BY <1>3
  <2> DEFINE o == <<Opens(k)>>
             c == <<",">>
  <2>2. o \in Text /\ c \in Text /\ Len(o) = 1 /\ Len(c) = 1
    BY BracketFacts
  <2>3. \A x : Joined(e, x) = (e \o c) \o x
    BY DEF Joined
  <2>4. b = (o \o e) \o c
    BY <2>1
  <2> HIDE DEF o, c
  <2>5. o \o e \in Text /\ e \o c \in Text /\ (o \o e) \o c = o \o (e \o c)
    BY <2>2, ConcatFacts, ConcatAssoc
  <2>6. b \in Text
    BY <2>2, <2>4, <2>5, ConcatFacts
  <2>7. ASSUME NEW x \in Items(k, S), Len(b \o x) <= MaxTokens PROVE Filled(k, S, b \o x)
    <3>1. x \in Text
      BY <1>1 DEF Solid
    <3>2. b \o x = o \o Joined(e, x)
      <4>1. (o \o (e \o c)) \o x = o \o ((e \o c) \o x)
        BY <2>2, <2>5, <3>1, ConcatAssoc
      <4>2. b = o \o (e \o c)
        BY <2>4, <2>5
      <4> QED BY <2>3, <4>1, <4>2
    <3>3. Joined(e, x) \in Text /\ Len(b \o x) = Len(o) + Len(Joined(e, x)) /\ Len(Joined(e, x)) \in Nat
      <4>1. Joined(e, x) \in Text
        BY <3>1, JoinedFacts
      <4>2. Len(o \o Joined(e, x)) = Len(o) + Len(Joined(e, x)) /\ Len(Joined(e, x)) \in Nat
        BY <2>2, <4>1, ConcatFacts
      <4> QED BY <3>2, <4>1, <4>2
    <3>4. Len(Joined(e, x)) <= MaxTokens
      BY <2>2, <2>7, <3>3, HalfType
    <3>5. Listed(Items(k, S), Joined(e, x))
      BY <1>1, <2>1, <3>4, ListedFacts
    <3> QED BY <3>2, <3>3, <3>5 DEF Filled, o
  <2> QED BY <2>6, <2>7
<1> QED BY <1>2, <1>3 DEF Begun

LEMMA FilledFacts ==
  ASSUME NEW k \in Kind, NEW S, Solid(S), NEW b, Filled(k, S, b)
  PROVE  /\ b \in Text
         /\ Begun(k, S, b \o <<",">>)
         /\ Len(b \o <<Closes(k)>>) <= MaxTokens => b \o <<Closes(k)>> \in Grammar!Nest(S)
<1>1. Solid(Items(k, S))
  BY ItemsParts
<1>2. PICK e \in Text : Listed(Items(k, S), e) /\ b = <<Opens(k)>> \o e
  BY DEF Filled
<1>3. b \in Text
  BY <1>2, BracketFacts, ConcatFacts
<1>4. Begun(k, S, b \o <<",">>)
  BY <1>2 DEF Begun
<1>5. b \o <<Closes(k)>> = Wrapped(k, e)
  BY <1>2 DEF Wrapped
<1>6. e \in Contents(k, S)
  BY <1>1, <1>2, ListedFacts DEF Contents
<1> QED BY <1>3, <1>4, <1>5, <1>6, NestParts

LEMMA EmptyContainer ==
  ASSUME NEW k \in Kind, NEW S, Len(<<Opens(k)>> \o <<Closes(k)>>) <= MaxTokens
  PROVE  <<Opens(k)>> \o <<Closes(k)>> \in Grammar!Nest(S)
<1>1. <<Opens(k)>> \o <<>> = <<Opens(k)>>
  BY BracketFacts, ConcatEmptySeq DEF Text
<1>2. Wrapped(k, <<>>) = <<Opens(k)>> \o <<Closes(k)>>
  BY <1>1 DEF Wrapped
<1>3. <<>> \in Contents(k, S)
  BY DEF Contents
<1> QED BY <1>2, <1>3, NestParts

-----------------------------------------------------------------------------
(* What has been read, as the parser sees it: one text for each container   *)
(* under way, and what follows.  upto[i] is what was read when the parser   *)
(* went from container i to the value that it is reading there.             *)

\* The values that container i may have.
Inner(i) == Level(MaxDepth - i)

Path(upto, st, m) ==
  \A i \in 1 .. m : \E b \in Text :
    /\ Begun(st[i].kind, Inner(i), b)
    /\ upto[i] = upto[i - 1] \o (b \o Lead(st[i].kind))

\* b is what was read of the innermost container.
Within(ph, st, b) ==
  LET k == st[Len(st)].kind
      S == Inner(Len(st))
  IN  \/ ph = "first" /\ b = <<Opens(k)>>
      \/ ph = "key" /\ k = "object" /\ Begun(k, S, b)
      \/ ph = "colon" /\ k = "object" /\ \E c \in Text : Begun(k, S, c) /\ b = c \o <<"str">>
      \/ ph = "more" /\ Filled(k, S, b)

AtValue(rd, st) ==
  \E upto \in [Nat -> Text] :
    upto[0] = <<>> /\ Path(upto, st, Len(st)) /\ rd = upto[Len(st)]
AtReturn(rd, st) ==
  \E upto \in [Nat -> Text] :
    /\ upto[0] = <<>> /\ Path(upto, st, Len(st))
    /\ \E v \in Inner(Len(st)) : rd = upto[Len(st)] \o v
Inside(ph, rd, st) ==
  \E upto \in [Nat -> Text] :
    /\ upto[0] = <<>> /\ Path(upto, st, Len(st) - 1)
    /\ \E b \in Text : Within(ph, st, b) /\ rd = upto[Len(st) - 1] \o b

\* Stacks of the depth that is allowed.
Stacks == {st \in Seq(FrameSet) : Len(st) <= MaxDepth}

LEMMA StackFacts ==
  ASSUME NEW st \in Stacks
  PROVE  /\ Len(st) \in 0 .. MaxDepth /\ st \in Seq(FrameSet)
         /\ \A i \in 1 .. Len(st) : /\ st[i].kind \in Kind /\ Solid(Inner(i))
                                    /\ Grammar!Nest(Inner(i)) = Inner(i - 1)
         /\ Solid(Inner(Len(st)))
         /\ st # <<>> => Len(st) \in 1 .. MaxDepth /\ Len(st) - 1 \in Nat
<1>1. Len(st) \in Nat /\ Len(st) <= MaxDepth /\ MaxDepth \in Nat /\ st \in Seq(FrameSet)
  BY MaxDepthAssumption DEF Stacks
<1>2. ASSUME NEW i \in 1 .. Len(st)
      PROVE  st[i].kind \in Kind /\ Solid(Inner(i)) /\ Grammar!Nest(Inner(i)) = Inner(i - 1)
  <2>1. st[i] \in FrameSet
    BY <1>1
  <2>2. st[i].kind \in Kind
    BY <2>1 DEF FrameSet, Kind
  <2>3. MaxDepth - i \in 0 .. MaxDepth /\ MaxDepth - (i - 1) \in 1 .. MaxDepth
        /\ MaxDepth - (i - 1) - 1 = MaxDepth - i
    BY <1>1
  <2> QED BY <2>2, <2>3, LevelsAreSolid, LevelStep DEF Inner
<1>3. Solid(Inner(Len(st)))
  <2>1. MaxDepth - Len(st) \in 0 .. MaxDepth
    BY <1>1
  <2> QED BY <2>1, LevelsAreSolid DEF Inner
<1>4. st # <<>> => Len(st) # 0
  BY <1>1, EmptySeq
<1> QED BY <1>1, <1>2, <1>3, <1>4

\* Only the kinds of the frames count.
LEMMA SameKinds ==
  ASSUME NEW r \in Stacks, NEW s \in Stacks, Len(r) = Len(s),
         \A i \in 1 .. Len(s) : r[i].kind = s[i].kind
  PROVE  /\ \A rd : AtValue(rd, s) => AtValue(rd, r)
         /\ \A rd : AtReturn(rd, s) => AtReturn(rd, r)
         /\ \A ph, rd : s # <<>> /\ Inside(ph, rd, s) => Inside(ph, rd, r)
<1>1. Len(s) \in Nat
  BY StackFacts
<1>2. \A upto : Path(upto, s, Len(s)) => Path(upto, r, Len(r))
  BY DEF Path
<1>3. \A upto : Path(upto, s, Len(s) - 1) => Path(upto, r, Len(r) - 1)
  <2>1. \A i \in 1 .. Len(s) - 1 : i \in 1 .. Len(s)
    BY <1>1
  <2> QED BY <2>1 DEF Path
<1>4. s # <<>> => \A ph, b : Within(ph, s, b) => Within(ph, r, b)
  <2>1. s # <<>> => Len(s) \in 1 .. Len(s)
    BY StackFacts
  <2> QED BY <2>1 DEF Within
<1>5. ASSUME NEW rd, AtValue(rd, s) PROVE AtValue(rd, r)
  BY <1>2, <1>5 DEF AtValue
<1>6. ASSUME NEW rd, AtReturn(rd, s) PROVE AtReturn(rd, r)
  BY <1>2, <1>6 DEF AtReturn
<1>7. ASSUME NEW ph, NEW rd, s # <<>>, Inside(ph, rd, s) PROVE Inside(ph, rd, r)
  BY <1>3, <1>4, <1>7 DEF Inside
<1> QED BY <1>5, <1>6, <1>7

\* A value is complete.
LEMMA ValueRead ==
  ASSUME NEW st, NEW rd, AtValue(rd, st), NEW v \in Inner(Len(st))
  PROVE  AtReturn(rd \o v, st)
BY DEF AtValue, AtReturn

\* A container is entered.
LEMMA ContainerOpened ==
  ASSUME NEW st \in Stacks, NEW rd, AtValue(rd, st), NEW f \in FrameSet
  PROVE  Inside("first", rd \o <<Opens(f.kind)>>, Append(st, f))
<1>1. PICK upto \in [Nat -> Text] :
        upto[0] = <<>> /\ Path(upto, st, Len(st)) /\ rd = upto[Len(st)]
  BY DEF AtValue
<1> DEFINE s == Append(st, f)
<1>2. /\ Len(st) \in Nat /\ Len(s) = Len(st) + 1 /\ Len(s) - 1 = Len(st) /\ s[Len(s)] = f
      /\ \A i \in 1 .. Len(st) : s[i] = st[i]
  BY StackFacts, AppendProperties
<1> HIDE DEF s
<1>3. Path(upto, s, Len(s) - 1)
  BY <1>1, <1>2 DEF Path
<1>4. Within("first", s, <<Opens(f.kind)>>)
  BY <1>2 DEF Within
<1>5. f.kind \in Kind
  BY DEF FrameSet, Kind
<1>6. <<Opens(f.kind)>> \in Text
  BY <1>5, BracketFacts
<1> QED BY <1>1, <1>2, <1>3, <1>4, <1>6 DEF Inside, s

\* From a container to a value in it.
LEMMA ValueBegins ==
  ASSUME NEW st \in Stacks, st # <<>>, NEW upto \in [Nat -> Text], upto[0] = <<>>,
         Path(upto, st, Len(st) - 1),
         NEW b \in Text, Begun(st[Len(st)].kind, Inner(Len(st)), b),
         NEW rd \in Text, rd = upto[Len(st) - 1] \o (b \o Lead(st[Len(st)].kind))
  PROVE  AtValue(rd, st)
<1> DEFINE n == Len(st)
           u == [upto EXCEPT ![n] = rd]
<1>1. n \in Nat \ {0} /\ n - 1 \in Nat
  BY StackFacts
<1>2. u \in [Nat -> Text] /\ u[0] = <<>> /\ u[n] = rd
  BY <1>1
<1>3. Path(u, st, n)
  <2> SUFFICES ASSUME NEW i \in 1 .. n
               PROVE  \E c \in Text : /\ Begun(st[i].kind, Inner(i), c)
                                      /\ u[i] = u[i - 1] \o (c \o Lead(st[i].kind))
    BY DEF Path
  <2>1. i \in Nat /\ i - 1 \in Nat /\ i - 1 # n /\ u[i - 1] = upto[i - 1]
    BY <1>1
  <2>2. CASE i = n
    BY <1>2, <2>1, <2>2
  <2>3. CASE i # n
    <3>1. i \in 1 .. n - 1 /\ u[i] = upto[i]
      BY <1>1, <2>3
    <3> QED BY <2>1, <3>1 DEF Path
  <2> QED BY <2>2, <2>3
<1> HIDE DEF u
<1> QED BY <1>2, <1>3 DEF AtValue

-----------------------------------------------------------------------------
(* One lemma for each way through a container.                             *)

LEMMA LoopEntered ==
  ASSUME NEW st \in Stacks, st # <<>>, NEW rd \in Text, Inside("first", rd, st)
  PROVE  IF st[Len(st)].kind = "array" THEN AtValue(rd, st) ELSE Inside("key", rd, st)
<1> DEFINE k == st[Len(st)].kind
<1>1. PICK upto \in [Nat -> Text] :
        /\ upto[0] = <<>> /\ Path(upto, st, Len(st) - 1)
        /\ rd = upto[Len(st) - 1] \o <<Opens(k)>>
  BY DEF Inside, Within
<1>2. Len(st) \in 1 .. Len(st) /\ k \in Kind
  BY StackFacts
<1>3. <<Opens(k)>> \in Text /\ Begun(k, Inner(Len(st)), <<Opens(k)>>)
  BY <1>2, BracketFacts DEF Begun
<1>4. CASE k = "array"
  <2>1. <<Opens(k)>> \o Lead(k) = <<Opens(k)>>
    BY <1>3, <1>4, ConcatEmptySeq DEF Lead, Text
  <2> QED BY <1>1, <1>3, <1>4, <2>1, ValueBegins
<1>5. CASE k = "object"
  <2>1. Within("key", st, <<Opens(k)>>)
    BY <1>3, <1>5 DEF Within
  <2> QED BY <1>1, <1>3, <1>5, <2>1 DEF Inside
<1> QED BY <1>2, <1>4, <1>5 DEF Kind

LEMMA KeyRead ==
  ASSUME NEW st \in Stacks, st # <<>>, NEW rd \in Text, Inside("key", rd, st)
  PROVE  Inside("colon", rd \o <<"str">>, st)
<1> DEFINE k == st[Len(st)].kind
<1>1. PICK upto \in [Nat -> Text] :
        /\ upto[0] = <<>> /\ Path(upto, st, Len(st) - 1)
        /\ \E b \in Text : Within("key", st, b) /\ rd = upto[Len(st) - 1] \o b
  BY DEF Inside
<1>2. PICK b \in Text : Within("key", st, b) /\ rd = upto[Len(st) - 1] \o b
  BY <1>1
<1>3. k = "object" /\ Begun(k, Inner(Len(st)), b)
  BY <1>2 DEF Within
<1>4. <<"str">> \in Text
  BY OneSymbol DEF Symbol
<1>5. upto[Len(st) - 1] \in Text
  BY StackFacts
<1>6. b \o <<"str">> \in Text /\ rd \o <<"str">> = upto[Len(st) - 1] \o (b \o <<"str">>)
  BY <1>2, <1>4, <1>5, ConcatFacts, ConcatAssoc
<1>7. Within("colon", st, b \o <<"str">>)
  BY <1>3 DEF Within
<1> QED BY <1>1, <1>6, <1>7 DEF Inside

LEMMA ColonRead ==
  ASSUME NEW st \in Stacks, st # <<>>, NEW rd \in Text, Inside("colon", rd, st)
  PROVE  AtValue(rd \o <<":">>, st)
<1> DEFINE k == st[Len(st)].kind
<1>1. PICK upto \in [Nat -> Text] :
        /\ upto[0] = <<>> /\ Path(upto, st, Len(st) - 1)
        /\ \E b \in Text : Within("colon", st, b) /\ rd = upto[Len(st) - 1] \o b
  BY DEF Inside
<1>2. PICK b \in Text : Within("colon", st, b) /\ rd = upto[Len(st) - 1] \o b
  BY <1>1
<1>3. PICK c \in Text : k = "object" /\ Begun(k, Inner(Len(st)), c) /\ b = c \o <<"str">>
  BY <1>2 DEF Within
<1> DEFINE s == <<"str">>
           d == <<":">>
           u == upto[Len(st) - 1]
<1>4. s \in Text /\ d \in Text
  BY OneSymbol DEF Symbol
<1>5. u \in Text
  BY StackFacts
<1>6. s \o d = Lead(k)
  BY <1>3, TwoSymbols DEF Lead
<1>7. b = c \o s /\ rd = u \o b
  BY <1>2, <1>3
<1> HIDE DEF s, d, u
<1>8. (u \o b) \o d \in Text /\ (u \o b) \o d = u \o (b \o d) /\ (c \o s) \o d = c \o (s \o d)
  <2>1. c \in Text /\ b \in Text
    BY <1>2, <1>3
  <2>2. (u \o b) \o d \in Text /\ (u \o b) \o d = u \o (b \o d)
    BY ZenonT(60), <1>4, <1>5, <2>1, ThreeTexts
  <2>3. (c \o s) \o d = c \o (s \o d)
    BY <1>4, <2>1, ThreeTexts
  <2> QED BY <2>2, <2>3
<1>9. rd \o d = u \o (c \o Lead(k)) /\ rd \o d \in Text
  BY <1>6, <1>7, <1>8
<1> QED BY <1>1, <1>3, <1>9, ValueBegins DEF u, d

LEMMA ValueAdded ==
  ASSUME NEW st \in Stacks, st # <<>>, NEW rd \in Text, AtReturn(rd, st), Len(rd) <= MaxTokens
  PROVE  Inside("more", rd, st)
<1> DEFINE n == Len(st)
           k == st[n].kind
<1>1. PICK upto \in [Nat -> Text] :
        /\ upto[0] = <<>> /\ Path(upto, st, n)
        /\ \E v \in Inner(n) : rd = upto[n] \o v
  BY DEF AtReturn
<1>2. PICK v \in Inner(n) : rd = upto[n] \o v
  BY <1>1
<1>3. n \in 1 .. n /\ n \in Nat /\ n - 1 \in Nat /\ k \in Kind /\ Solid(Inner(n))
  BY StackFacts
<1>4. PICK b \in Text : Begun(k, Inner(n), b) /\ upto[n] = upto[n - 1] \o (b \o Lead(k))
  BY <1>1, <1>3 DEF Path
<1> DEFINE u == upto[n - 1]
           m == Lead(k) \o v
<1>5. u \in Text /\ v \in Text
  BY <1>3 DEF Solid
<1>6. Lead(k) \in Text /\ m \in Text /\ b \o Lead(k) \in Text
  BY <1>3, <1>5, LeadFacts, ConcatFacts
<1>7. rd = u \o (b \o m)
  <2>1. (u \o (b \o Lead(k))) \o v = u \o ((b \o Lead(k)) \o v)
    BY ZenonT(60), <1>5, <1>6, ConcatAssoc
  <2>2. (b \o Lead(k)) \o v = b \o m
    BY <1>5, <1>6, ConcatAssoc
  <2> QED BY <1>2, <1>4, <2>1, <2>2
<1> HIDE DEF u, m
<1>8. b \o m \in Text /\ Len(m) \in Nat /\ Len(b \o m) = Len(b) + Len(m) /\ Len(b) \in Nat /\ Len(u) \in Nat
  BY <1>5, <1>6, ConcatFacts
<1>9. Len(rd) = Len(u) + Len(b \o m)
  BY <1>5, <1>7, <1>8, ConcatFacts
<1>10. Len(m) <= MaxTokens /\ Len(b \o m) <= MaxTokens
  BY <1>8, <1>9, HalfType
<1>11. m \in Items(k, Inner(n))
  BY <1>3, <1>10, ItemsParts DEF m
<1>12. Filled(k, Inner(n), b \o m)
  BY <1>3, <1>4, <1>10, <1>11, BegunFacts
<1>13. Within("more", st, b \o m)
  BY <1>12 DEF Within
<1>14. Path(upto, st, n - 1)
  <2>1. 1 .. n - 1 \subseteq 1 .. n
    BY <1>3
  <2> QED BY <1>1, <2>1 DEF Path
<1> QED BY <1>1, <1>7, <1>8, <1>13, <1>14 DEF Inside, u

LEMMA CommaRead ==
  ASSUME NEW st \in Stacks, st # <<>>, NEW rd \in Text, Inside("more", rd, st)
  PROVE  IF st[Len(st)].kind = "array" THEN AtValue(rd \o <<",">>, st)
                                       ELSE Inside("key", rd \o <<",">>, st)
<1> DEFINE n == Len(st)
           k == st[n].kind
           c == <<",">>
<1>1. PICK upto \in [Nat -> Text] :
        /\ upto[0] = <<>> /\ Path(upto, st, n - 1)
        /\ \E b \in Text : Within("more", st, b) /\ rd = upto[n - 1] \o b
  BY DEF Inside
<1>2. PICK b \in Text : Within("more", st, b) /\ rd = upto[n - 1] \o b
  BY <1>1
<1>3. Filled(k, Inner(n), b)
  BY <1>2 DEF Within
<1>4. n \in 1 .. n /\ n - 1 \in Nat /\ k \in Kind /\ Solid(Inner(n)) /\ upto[n - 1] \in Text
  BY StackFacts
<1>5. Begun(k, Inner(n), b \o c) /\ c \in Text
  BY <1>3, <1>4, FilledFacts, BracketFacts
<1> HIDE DEF c
<1>6. rd \o c \in Text /\ b \o c \in Text /\ rd \o c = upto[n - 1] \o (b \o c)
  <2>1. upto[n - 1] \in Text /\ b \in Text /\ c \in Text
    BY <1>2, <1>4, <1>5
  <2>2. PICK u \in Text : u = upto[n - 1]
    BY <2>1
  <2> HIDE DEF n
  <2>3. b \o c \in Text /\ (u \o b) \o c = u \o (b \o c)
    BY ZenonT(60), <2>1, <2>2, ThreeTexts
  <2>4. u \o (b \o c) \in Text
    BY Zenon, <2>2, <2>3, ConcatFacts
  <2> QED BY <1>2, <2>2, <2>3, <2>4
<1>7. CASE k = "array"
  <2>1. (b \o c) \o Lead(k) = b \o c
    BY <1>6, <1>7, ConcatEmptySeq DEF Lead, Text
  <2>2. AtValue(rd \o c, st)
    BY <1>1, <1>5, <1>6, <2>1, ValueBegins
  <2> QED BY <1>7, <2>2 DEF c
<1>8. CASE k = "object"
  <2>1. Within("key", st, b \o c)
    BY <1>5, <1>8 DEF Within
  <2>2. Inside("key", rd \o c, st)
    BY <1>1, <1>6, <2>1 DEF Inside
  <2> QED BY <1>8, <2>2 DEF c
<1> QED BY <1>4, <1>7, <1>8 DEF Kind

LEMMA ContainerClosed ==
  ASSUME NEW st \in Stacks, st # <<>>, NEW rd \in Text,
         Inside("first", rd, st) \/ Inside("more", rd, st),
         Len(rd \o <<Closes(st[Len(st)].kind)>>) <= MaxTokens,
         NEW below, below = SubSeq(st, 1, Len(st) - 1)
  PROVE  AtReturn(rd \o <<Closes(st[Len(st)].kind)>>, below)
<1> DEFINE n == Len(st)
           k == st[n].kind
           c == <<Closes(k)>>
<1>1. PICK upto \in [Nat -> Text] :
        /\ upto[0] = <<>> /\ Path(upto, st, n - 1)
        /\ \E b \in Text : /\ Within("first", st, b) \/ Within("more", st, b)
                           /\ rd = upto[n - 1] \o b
  BY DEF Inside
<1>2. PICK b \in Text : /\ Within("first", st, b) \/ Within("more", st, b)
                        /\ rd = upto[n - 1] \o b
  BY <1>1
<1>3. b = <<Opens(k)>> \/ Filled(k, Inner(n), b)
  BY <1>2 DEF Within
<1>4. /\ n \in 1 .. n /\ n - 1 \in Nat /\ k \in Kind /\ Solid(Inner(n)) /\ upto[n - 1] \in Text
      /\ Grammar!Nest(Inner(n)) = Inner(n - 1)
  BY StackFacts
<1>5. c \in Text
  BY <1>4, BracketFacts
<1>6. Len(rd \o c) <= MaxTokens
  OBVIOUS
<1>7. b \o c \in Text /\ rd \o c = upto[n - 1] \o (b \o c)
  <2>1. upto[n - 1] \in Text /\ b \in Text /\ c \in Text
    BY <1>2, <1>4, <1>5
  <2>2. PICK u \in Text : u = upto[n - 1]
    BY <2>1
  <2> HIDE DEF c, n
  <2>3. b \o c \in Text /\ (u \o b) \o c = u \o (b \o c)
    BY ZenonT(60), <2>1, <2>2, ThreeTexts
  <2> QED BY <1>2, <2>2, <2>3
<1>8. Len(b \o c) <= MaxTokens
  <2>1. Len(rd \o c) = Len(upto[n - 1]) + Len(b \o c) /\ Len(upto[n - 1]) \in Nat /\ Len(b \o c) \in Nat
    <3> DEFINE bc == b \o c
    <3>1. bc \in Text /\ upto[n - 1] \in Text /\ rd \o c = upto[n - 1] \o bc
      BY <1>4, <1>7
    <3> HIDE DEF bc
    <3>2. Len(upto[n - 1] \o bc) = Len(upto[n - 1]) + Len(bc) /\ Len(upto[n - 1]) \in Nat
      BY <3>1, ConcatFacts
    <3>3. Len(bc) \in Nat
      BY <3>1, ConcatFacts
    <3> HIDE DEF c
    <3> QED BY <3>1, <3>2, <3>3 DEF bc
  <2>2. \A m, x, y \in Nat : x + y <= m => y <= m
    OBVIOUS
  <2>3. MaxTokens \in Nat
    BY HalfType
  <2> QED BY <1>6, <2>1, <2>2, <2>3, Zenon
<1>9. b \o c \in Inner(n - 1)
  BY <1>3, <1>4, <1>8, FilledFacts, EmptyContainer
<1>10. Len(below) = n - 1 /\ \A i \in 1 .. n - 1 : below[i] = st[i]
  <2>1. st \in Seq(FrameSet)
    BY StackFacts
  <2> QED BY <1>4, <2>1, StackOps
<1>11. Path(upto, below, Len(below))
  BY <1>1, <1>10 DEF Path
<1> QED BY <1>1, <1>7, <1>9, <1>10, <1>11 DEF AtReturn

-----------------------------------------------------------------------------
(* What is accepted is a text of the grammar.                              *)

\* The input has at most MaxTokens tokens, the one looked at included.
Bounded ==
  /\ Len(read) <= MaxTokens
  /\ ahead \notin {Unread, EOF} => Len(read) < MaxTokens

Sound ==
  /\ phase = "value" => AtValue(read, stack)
  /\ phase = "returned" /\ ret # 0 => AtReturn(read, stack)
  /\ phase \in {"first", "key", "colon", "more"} => Inside(phase, read, stack)
  /\ phase = "done" /\ ret # 0 => read \in Grammar!Texts /\ (all => IsEof(ahead))

LEMMA TokensAreSymbols == Token \subseteq Symbol /\ EOF \notin Symbol /\ Unread \notin Symbol
BY TokenAssumption DEF Symbol, EOF, Unread

LEMMA ReadIsText ==
  ASSUME Reading PROVE read \in Text /\ Len(read) \in Nat
<1>1. read \in Seq(Token)
  BY DEF Reading
<1>2. read \in Seq(Symbol)
  BY <1>1, TokensAreSymbols, SeqMonotonic
<1> QED BY <1>1, <1>2 DEF Text

LEMMA PeekFacts ==
  ASSUME Reading, Bounded, NEW t \in PeekAfterSpaces
  PROVE  /\ t \in Token \cup {EOF}
         /\ ahead \in {Unread, t}
         /\ t # EOF => Len(read) < MaxTokens
BY HalfType, ReadIsText DEF PeekAfterSpaces, Upcoming, Reading, Bounded, EOF, Unread

LEMMA Consumed ==
  ASSUME Reading, Bounded, NEW t \in PeekAfterSpaces, t # EOF, Consume(t)
  PROVE  /\ t \in Symbol /\ read \in Text /\ read' = read \o <<t>> /\ read' \in Text
         /\ Len(read') <= MaxTokens /\ ahead' = Unread
         /\ Bounded'
<1>1. t \in Token /\ Len(read) < MaxTokens
  BY PeekFacts
<1>2. t \in Symbol /\ <<t>> \in Text /\ Len(<<t>>) = 1
  BY <1>1, TokensAreSymbols, OneSymbol
<1>3. read \in Text /\ Len(read) \in Nat /\ read \in Seq(Token)
  BY ReadIsText DEF Reading
<1>4. read' = read \o <<t>>
  BY <1>1, <1>3, AppendIsConcat DEF Consume
<1>5. read' \in Text /\ Len(read') = Len(read) + 1
  BY <1>2, <1>3, <1>4, ConcatFacts
<1>6. Len(read') <= MaxTokens /\ ahead' = Unread
  BY <1>1, <1>3, <1>5, HalfType DEF Consume
<1> QED BY <1>2, <1>3, <1>4, <1>5, <1>6 DEF Bounded

LEMMA Kept ==
  ASSUME Reading, Bounded, NEW t \in PeekAfterSpaces, Keep(t)
  PROVE  read' = read /\ ahead' = t /\ Bounded'
<1>1. read' = read /\ ahead' = t
  BY DEF Keep
<1>2. t # EOF => Len(read) < MaxTokens
  BY PeekFacts
<1> QED BY <1>1, <1>2 DEF Bounded

\* What a step does to the input.
LEMMA NextBounded == ASSUME Reading, Bounded, Next PROVE Bounded'
<1>1. CASE \/ Word \/ Number \/ StringValue \/ Open \/ CloseEmpty \/ BrokenKey \/ Key
           \/ Colon \/ CloseAfter \/ Comma
  <2>1. \E t \in PeekAfterSpaces : Consume(t) /\ t # EOF
    BY <1>1 DEF Word, Number, Scalar, StringValue, Open, CloseEmpty, BrokenKey, Key, Colon,
                CloseAfter, Comma, Closing, EOF
  <2> QED BY <2>1, Consumed
<1>2. CASE NotAValue \/ NumberTooLong \/ EnterLoop \/ NotAKey \/ NoColon \/ NoComma \/ Trailing \/ Finish
  <2>1. \E t \in PeekAfterSpaces : Keep(t)
    BY <1>2 DEF NotAValue, NumberTooLong, EnterLoop, NotAKey, NoColon, NoComma, Trailing, Finish
  <2> QED BY <2>1, Kept
<1>3. CASE TooDeep \/ NoValue \/ NoKey \/ ValueFailed \/ AddValue \/ NoRoom
  <2>1. read' = read /\ ahead' = ahead
    BY <1>3 DEF TooDeep, NoValue, NoKey, ValueFailed, AddValue, Added, NoRoom, input
  <2> QED BY <2>1 DEF Bounded
<1>4. CASE \E a \in BOOLEAN : Begin(a)
  <2>1. read' = <<>> /\ ahead' = Unread
    BY <1>4 DEF Begin
  <2>2. Len(read') <= MaxTokens
    BY <2>1, HalfType
  <2> QED BY <2>1, <2>2 DEF Bounded
<1> QED BY <1>1, <1>2, <1>3, <1>4 DEF Next, Step

LEMMA StackIsAllowed ==
  ASSUME IInv
  PROVE  /\ stack \in Stacks
         /\ phase = "value" => depth = Len(stack)
         /\ phase \in {"first", "key", "colon", "more"} => stack # <<>>
         /\ phase \in {"idle", "done"} => stack = <<>>
BY FrameStack DEF IInv, Framed, Counted, Stacks

\* The level of a value that may be read is above the lowest.
LEMMA RoomForValue ==
  ASSUME IInv, phase = "value", depth + 1 <= MaxDepth
  PROVE  /\ Len(stack) + 1 <= MaxDepth
         /\ \E S : Inner(Len(stack)) = Grammar!Nest(S)
<1>1. Len(stack) \in Nat /\ MaxDepth \in Nat /\ Len(stack) + 1 <= MaxDepth
  BY StackIsAllowed, StackFacts, MaxDepthAssumption
<1>2. MaxDepth - Len(stack) \in 1 .. MaxDepth
  BY <1>1
<1>3. Inner(Len(stack)) = Grammar!Nest(Level(MaxDepth - Len(stack) - 1))
  BY <1>2, LevelStep DEF Inner
<1> QED BY <1>1, <1>3

LEMMA ScanOk == ASSUME NEW t, NEW s \in Scan(t), s.ok PROVE t = "str"
<1> SUFFICES ASSUME t # "str" PROVE FALSE
  OBVIOUS
<1>1. s \in [ok : {FALSE}, data : {0, 1}, lost : IF scarce THEN {0, 1} ELSE {0},
             error : Syntax \cup IF scarce THEN {"oom"} ELSE {}]
  BY DEF Scan
<1> QED BY <1>1

\* A value of one token.
LEMMA ScalarSound ==
  ASSUME IInv, Reading, Bounded, Sound, Word \/ Number \/ StringValue
  PROVE  Sound'
<1>1. phase = "value" /\ depth + 1 <= MaxDepth /\ phase' = "returned" /\ stack' = stack
  BY DEF Word, Number, Scalar, StringValue
<1>2. ASSUME ret' # 0
      PROVE  \E t \in PeekAfterSpaces : t \in {"str", "num", "word"} /\ Consume(t)
  <2>1. CASE Word \/ Number
    BY <2>1 DEF Word, Number, Scalar
  <2>2. CASE StringValue
    <3>1. PICK t \in PeekAfterSpaces \cap {"str", "badstr"} :
            /\ Consume(t)
            /\ \E s \in Scan(t) : ret' = IF s.ok THEN 1 + s.data ELSE 0
      BY <2>2 DEF StringValue
    <3>2. PICK s \in Scan(t) : ret' = IF s.ok THEN 1 + s.data ELSE 0
      BY <3>1
    <3>3. t = "str"
      BY <1>2, <3>2, ScanOk
    <3> QED BY <3>1, <3>3
  <2> QED BY <2>1, <2>2
<1>3. ASSUME ret' # 0 PROVE AtReturn(read', stack')
  <2>1. PICK t \in PeekAfterSpaces : t \in {"str", "num", "word"} /\ Consume(t)
    BY <1>2, <1>3
  <2>2. t # EOF
    BY <2>1 DEF EOF
  <2>3. read' = read \o <<t>> /\ Len(read) < MaxTokens /\ Len(read) \in Nat
    BY <2>1, <2>2, Consumed, PeekFacts, ReadIsText
  <2>4. MaxTokens >= 1
    BY <2>3, HalfType
  <2>5. <<t>> \in Inner(Len(stack))
    BY <1>1, <2>1, <2>4, RoomForValue, NestParts
  <2>6. AtValue(read, stack)
    BY <1>1 DEF Sound
  <2>7. AtReturn(read \o <<t>>, stack)
    BY <2>5, <2>6, ValueRead
  <2> QED BY <1>1, <2>3, <2>7
<1> QED BY <1>1, <1>3 DEF Sound

LEMMA NewFrame ==
  \A t : [kind |-> IF t = "[" THEN "array" ELSE "object", own |-> 1, key |-> 0] \in FrameSet
<1> TAKE t
<1>1. PICK k \in {"array", "object"} : k = IF t = "[" THEN "array" ELSE "object"
  OBVIOUS
<1>2. [kind |-> k, own |-> 1, key |-> 0] \in FrameSet
  BY <1>1 DEF FrameSet
<1> QED BY <1>1, <1>2

LEMMA OpenSound ==
  ASSUME IInv, Reading, Bounded, Sound, Open
  PROVE  Sound'
<1>1. /\ phase = "value" /\ phase' = "first"
  BY DEF Open
<1>2. PICK t \in PeekAfterSpaces \cap {"[", "{"} :
        /\ Consume(t)
        /\ stack' = Append(stack, [kind |-> IF t = "[" THEN "array" ELSE "object",
                                   own |-> 1, key |-> 0])
  BY DEF Open
<1> DEFINE f == [kind |-> IF t = "[" THEN "array" ELSE "object", own |-> 1, key |-> 0]
<1>3. f \in FrameSet /\ Opens(f.kind) = t
  <2>1. f \in FrameSet
    BY NewFrame
  <2>2. t \in {"[", "{"}
    BY <1>2
  <2>3. f.kind = IF t = "[" THEN "array" ELSE "object"
    OBVIOUS
  <2> HIDE DEF f
  <2>4. Opens(f.kind) = t
    BY <2>2, <2>3 DEF Opens
  <2> QED BY <2>1, <2>4
<1>4. stack' = Append(stack, f)
  BY <1>2
<1> HIDE DEF f
<1>5. t # EOF
  BY <1>2 DEF EOF
<1>6. read' = read \o <<Opens(f.kind)>>
  BY <1>2, <1>3, <1>5, Consumed
<1>7. AtValue(read, stack) /\ stack \in Stacks
  BY <1>1, StackIsAllowed DEF Sound
<1>8. Inside("first", read', stack')
  BY <1>3, <1>4, <1>6, <1>7, ContainerOpened
<1> QED BY <1>1, <1>8 DEF Sound

LEMMA LoopSound ==
  ASSUME IInv, Reading, Bounded, Sound, EnterLoop \/ Colon \/ Comma
  PROVE  Sound'
<1> DEFINE k == stack[Len(stack)].kind
<1>1. phase \in {"first", "colon", "more"} /\ stack' = stack
  BY DEF EnterLoop, Colon, Comma
<1>2. /\ stack \in Stacks /\ stack # <<>> /\ read \in Text /\ k \in Kind
      /\ Inside(phase, read, stack)
  <2>1. stack \in Stacks /\ stack # <<>> /\ read \in Text /\ Inside(phase, read, stack)
    BY <1>1, StackIsAllowed, ReadIsText DEF Sound
  <2>2. Len(stack) \in 1 .. Len(stack)
    BY <2>1, StackFacts
  <2> QED BY <2>1, <2>2, StackFacts
<1>3. CASE EnterLoop
  <2>1. phase = "first" /\ phase' = IF k = "array" THEN "value" ELSE "key"
    BY <1>3 DEF EnterLoop, Top
  <2>2. read' = read
    BY <1>3 DEF EnterLoop, Keep
  <2>3. IF k = "array" THEN AtValue(read, stack) ELSE Inside("key", read, stack)
    BY <1>2, <2>1, LoopEntered
  <2> QED BY <1>1, <2>1, <2>2, <2>3 DEF Sound
<1>4. CASE Colon
  <2>1. phase = "colon" /\ phase' = "value" /\ ":" \in PeekAfterSpaces /\ Consume(":")
    BY <1>4 DEF Colon
  <2>2. read' = read \o <<":">>
    BY <2>1, Consumed DEF EOF
  <2>3. AtValue(read', stack)
    BY <1>2, <2>1, <2>2, ColonRead
  <2> QED BY <1>1, <2>1, <2>3 DEF Sound
<1>5. CASE Comma
  <2>1. /\ phase = "more" /\ phase' = IF k = "array" THEN "value" ELSE "key"
        /\ "," \in PeekAfterSpaces /\ Consume(",")
    BY <1>5 DEF Comma, Top
  <2>2. read' = read \o <<",">>
    BY <2>1, Consumed DEF EOF
  <2>3. IF k = "array" THEN AtValue(read', stack) ELSE Inside("key", read', stack)
    BY <1>2, <2>1, <2>2, CommaRead
  <2> QED BY <1>1, <2>1, <2>3 DEF Sound
<1> QED BY <1>3, <1>4, <1>5

\* Another frame of the same kind at the top.
LEMMA TopReplaced ==
  ASSUME IInv, stack # <<>>, NEW f \in FrameSet, f.kind = Top.kind, SetTop(f)
  PROVE  /\ stack' \in Stacks /\ stack' # <<>> /\ Len(stack') = Len(stack)
         /\ \A i \in 1 .. Len(stack) : stack'[i].kind = stack[i].kind
<1>1. stack \in Stacks /\ stack \in Seq(FrameSet) /\ Len(stack) <= MaxDepth
  BY StackIsAllowed DEF Stacks
<1>2. stack' = [stack EXCEPT ![Len(stack)] = f]
  BY DEF SetTop
<1>3. stack' \in Seq(FrameSet) /\ stack' # <<>> /\ Len(stack') = Len(stack)
  BY <1>1, <1>2, StackOps
<1>4. ASSUME NEW i \in 1 .. Len(stack) PROVE stack'[i].kind = stack[i].kind
  BY <1>1, <1>2 DEF Top
<1> QED BY <1>1, <1>3, <1>4 DEF Stacks

LEMMA AddedKinds ==
  ASSUME IInv, stack # <<>>, AddValue
  PROVE  /\ stack' \in Stacks /\ stack' # <<>> /\ Len(stack') = Len(stack)
         /\ \A i \in 1 .. Len(stack) : stack'[i].kind = stack[i].kind
<1>1. Top \in FrameSet
  BY TopAndBelow
<1>2. PICK b \in {0, 1} : Added(b)
  BY DEF AddValue
<1> DEFINE m == Top.own + Top.key + ret + b
<1>3. m \in Nat \ {0}
  <2>1. Top.own \in Nat \ {0} /\ Top.key \in Nat /\ ret \in Nat
    BY <1>1 DEF FrameSet, IInv, Shape
  <2> QED BY <1>2, <2>1
<1>4. PICK f : f = [Top EXCEPT !.own = m, !.key = 0]
  OBVIOUS
<1>5. SetTop(f)
  BY <1>2, <1>4 DEF Added
<1> HIDE DEF m
<1>6. f \in FrameSet /\ f.kind = Top.kind
  BY <1>1, <1>3, <1>4 DEF FrameSet
<1> QED BY <1>5, <1>6, TopReplaced

LEMMA FrameSound ==
  ASSUME IInv, Reading, Bounded, Sound, Key \/ AddValue
  PROVE  Sound'
<1>1. stack # <<>> /\ stack \in Stacks /\ read \in Text /\ Top \in FrameSet
  BY StackIsAllowed, ReadIsText, TopAndBelow DEF Key, AddValue, InnerReturn
<1>2. CASE Key
  <2>1. phase = "key" /\ phase' = "colon" /\ "str" \in PeekAfterSpaces /\ Consume("str")
    BY <1>2 DEF Key
  <2>2. PICK s \in Scan("str") : SetTop([Top EXCEPT !.key = 1 + s.data])
    BY <1>2 DEF Key
  <2>3. s.data \in {0, 1}
    BY ScanOutcome DEF IInv, Shape
  <2>4. PICK f : f = [Top EXCEPT !.key = 1 + s.data]
    OBVIOUS
  <2>5. f \in FrameSet /\ f.kind = Top.kind
    BY <1>1, <2>3, <2>4 DEF FrameSet
  <2>6. read' = read \o <<"str">>
    BY <2>1, Consumed DEF EOF
  <2>7. Inside("colon", read', stack)
    BY <1>1, <2>1, <2>6, KeyRead DEF Sound
  <2>8. SetTop(f)
    BY <2>2, <2>4
  <2>9. /\ stack' \in Stacks /\ stack' # <<>> /\ Len(stack') = Len(stack)
        /\ \A i \in 1 .. Len(stack) : stack'[i].kind = stack[i].kind
    BY <1>1, <2>5, <2>8, TopReplaced
  <2>10. Inside("colon", read', stack')
    BY <1>1, <2>7, <2>9, SameKinds
  <2> QED BY <2>1, <2>10 DEF Sound
<1>3. CASE AddValue
  <2>1. phase' = "more" /\ read' = read
    BY <1>3 DEF AddValue, Added, input
  <2>2. AtReturn(read, stack)
    BY <1>3 DEF AddValue, InnerReturn, Sound
  <2>3. Inside("more", read, stack)
    BY <1>1, <2>2, ValueAdded DEF Bounded
  <2>4. /\ stack' \in Stacks /\ stack' # <<>> /\ Len(stack') = Len(stack)
        /\ \A i \in 1 .. Len(stack) : stack'[i].kind = stack[i].kind
    BY <1>1, <1>3, AddedKinds
  <2>5. Inside("more", read', stack')
    BY <1>1, <2>1, <2>3, <2>4, SameKinds
  <2> QED BY <2>1, <2>5 DEF Sound
<1> QED BY <1>2, <1>3

LEMMA CloseSound ==
  ASSUME IInv, Reading, Bounded, Sound, CloseEmpty \/ CloseAfter
  PROVE  Sound'
<1>1. /\ phase \in {"first", "more"} /\ phase' = "returned" /\ stack' = Below
      /\ Closing \in PeekAfterSpaces /\ Consume(Closing)
  BY DEF CloseEmpty, CloseAfter, Close, Return
<1>2. Closing = Closes(stack[Len(stack)].kind) /\ Closing # EOF
  BY DEF Closing, Closes, Top, EOF
<1>3. stack \in Stacks /\ stack # <<>> /\ read \in Text /\ Inside(phase, read, stack)
  BY <1>1, StackIsAllowed, ReadIsText DEF Sound
<1>4. read' = read \o <<Closing>> /\ Len(read') <= MaxTokens
  BY <1>1, <1>2, Consumed
<1>5. Inside("first", read, stack) \/ Inside("more", read, stack)
  BY <1>1, <1>3
<1>6. AtReturn(read', Below)
  BY <1>2, <1>3, <1>4, <1>5, ContainerClosed DEF Below
<1> QED BY <1>1, <1>6 DEF Sound

LEMMA FailSound ==
  ASSUME \/ TooDeep \/ NoValue \/ NotAValue \/ NumberTooLong
         \/ NoKey \/ NotAKey \/ BrokenKey \/ NoColon \/ ValueFailed \/ NoRoom \/ NoComma
         \/ Trailing
  PROVE  Sound'
<1>1. ret' = 0 /\ phase' \in {"returned", "done"}
  BY DEF TooDeep, NoValue, NotAValue, NumberTooLong, NoKey, NotAKey, BrokenKey, NoColon, ValueFailed, NoRoom,
         NoComma, Trailing, Fail, Return
<1> QED BY <1>1 DEF Sound

LEMMA BeginSound == ASSUME IInv, NEW a \in BOOLEAN, Begin(a) PROVE Sound'
<1>1. phase' = "value" /\ stack' = stack /\ read' = <<>> /\ phase \in {"idle", "done"}
  BY DEF Begin
<1>2. stack' = <<>> /\ Len(<<>>) = 0
  BY <1>1, StackIsAllowed
<1> DEFINE u == [i \in Nat |-> <<>>]
<1>3. u \in [Nat -> Text] /\ u[0] = <<>>
  BY EmptySeq DEF Text
<1> HIDE DEF u
<1>4. Path(u, <<>>, Len(<<>>))
  BY <1>2 DEF Path
<1>5. AtValue(<<>>, <<>>)
  BY <1>2, <1>3, <1>4 DEF AtValue
<1> QED BY <1>1, <1>2, <1>5 DEF Sound

LEMMA FinishSound ==
  ASSUME IInv, Reading, Bounded, Sound, Finish
  PROVE  Sound'
<1>1. PICK t \in PeekAfterSpaces : (all /\ ret # 0 => IsEof(t)) /\ Keep(t)
  BY DEF Finish
<1>2. /\ phase = "returned" /\ stack = <<>> /\ phase' = "done" /\ ret' = ret /\ all' = all
      /\ read' = read /\ ahead' = t
  BY <1>1 DEF Finish, OuterReturn, Keep, call
<1>3. ASSUME ret # 0 PROVE read \in Grammar!Texts
  <2>1. AtReturn(read, <<>>) /\ Len(<<>>) = 0
    BY <1>2, <1>3 DEF Sound
  <2>2. PICK v \in Inner(0) : read = <<>> \o v
    BY <2>1 DEF AtReturn
  <2>3. Inner(0) = Level(MaxDepth) /\ MaxDepth \in 0 .. MaxDepth
    BY MaxDepthAssumption DEF Inner
  <2>4. v \in Text
    BY <2>3, LevelsAreSolid DEF Solid
  <2>5. read = v
    BY <2>2, <2>4, ConcatEmptySeq DEF Text
  <2> QED BY <2>3, <2>5 DEF Level, Grammar!Texts
<1> QED BY <1>1, <1>2, <1>3 DEF Sound, IsEof

LEMMA NextSound == ASSUME IInv, Reading, Bounded, Sound, Next PROVE Sound'
<1>1. CASE \E a \in BOOLEAN : Begin(a)
  BY <1>1, BeginSound
<1>2. CASE Step
  BY <1>2, ScalarSound, OpenSound, LoopSound, FrameSound, CloseSound, FailSound, FinishSound
     DEF Step
<1> QED BY <1>1, <1>2 DEF Next

LEMMA SpecSound == Spec => [](Bounded /\ Sound)
<1>1. Init => Bounded /\ Sound
  <2> SUFFICES ASSUME Init PROVE Bounded /\ Sound
    OBVIOUS
  <2>1. read = <<>> /\ ahead = Unread /\ phase = "idle"
    BY DEF Init
  <2>2. Len(read) <= MaxTokens
    BY <2>1, HalfType
  <2> QED BY <2>1, <2>2 DEF Bounded, Sound
<1>2. IInv /\ Reading /\ Bounded /\ Sound /\ Next => Bounded' /\ Sound'
  BY NextBounded, NextSound
<1>3. Bounded /\ Sound /\ UNCHANGED vars => Bounded' /\ Sound'
  BY DEF Bounded, Sound, vars, input, call, IsEof
<1> QED BY <1>1, <1>2, <1>3, SpecIInv, SpecReading, PTL DEF Spec

-----------------------------------------------------------------------------
(* What is to come, in a text that begins with what has been read.  rest[i] *)
(* is what follows the value or the member of container i that is read.    *)

\* What follows an element or a member of a container, its end included.
After(k, S, c) ==
  \/ c = <<Closes(k)>>
  \/ \E e \in Grammar!CommaList(Items(k, S)) : c = <<",">> \o (e \o <<Closes(k)>>)

Follow(rest, st, m) ==
  \A i \in 1 .. m : \E c \in Text :
    After(st[i].kind, Inner(i), c) /\ rest[i] = c \o rest[i - 1]

LeftValue(r, st) ==
  \E rest \in [Nat -> Text] :
    /\ rest[0] = <<>> /\ Follow(rest, st, Len(st))
    /\ \E v \in Inner(Len(st)) : r = v \o rest[Len(st)]
LeftItem(r, st) ==
  \E rest \in [Nat -> Text] :
    /\ rest[0] = <<>> /\ Follow(rest, st, Len(st))
    /\ \E x \in Items(st[Len(st)].kind, Inner(Len(st))) : r = x \o rest[Len(st)]
LeftColon(r, st) ==
  \E rest \in [Nat -> Text] :
    /\ rest[0] = <<>> /\ Follow(rest, st, Len(st))
    /\ \E v \in Inner(Len(st)) : r = <<":">> \o (v \o rest[Len(st)])
LeftAfter(r, st) ==
  \E rest \in [Nat -> Text] :
    rest[0] = <<>> /\ Follow(rest, st, Len(st)) /\ r = rest[Len(st)]
LeftFirst(r, st) ==
  \E rest \in [Nat -> Text] :
    /\ rest[0] = <<>> /\ Follow(rest, st, Len(st) - 1)
    /\ \E e \in Contents(st[Len(st)].kind, Inner(Len(st))) :
         r = (e \o <<Closes(st[Len(st)].kind)>>) \o rest[Len(st) - 1]
LeftList(r, st) ==
  \E rest \in [Nat -> Text] :
    /\ rest[0] = <<>> /\ Follow(rest, st, Len(st) - 1)
    /\ \E e \in Grammar!CommaList(Items(st[Len(st)].kind, Inner(Len(st)))) :
         r = (e \o <<Closes(st[Len(st)].kind)>>) \o rest[Len(st) - 1]

LEMMA FirstSymbol ==
  ASSUME NEW a \in Symbol, NEW b \in Symbol, NEW p \in Text, NEW q \in Text
  PROVE  /\ <<a>> \o p # <<>>
         /\ <<a>> \o p = <<b>> \o q => a = b /\ p = q
<1>1. \A x \in Symbol : <<x>> \in Text /\ Len(<<x>>) = 1 /\ <<x>>[1] = x
  BY DEF Text
<1>2. ASSUME NEW x \in Symbol, NEW s \in Text
      PROVE  Len(<<x>> \o s) = 1 + Len(s) /\ Len(s) \in Nat /\ (<<x>> \o s)[1] = x
  <2> DEFINE y == <<x>>
  <2>1. y \in Text /\ Len(y) = 1 /\ y[1] = x
    BY <1>1
  <2> HIDE DEF y
  <2>2. Len(s) \in Nat
    BY DEF Text
  <2>3. /\ Len(y \o s) = Len(y) + Len(s)
        /\ \A i \in 1 .. Len(y) + Len(s) : (y \o s)[i] = IF i <= Len(y) THEN y[i] ELSE s[i - Len(y)]
    BY <2>1, ConcatProperties DEF Text
  <2>4. 1 \in 1 .. Len(y) + Len(s) /\ 1 <= Len(y)
    BY <2>1, <2>2
  <2> QED BY <2>1, <2>2, <2>3, <2>4 DEF y
<1>3. <<a>> \o p # <<>>
  <2>1. Len(<<a>> \o p) # 0
    BY <1>2
  <2> QED BY <2>1
<1>4. ASSUME <<a>> \o p = <<b>> \o q PROVE a = b /\ p = q
  <2>1. a = b
    BY <1>2, <1>4
  <2>2. <<a>> \o p = <<a>> \o q /\ <<a>> \in Text
    BY <1>1, <1>4, <2>1
  <2> HIDE DEF Text
  <2>3. p = q
    BY <2>2, ConcatSimplifications DEF Text
  <2> QED BY <2>1, <2>3
<1> QED BY <1>3, <1>4

LEMMA SameHead ==
  \A a \in Symbol, b \in Symbol, p \in Text, q \in Text : <<a>> \o p = <<b>> \o q => a = b /\ p = q
BY FirstSymbol

\* What a value, an element or a member begins with.
Starter == {"str", "num", "word", "[", "{"}

LEMMA ValueHead ==
  ASSUME NEW S, Solid(S), NEW s \in Grammar!Nest(S)
  PROVE  \/ \E t \in {"str", "num", "word"} : s = <<t>>
         \/ \E k \in Kind : \E e \in Contents(k, S) :
              e \in Text /\ s = <<Opens(k)>> \o (e \o <<Closes(k)>>)
<1>1. \/ \E t \in {"str", "num", "word"} : s = <<t>>
      \/ \E k \in Kind : \E e \in Contents(k, S) : s = Wrapped(k, e)
  BY NestParts
<1>2. ASSUME NEW k \in Kind, NEW e \in Contents(k, S), s = Wrapped(k, e)
      PROVE  e \in Text /\ s = <<Opens(k)>> \o (e \o <<Closes(k)>>)
  <2> DEFINE o == <<Opens(k)>>
             c == <<Closes(k)>>
  <2>1. o \in Text /\ c \in Text /\ e \in Text
    BY BracketFacts, ContentsAreTexts
  <2>2. s = (o \o e) \o c
    BY <1>2 DEF Wrapped
  <2> HIDE DEF o, c
  <2>3. s = o \o (e \o c)
    BY <2>1, <2>2, ConcatAssoc
  <2> QED BY <2>1, <2>3 DEF o, c
<1> QED BY <1>1, <1>2

LEMMA ItemHead ==
  ASSUME NEW st \in Stacks, NEW i \in 0 .. Len(st), NEW v \in Inner(i)
  PROVE  \E h \in Starter, q \in Text : v = <<h>> \o q
<1>1. MaxDepth \in Nat /\ Len(st) \in 0 .. MaxDepth
  BY StackFacts, MaxDepthAssumption
<1> DEFINE d == MaxDepth - i
<1>2. d \in 0 .. MaxDepth /\ v \in Level(d)
  BY <1>1 DEF Inner
<1> HIDE DEF d
<1>3. d # 0
  BY <1>2, LevelStep
<1>4. d \in 1 .. MaxDepth /\ d - 1 \in 0 .. MaxDepth
  BY <1>1, <1>2, <1>3
<1>5. v \in Grammar!Nest(Level(d - 1)) /\ Solid(Level(d - 1))
  BY <1>2, <1>4, LevelStep, LevelsAreSolid
<1>6. CASE \E t \in {"str", "num", "word"} : v = <<t>>
  <2>1. PICK t \in {"str", "num", "word"} : v = <<t>>
    BY <1>6
  <2>2. t \in Starter /\ t \in Symbol
    BY DEF Starter, Symbol
  <2>3. <<t>> \in Text /\ <<>> \in Text
    BY <2>2, OneSymbol DEF Text
  <2>4. <<t>> \o <<>> = <<t>>
    BY <2>3, ConcatEmptySeq DEF Text
  <2> QED BY <2>1, <2>2, <2>3, <2>4
<1>7. CASE \E k \in Kind : \E e \in Contents(k, Level(d - 1)) :
             e \in Text /\ v = <<Opens(k)>> \o (e \o <<Closes(k)>>)
  <2>1. PICK k \in Kind : \E e \in Contents(k, Level(d - 1)) :
             e \in Text /\ v = <<Opens(k)>> \o (e \o <<Closes(k)>>)
    BY <1>7
  <2>2. PICK e \in Contents(k, Level(d - 1)) : e \in Text /\ v = <<Opens(k)>> \o (e \o <<Closes(k)>>)
    BY <2>1
  <2>3. Opens(k) \in Starter
    BY DEF Starter, Opens
  <2>4. e \o <<Closes(k)>> \in Text
    BY <2>2, BracketFacts, ConcatFacts
  <2> QED BY <2>2, <2>3, <2>4
<1>8. \/ \E t \in {"str", "num", "word"} : v = <<t>>
      \/ \E k \in Kind : \E e \in Contents(k, Level(d - 1)) :
           e \in Text /\ v = <<Opens(k)>> \o (e \o <<Closes(k)>>)
  BY <1>5, ValueHead
<1> QED BY <1>6, <1>7, <1>8

LEMMA MemberHead ==
  ASSUME NEW st \in Stacks, st # <<>>, NEW x \in Items(st[Len(st)].kind, Inner(Len(st)))
  PROVE  /\ x \in Text
         /\ st[Len(st)].kind = "array" => x \in Inner(Len(st))
         /\ st[Len(st)].kind = "object" => \E v \in Inner(Len(st)) :
              v \in Text /\ x = <<"str">> \o (<<":">> \o v)
<1> DEFINE n == Len(st)
           k == st[n].kind
<1>1. n \in 1 .. n /\ n \in 0 .. n /\ k \in Kind /\ Solid(Inner(n))
  BY StackFacts
<1>2. PICK v \in Inner(n) : x = Lead(k) \o v
  BY <1>1, ItemsParts
<1>3. v \in Text
  BY <1>1 DEF Solid
<1>4. x \in Text
  BY <1>1, ItemsParts DEF Solid
<1>5. k = "array" => x \in Inner(n)
  BY DEF Items
<1>6. ASSUME k = "object" PROVE x = <<"str">> \o (<<":">> \o v)
  <2> DEFINE a == <<"str">>
             b == <<":">>
  <2>1. a \in Text /\ b \in Text
    BY OneSymbol DEF Symbol
  <2>2. x = (a \o b) \o v
    BY <1>2, <1>6, TwoSymbols DEF Lead
  <2> HIDE DEF a, b
  <2>3. x = a \o (b \o v)
    BY <1>3, <2>1, <2>2, ConcatAssoc
  <2> QED BY <2>3 DEF a, b
<1> QED BY <1>3, <1>4, <1>5, <1>6

LEMMA FollowFacts ==
  ASSUME NEW st \in Stacks, NEW rest \in [Nat -> Text], rest[0] = <<>>
  PROVE  /\ rest[Len(st)] \in Text
         /\ st # <<>> => rest[Len(st) - 1] \in Text
         /\ Follow(rest, st, Len(st)) => Follow(rest, st, Len(st) - 1)
<1>1. Len(st) \in Nat /\ (st # <<>> => Len(st) - 1 \in Nat)
  BY StackFacts
<1>2. 1 .. Len(st) - 1 \subseteq 1 .. Len(st)
  BY <1>1
<1> QED BY <1>1, <1>2 DEF Follow

\* Container Len(st) is followed by c and by what follows below it.
LEMMA FollowMore ==
  ASSUME NEW st \in Stacks, st # <<>>, NEW rest \in [Nat -> Text], rest[0] = <<>>,
         Follow(rest, st, Len(st) - 1),
         NEW c \in Text, After(st[Len(st)].kind, Inner(Len(st)), c)
  PROVE  \E u \in [Nat -> Text] :
           /\ u[0] = <<>> /\ Follow(u, st, Len(st))
           /\ u[Len(st)] = c \o rest[Len(st) - 1]
<1> DEFINE n == Len(st)
           w == c \o rest[n - 1]
           u == [rest EXCEPT ![n] = w]
<1>1. n \in Nat \ {0} /\ n - 1 \in Nat
  BY StackFacts
<1>2. rest[n - 1] \in Text
  BY <1>1
<1>3. w \in Text
  BY <1>2, ConcatFacts
<1> HIDE DEF w
<1>4. u \in [Nat -> Text] /\ u[0] = <<>> /\ u[n] = w
  BY <1>1, <1>3
<1>5. Follow(u, st, n)
  <2> SUFFICES ASSUME NEW i \in 1 .. n
               PROVE  \E e \in Text : After(st[i].kind, Inner(i), e) /\ u[i] = e \o u[i - 1]
    BY DEF Follow
  <2>1. i \in Nat /\ i - 1 \in Nat /\ i - 1 # n /\ u[i - 1] = rest[i - 1]
    BY <1>1
  <2>2. CASE i = n
    BY <1>4, <2>1, <2>2 DEF w
  <2>3. CASE i # n
    <3>1. i \in 1 .. n - 1 /\ u[i] = rest[i]
      BY <1>1, <2>3
    <3> QED BY <2>1, <3>1 DEF Follow
  <2> QED BY <2>2, <2>3
<1> HIDE DEF u
<1> QED BY <1>4, <1>5 DEF w

\* A list is an element or a member and what follows it.
LEMMA ListLeft ==
  ASSUME NEW st \in Stacks, st # <<>>, NEW r \in Text, LeftList(r, st)
  PROVE  LeftItem(r, st)
<1> DEFINE n == Len(st)
           k == st[n].kind
           S == Items(k, Inner(n))
           z == <<Closes(k)>>
<1>0. n \in 1 .. n /\ k \in Kind /\ Solid(Inner(n))
  BY StackFacts
<1>1. Solid(S) /\ z \in Text
  BY <1>0, ItemsParts, BracketFacts
<1>2. PICK rest \in [Nat -> Text] :
        /\ rest[0] = <<>> /\ Follow(rest, st, n - 1)
        /\ \E e \in Grammar!CommaList(S) : r = (e \o z) \o rest[n - 1]
  BY DEF LeftList
<1>3. PICK e \in Grammar!CommaList(S) : r = (e \o z) \o rest[n - 1]
  BY <1>2
<1>4. PICK y \in Text : y = rest[n - 1]
  BY <1>2, FollowFacts
<1>5. ASSUME NEW x \in S, NEW c \in Text, After(k, Inner(n), c), e \o z = x \o c
      PROVE  LeftItem(r, st)
  <2>1. PICK u \in [Nat -> Text] :
          u[0] = <<>> /\ Follow(u, st, n) /\ u[n] = c \o rest[n - 1]
    BY <1>2, <1>5, FollowMore
  <2>2. x \in Text
    BY <1>1 DEF Solid
  <2>3. (x \o c) \o y = x \o (c \o y)
    BY <2>2, ConcatAssoc
  <2>4. r = x \o u[n]
    BY <1>3, <1>4, <1>5, <2>1, <2>3
  <2> QED BY <2>1, <2>4 DEF LeftItem
<1>6. CASE e \in S
  <2>1. After(k, Inner(n), z)
    BY DEF After
  <2> QED BY <1>1, <1>5, <1>6, <2>1
<1>7. CASE \E x \in S, f \in Grammar!CommaList(S) : e = Joined(x, f)
  <2>1. PICK x \in S, f \in Grammar!CommaList(S) : e = Joined(x, f)
    BY <1>7
  <2> DEFINE m == <<",">>
             c == m \o (f \o z)
  <2>2. x \in Text /\ f \in Text /\ m \in Text
    BY <1>0, <1>1, ListParts, BracketFacts DEF Solid
  <2>3. After(k, Inner(n), c)
    BY DEF After
  <2>4. e = (x \o m) \o f
    BY <2>1 DEF Joined
  <2> HIDE DEF m, z
  <2>5. c \in Text /\ f \o z \in Text /\ x \o m \in Text
    BY <1>1, <2>2, ConcatFacts
  <2>6. PICK a \in Text, b \in Text : a = x \o m /\ b = f \o z
    BY <2>5
  <2>7. e \o z = a \o b
    <3>1. (a \o f) \o z = a \o (f \o z)
      BY ZenonT(60), <1>1, <2>2, ConcatAssoc
    <3> QED BY <2>4, <2>6, <3>1
  <2>8. a \o b = x \o c
    <3>1. x \in Text /\ m \in Text /\ b \in Text
      BY <2>2, <2>6
    <3>2. (x \o m) \o b = x \o (m \o b)
      BY ZenonT(60), <3>1, ConcatAssoc
    <3> QED BY <2>6, <3>2
  <2>9. e \o z = x \o c
    BY <2>7, <2>8
  <2> HIDE DEF c
  <2> QED BY <1>5, <2>3, <2>5, <2>9
<1> QED BY <1>1, <1>6, <1>7, ListParts

-----------------------------------------------------------------------------
(* What the next symbol may be, and what is left after it.                 *)

LEMMA StarterFacts ==
  /\ Starter \subseteq Symbol /\ "," \in Symbol /\ ":" \in Symbol
  /\ \A k \in Kind : /\ Closes(k) \in Symbol \ Starter /\ Closes(k) # ","
                     /\ Opens(k) \in Starter /\ Opens(k) \notin {"str", "num", "word"}
  /\ "," \notin Starter /\ ":" \notin Starter /\ "str" \in Starter
  /\ {"str", "num", "word"} \subseteq Starter
  /\ Opens("array") # Opens("object")
BY DEF Starter, Symbol, Opens, Closes, Kind

\* Something is left, and it begins as a value or a member does.
LEMMA LeftStarts ==
  ASSUME NEW st \in Stacks, NEW r \in Text
  PROVE  /\ LeftValue(r, st) => \E h \in Starter, q \in Text : r = <<h>> \o q
         /\ st # <<>> /\ LeftItem(r, st) => \E h \in Starter, q \in Text : r = <<h>> \o q
<1> DEFINE n == Len(st)
<1>0. n \in 0 .. n
  BY StackFacts
<1>1. ASSUME NEW h \in Starter, NEW p \in Text, NEW z \in Text, r = (<<h>> \o p) \o z
      PROVE  \E g \in Starter, q \in Text : r = <<g>> \o q
  <2>1. <<h>> \in Text
    BY StarterFacts, OneSymbol
  <2>2. r = <<h>> \o (p \o z) /\ p \o z \in Text
    BY ZenonT(60), <1>1, <2>1, ThreeTexts
  <2> QED BY <2>2
<1>2. ASSUME LeftValue(r, st) PROVE \E h \in Starter, q \in Text : r = <<h>> \o q
  <2>1. PICK rest \in [Nat -> Text] :
          rest[0] = <<>> /\ \E v \in Inner(n) : r = v \o rest[n]
    BY <1>2 DEF LeftValue
  <2>2. PICK v \in Inner(n) : r = v \o rest[n]
    BY <2>1
  <2>3. PICK h \in Starter, p \in Text : v = <<h>> \o p
    BY <1>0, ItemHead
  <2>4. rest[n] \in Text
    BY <2>1, FollowFacts
  <2> QED BY <1>1, <2>2, <2>3, <2>4
<1>3. ASSUME st # <<>>, LeftItem(r, st) PROVE \E h \in Starter, q \in Text : r = <<h>> \o q
  <2> DEFINE k == st[n].kind
  <2>1. PICK rest \in [Nat -> Text] :
          rest[0] = <<>> /\ \E x \in Items(k, Inner(n)) : r = x \o rest[n]
    BY <1>3 DEF LeftItem
  <2>2. PICK x \in Items(k, Inner(n)) : r = x \o rest[n]
    BY <2>1
  <2>4. rest[n] \in Text
    BY <2>1, FollowFacts
  <2>5. k \in Kind
    BY <1>3, StackFacts
  <2>6. CASE k = "array"
    <3>1. x \in Inner(n)
      BY <1>3, <2>6, MemberHead
    <3>2. PICK h \in Starter, p \in Text : x = <<h>> \o p
      BY <1>0, <3>1, ItemHead
    <3> QED BY <1>1, <2>2, <2>4, <3>2
  <2>7. CASE k = "object"
    <3>1. PICK v \in Inner(n) : v \in Text /\ x = <<"str">> \o (<<":">> \o v)
      BY <1>3, <2>7, MemberHead
    <3>2. <<":">> \in Text
      BY StarterFacts, OneSymbol
    <3>3. <<":">> \o v \in Text
      BY <3>1, <3>2, ConcatFacts
    <3> QED BY <1>1, <2>2, <2>4, <3>1, <3>3, StarterFacts
  <2> QED BY <2>5, <2>6, <2>7 DEF Kind
<1> QED BY <1>2, <1>3

\* At the lowest level there is no value.
LEMMA NoValueLeft ==
  ASSUME NEW st \in Stacks, Len(st) = MaxDepth, NEW r PROVE ~LeftValue(r, st)
<1>1. MaxDepth - Len(st) = 0
  BY MaxDepthAssumption
<1>2. Inner(Len(st)) = {}
  BY <1>1, LevelStep DEF Inner
<1> QED BY <1>2 DEF LeftValue

\* In front of a value.
LEMMA ValueLeft ==
  ASSUME NEW st \in Stacks, Len(st) + 1 <= MaxDepth, NEW t \in Symbol, NEW q \in Text,
         LeftValue(<<t>> \o q, st)
  PROVE  \/ t \in {"str", "num", "word"} /\ LeftAfter(q, st)
         \/ \E k \in Kind : /\ t = Opens(k)
                            /\ \A f \in FrameSet : f.kind = k => LeftFirst(q, Append(st, f))
<1> DEFINE n == Len(st)
           S == Inner(n + 1)
<1>0. /\ n \in Nat /\ MaxDepth - n \in 1 .. MaxDepth /\ MaxDepth - (n + 1) = MaxDepth - n - 1
      /\ MaxDepth - (n + 1) \in 0 .. MaxDepth
  BY StackFacts, MaxDepthAssumption
<1>1. Inner(n) = Grammar!Nest(S) /\ Solid(S)
  BY <1>0, LevelStep, LevelsAreSolid DEF Inner
<1>2. PICK rest \in [Nat -> Text] :
        /\ rest[0] = <<>> /\ Follow(rest, st, n)
        /\ \E v \in Inner(n) : <<t>> \o q = v \o rest[n]
  BY DEF LeftValue
<1>3. PICK v \in Inner(n) : <<t>> \o q = v \o rest[n]
  BY <1>2
<1>4. PICK y \in Text : y = rest[n]
  BY <1>2, FollowFacts
<1>5. CASE \E s \in {"str", "num", "word"} : v = <<s>>
  <2>1. PICK s \in {"str", "num", "word"} : v = <<s>>
    BY <1>5
  <2>2. s \in Symbol
    BY StarterFacts
  <2>3. <<t>> \o q = <<s>> \o y
    BY <1>3, <1>4, <2>1
  <2>4. s \in Symbol /\ t \in Symbol /\ q \in Text /\ y \in Text
    BY <1>4, <2>2
  <2>5. s = t /\ q = y
    BY ZenonT(60), <2>3, <2>4, SameHead
  <2> QED BY <1>2, <1>4, <2>1, <2>5 DEF LeftAfter
<1>6. CASE \E k \in Kind : \E e \in Contents(k, S) :
             e \in Text /\ v = <<Opens(k)>> \o (e \o <<Closes(k)>>)
  <2>1. PICK k \in Kind : \E e \in Contents(k, S) :
             e \in Text /\ v = <<Opens(k)>> \o (e \o <<Closes(k)>>)
    BY <1>6
  <2>2. PICK e \in Contents(k, S) : e \in Text /\ v = <<Opens(k)>> \o (e \o <<Closes(k)>>)
    BY <2>1
  <2>3. PICK p \in Text : p = e \o <<Closes(k)>>
    BY <2>2, BracketFacts, ConcatFacts
  <2>4. <<Opens(k)>> \in Text /\ Opens(k) \in Symbol
    BY BracketFacts, StarterFacts
  <2>5. <<t>> \o q = <<Opens(k)>> \o (p \o y)
    <3>1. (<<Opens(k)>> \o p) \o y = <<Opens(k)>> \o (p \o y)
      <4>1. <<Opens(k)>> \in Text /\ p \in Text /\ y \in Text
        BY <1>4, <2>3, <2>4
      <4> QED BY <4>1, ConcatAssoc
    <3> QED BY <1>3, <1>4, <2>2, <2>3, <3>1
  <2>6. t = Opens(k) /\ q = p \o y
    <3>1. PICK m : m = p \o y
      OBVIOUS
    <3>2. p \in Text /\ y \in Text
      BY <1>4, <2>3
    <3>3. m \in Text
      BY <3>1, <3>2, ConcatFacts
    <3>4. PICK h \in Symbol : h = Opens(k)
      BY <2>4
    <3>5. <<t>> \o q = <<h>> \o m
      BY <2>5, <3>1, <3>4
    <3>6. t \in Symbol /\ h \in Symbol /\ q \in Text /\ m \in Text
      BY <3>3, <3>4
    <3>7. t = h /\ q = m
      <4>1. <<t>> \o q = <<h>> \o m => t = h /\ q = m
        BY <3>6, SameHead, Zenon
      <4> QED BY <3>5, <4>1
    <3> QED BY <3>1, <3>4, <3>7
  <2>7. ASSUME NEW f \in FrameSet, f.kind = k PROVE LeftFirst(q, Append(st, f))
    <3> DEFINE s == Append(st, f)
    <3>1. /\ Len(s) = n + 1 /\ Len(s) - 1 = n /\ s[Len(s)].kind = k
          /\ \A i \in 1 .. n : s[i] = st[i]
      BY <1>0, <2>7, StackFacts, AppendProperties
    <3> HIDE DEF s
    <3>2. Follow(rest, s, Len(s) - 1)
      BY <1>2, <3>1 DEF Follow
    <3>3. e \in Contents(s[Len(s)].kind, Inner(Len(s)))
      BY <2>2, <3>1
    <3>4. q = (e \o <<Closes(s[Len(s)].kind)>>) \o rest[Len(s) - 1]
      BY <1>4, <2>3, <2>6, <3>1
    <3> QED BY <1>2, <3>2, <3>3, <3>4 DEF LeftFirst, s
  <2> QED BY <2>6, <2>7
<1>7. v \in Grammar!Nest(S)
  BY <1>1
<1>8. \/ \E s \in {"str", "num", "word"} : v = <<s>>
      \/ \E k \in Kind : \E e \in Contents(k, S) :
           e \in Text /\ v = <<Opens(k)>> \o (e \o <<Closes(k)>>)
  BY <1>1, <1>7, ValueHead
<1> QED BY <1>5, <1>6, <1>8

\* Behind an opening bracket: the closing one, or a list.
LEMMA FirstLeft ==
  ASSUME NEW st \in Stacks, st # <<>>, NEW r \in Text, LeftFirst(r, st)
  PROVE  \/ \E q \in Text : /\ r = <<Closes(st[Len(st)].kind)>> \o q
                            /\ LeftAfter(q, SubSeq(st, 1, Len(st) - 1))
         \/ LeftItem(r, st)
<1> DEFINE n == Len(st)
           k == st[n].kind
           z == <<Closes(k)>>
           below == SubSeq(st, 1, n - 1)
<1>1. PICK rest \in [Nat -> Text] :
        /\ rest[0] = <<>> /\ Follow(rest, st, n - 1)
        /\ \E e \in Contents(k, Inner(n)) : r = (e \o z) \o rest[n - 1]
  BY DEF LeftFirst
<1>2. PICK e \in Contents(k, Inner(n)) : r = (e \o z) \o rest[n - 1]
  BY <1>1
<1>3. CASE e = <<>>
  <2>1. k \in Kind
    BY StackFacts
  <2>2. z \in Text
    BY <2>1, BracketFacts
  <2>3. <<>> \o z = z
    BY <2>2, ConcatEmptySeq DEF Text
  <2>4. r = z \o rest[n - 1] /\ rest[n - 1] \in Text
    BY <1>1, <1>2, <1>3, <2>3, FollowFacts
  <2>5. Len(below) = n - 1 /\ \A i \in 1 .. n - 1 : below[i] = st[i]
    <3>1. st \in Seq(FrameSet) /\ n \in Nat \ {0}
      BY StackFacts
    <3> QED BY <3>1, StackOps
  <2>6. LeftAfter(rest[n - 1], below)
    <3> HIDE DEF below
    <3>1. Follow(rest, below, Len(below))
      BY <1>1, <2>5 DEF Follow
    <3> QED BY <1>1, <2>5, <3>1 DEF LeftAfter
  <2> QED BY <2>4, <2>6
<1>4. CASE e # <<>>
  <2>1. e \in Grammar!CommaList(Items(k, Inner(n)))
    BY <1>4 DEF Contents
  <2>2. LeftList(r, st)
    BY <1>1, <1>2, <2>1 DEF LeftList
  <2> QED BY <2>2, ListLeft
<1> QED BY <1>3, <1>4

\* In an array an item is a value; in an object it is a key, a colon and a value.
LEMMA ElementLeft ==
  ASSUME NEW st \in Stacks, st # <<>>, st[Len(st)].kind = "array", NEW r, LeftItem(r, st)
  PROVE  LeftValue(r, st)
BY MemberHead DEF LeftItem, LeftValue

LEMMA MemberLeft ==
  ASSUME NEW st \in Stacks, st # <<>>, st[Len(st)].kind = "object", NEW t \in Symbol, NEW q \in Text,
         LeftItem(<<t>> \o q, st)
  PROVE  t = "str" /\ LeftColon(q, st)
<1> DEFINE n == Len(st)
<1>1. PICK rest \in [Nat -> Text] :
        /\ rest[0] = <<>> /\ Follow(rest, st, n)
        /\ \E x \in Items(st[n].kind, Inner(n)) : <<t>> \o q = x \o rest[n]
  BY DEF LeftItem
<1>2. PICK x \in Items(st[n].kind, Inner(n)) : <<t>> \o q = x \o rest[n]
  BY <1>1
<1>3. PICK y \in Text : y = rest[n]
  BY <1>1, FollowFacts
<1>4. PICK v \in Inner(n) : v \in Text /\ x = <<"str">> \o (<<":">> \o v)
  BY <1>2, MemberHead
<1> DEFINE a == <<"str">>
           b == <<":">>
<1>5. a \in Text /\ b \in Text /\ "str" \in Symbol
  BY StarterFacts, OneSymbol
<1>6. PICK p \in Text : p = b \o v
  BY <1>4, <1>5, ConcatFacts
<1>7. (a \o p) \o y = a \o (p \o y)
  <2>1. a \in Text /\ p \in Text /\ y \in Text
    BY <1>3, <1>5, <1>6
  <2> QED BY <2>1, ConcatAssoc
<1>8. p \o y = b \o (v \o y)
  <2>1. (b \o v) \o y = b \o (v \o y)
    BY ZenonT(60), <1>4, <1>5, ConcatAssoc
  <2> QED BY <1>6, <2>1
<1>9. <<t>> \o q = a \o (p \o y)
  BY <1>2, <1>3, <1>4, <1>6, <1>7
<1>10. t = "str" /\ q = p \o y
  <2>1. PICK m : m = p \o y
    OBVIOUS
  <2>2. p \in Text /\ y \in Text
    BY <1>3, <1>6
  <2>3. m \in Text
    BY <2>1, <2>2, ConcatFacts
  <2>4. <<t>> \o q = <<"str">> \o m
    BY <1>9, <2>1
  <2>5. t = "str" /\ q = m
    BY ZenonT(60), <1>5, <2>3, <2>4, SameHead
  <2> QED BY <2>1, <2>5
<1> QED BY <1>1, <1>3, <1>8, <1>10 DEF LeftColon

LEMMA ColonLeft ==
  ASSUME NEW st \in Stacks, NEW r \in Text, LeftColon(r, st)
  PROVE  \E q \in Text : r = <<":">> \o q /\ LeftValue(q, st)
<1> DEFINE n == Len(st)
<1>1. PICK rest \in [Nat -> Text] :
        /\ rest[0] = <<>> /\ Follow(rest, st, n)
        /\ \E v \in Inner(n) : r = <<":">> \o (v \o rest[n])
  BY DEF LeftColon
<1>2. PICK v \in Inner(n) : r = <<":">> \o (v \o rest[n])
  BY <1>1
<1>3. rest[n] \in Text /\ v \in Text
  BY <1>1, FollowFacts, StackFacts DEF Solid
<1>4. v \o rest[n] \in Text
  BY <1>3, ConcatFacts
<1> QED BY <1>1, <1>2, <1>4 DEF LeftValue

\* Behind an element or a member: the closing bracket, or a comma and a list.
LEMMA AfterLeft ==
  ASSUME NEW st \in Stacks, st # <<>>, NEW r \in Text, LeftAfter(r, st)
  PROVE  \/ \E q \in Text : /\ r = <<Closes(st[Len(st)].kind)>> \o q
                            /\ LeftAfter(q, SubSeq(st, 1, Len(st) - 1))
         \/ \E q \in Text : r = <<",">> \o q /\ LeftItem(q, st)
<1> DEFINE n == Len(st)
           k == st[n].kind
           z == <<Closes(k)>>
           below == SubSeq(st, 1, n - 1)
<1>0. n \in 1 .. n /\ n \in Nat \ {0} /\ k \in Kind /\ Solid(Inner(n)) /\ st \in Seq(FrameSet)
  BY StackFacts
<1>1. PICK rest \in [Nat -> Text] :
        rest[0] = <<>> /\ Follow(rest, st, n) /\ r = rest[n]
  BY DEF LeftAfter
<1>2. PICK c \in Text : After(k, Inner(n), c) /\ rest[n] = c \o rest[n - 1]
  BY <1>0, <1>1 DEF Follow
<1>3. rest[n - 1] \in Text /\ Follow(rest, st, n - 1)
  BY <1>1, FollowFacts
<1>4. CASE c = z
  <2>1. Len(below) = n - 1 /\ \A i \in 1 .. n - 1 : below[i] = st[i]
    BY <1>0, StackOps
  <2>2. LeftAfter(rest[n - 1], below)
    <3> HIDE DEF below
    <3>1. Follow(rest, below, Len(below))
      BY <1>3, <2>1 DEF Follow
    <3> QED BY <1>1, <2>1, <3>1 DEF LeftAfter
  <2> QED BY <1>1, <1>2, <1>3, <1>4, <2>2
<1>5. CASE \E e \in Grammar!CommaList(Items(k, Inner(n))) : c = <<",">> \o (e \o z)
  <2>1. PICK e \in Grammar!CommaList(Items(k, Inner(n))) : c = <<",">> \o (e \o z)
    BY <1>5
  <2>2. e \in Text /\ z \in Text /\ <<",">> \in Text
    BY <1>0, ItemsParts, ListParts, BracketFacts
  <2>3. PICK p \in Text : p = e \o z
    BY <2>2, ConcatFacts
  <2>4. PICK y \in Text : y = rest[n - 1]
    BY <1>3
  <2>5. (<<",">> \o p) \o y = <<",">> \o (p \o y) /\ p \o y \in Text
    <3>1. <<",">> \in Text /\ p \in Text /\ y \in Text
      BY <2>2, <2>3, <2>4
    <3>2. p \o y \in Text
      BY <3>1, ConcatFacts
    <3>3. (<<",">> \o p) \o y = <<",">> \o (p \o y)
      BY <3>1, ConcatAssoc
    <3> QED BY <3>2, <3>3
  <2>6. r = <<",">> \o (p \o y)
    BY <1>1, <1>2, <2>1, <2>3, <2>4, <2>5
  <2>7. LeftList(p \o y, st)
    BY <1>1, <1>3, <2>3, <2>4 DEF LeftList
  <2> QED BY <2>5, <2>6, <2>7, ListLeft
<1> QED BY <1>2, <1>4, <1>5 DEF After

LEMMA SameKindsLeft ==
  ASSUME NEW r \in Stacks, NEW s \in Stacks, s # <<>>, Len(r) = Len(s),
         \A i \in 1 .. Len(s) : r[i].kind = s[i].kind
  PROVE  \A q : /\ LeftAfter(q, s) => LeftAfter(q, r)
                /\ LeftColon(q, s) => LeftColon(q, r)
<1>1. \A rest : Follow(rest, s, Len(s)) => Follow(rest, r, Len(r))
  BY DEF Follow
<1> QED BY <1>1 DEF LeftAfter, LeftColon

-----------------------------------------------------------------------------
(* With enough memory the parser can go on as long as some text can.       *)

\* What has been read, and looked at, may be followed by r.
Viable(rd, a, r) ==
  /\ r \in Text /\ rd \o r \in Grammar!Texts
  /\ a = EOF => r = <<>>
  /\ a \notin {EOF, Unread} => \E q \in Text : r = <<a>> \o q

\* The parser is where r can be read, and has not failed.
Left(ph, rt, r, st) ==
  /\ ph = "value" => LeftValue(r, st)
  /\ ph = "first" => LeftFirst(r, st)
  /\ ph = "key" => LeftItem(r, st)
  /\ ph = "colon" => LeftColon(r, st)
  /\ ph \in {"more", "returned"} => LeftAfter(r, st)
  /\ ph \in {"returned", "done"} => rt # 0

Complete == ~scarce => \A r : Viable(read, ahead, r) => Left(phase, ret, r, stack)

\* Token t was consumed: before that, it was what could follow.
LEMMA ViableConsumed ==
  ASSUME Reading, Bounded, NEW t \in PeekAfterSpaces, t # EOF, Consume(t),
         NEW q, Viable(read', ahead', q)
  PROVE  t \in Symbol /\ q \in Text /\ <<t>> \o q \in Text /\ Viable(read, ahead, <<t>> \o q)
<1>1. t \in Symbol /\ read \in Text /\ read' = read \o <<t>> /\ ahead \in {Unread, t}
  BY Consumed, PeekFacts
<1>2. q \in Text /\ read' \o q \in Grammar!Texts
  BY DEF Viable
<1>3. PICK s \in Text : s = <<t>>
  BY <1>1, OneSymbol
<1>4. (read \o s) \o q = read \o (s \o q) /\ s \o q \in Text
  <2>1. read \in Text /\ s \in Text /\ q \in Text
    BY <1>1, <1>2, <1>3
  <2>2. (read \o s) \o q = read \o (s \o q)
    BY <2>1, ConcatAssoc
  <2>3. s \o q \in Text
    BY <2>1, ConcatFacts
  <2> QED BY <2>2, <2>3
<1>5. PICK r : r = <<t>> \o q
  OBVIOUS
<1>6. read \o r \in Grammar!Texts /\ r \in Text
  BY <1>1, <1>2, <1>3, <1>4, <1>5
<1>7. ahead # EOF /\ (ahead # Unread => ahead = t)
  BY <1>1 DEF EOF, Unread
<1>8. Viable(read, ahead, r)
  BY <1>2, <1>5, <1>6, <1>7 DEF Viable
<1> QED BY <1>1, <1>2, <1>5, <1>6, <1>8

\* Token t was only looked at.
LEMMA ViableKept ==
  ASSUME Reading, Bounded, NEW t \in PeekAfterSpaces, Keep(t), NEW r, Viable(read', ahead', r)
  PROVE  /\ r \in Text /\ Viable(read, ahead, r)
         /\ r = <<>> \/ \E q \in Text : t \in Symbol /\ r = <<t>> \o q
<1>1. read' = read /\ ahead' = t /\ ahead \in {Unread, t} /\ t \in Token \cup {EOF}
  BY Kept, PeekFacts
<1>2. t # Unread /\ (t # EOF => t \in Symbol)
  BY <1>1, TokensAreSymbols DEF EOF, Unread
<1>3. Viable(read, t, r)
  BY <1>1
<1>4. /\ r \in Text /\ read \o r \in Grammar!Texts
      /\ t = EOF => r = <<>>
      /\ t # EOF => \E q \in Text : r = <<t>> \o q
  BY <1>2, <1>3 DEF Viable
<1>5. Viable(read, ahead, r)
  <2>1. CASE ahead = Unread
    BY <1>4, <2>1 DEF Viable, EOF, Unread
  <2>2. CASE ahead = t
    BY <1>3, <2>2
  <2> QED BY <1>1, <2>1, <2>2
<1> QED BY <1>2, <1>4, <1>5

\* What is left begins with one of the symbols H: so does the input.
LEMMA KeptHead ==
  ASSUME NEW H, H \subseteq Symbol, NEW r, NEW t,
         r = <<>> \/ \E q \in Text : t \in Symbol /\ r = <<t>> \o q,
         \E h \in H, q \in Text : r = <<h>> \o q
  PROVE  t \in H /\ \E q \in Text : r = <<t>> \o q
<1>1. PICK h \in H, p \in Text : r = <<h>> \o p
  OBVIOUS
<1>2. h \in Symbol /\ p \in Text
  BY <1>1
<1>3. r # <<>>
  <2>1. <<h>> \o p # <<>>
    BY <1>2, FirstSymbol
  <2> QED BY <1>1, <2>1
<1>4. PICK q \in Text : t \in Symbol /\ r = <<t>> \o q
  BY <1>3
<1>5. <<t>> \o q = <<h>> \o p
  BY <1>1, <1>4
<1>6. t = h
  <2>1. t \in Symbol /\ q \in Text /\ h \in Symbol /\ p \in Text
    BY <1>2, <1>4
  <2>2. <<t>> \o q = <<h>> \o p => t = h /\ q = p
    BY ZenonT(60), <2>1, SameHead
  <2> QED BY <1>5, <2>2
<1> QED BY <1>1, <1>4, <1>6

\* What the parser has in front of it, by what follows in a text.
LEMMA LeftOfPhase ==
  ASSUME IInv, Complete, ~scarce, NEW r, Viable(read, ahead, r)
  PROVE  /\ r \in Text /\ stack \in Stacks
         /\ phase = "value" => LeftValue(r, stack)
         /\ phase = "first" => stack # <<>> /\ LeftFirst(r, stack)
         /\ phase = "key" => stack # <<>> /\ LeftItem(r, stack)
         /\ phase = "colon" => stack # <<>> /\ LeftColon(r, stack)
         /\ phase = "more" => stack # <<>> /\ LeftAfter(r, stack)
         /\ phase = "returned" => ret # 0 /\ LeftAfter(r, stack)
         /\ phase = "done" => ret # 0
BY StackIsAllowed DEF Complete, Left, Viable

\* Failures of memory, and failures that were answered already.
LEMMA StuckComplete ==
  ASSUME IInv, Complete, NoValue \/ NoKey \/ NoRoom \/ ValueFailed \/ TooDeep
  PROVE  Complete'
<1> SUFFICES ASSUME ~scarce', NEW r, Viable(read', ahead', r) PROVE FALSE
  BY DEF Complete
<1>1. scarce' = scarce /\ read' = read /\ ahead' = ahead
  BY DEF NoValue, NoKey, NoRoom, ValueFailed, TooDeep, call, input
<1>2. ~scarce /\ Viable(read, ahead, r)
  BY <1>1
<1>3. CASE NoValue \/ NoKey \/ NoRoom
  BY <1>2, <1>3 DEF NoValue, NoKey, NoRoom, OutOfMemory
<1>4. CASE ValueFailed
  BY <1>2, <1>4, LeftOfPhase DEF ValueFailed, InnerReturn
<1>5. CASE TooDeep
  <2>1. phase = "value" /\ depth + 1 > MaxDepth
    BY <1>5 DEF TooDeep
  <2>2. stack \in Stacks /\ depth = Len(stack)
    BY <2>1, StackIsAllowed
  <2>3. Len(stack) = MaxDepth
    BY <2>1, <2>2, StackFacts, MaxDepthAssumption
  <2> QED BY <1>2, <2>1, <2>2, <2>3, LeftOfPhase, NoValueLeft
<1> QED BY <1>3, <1>4, <1>5

\* Keys are read in objects only.
LEMMA KeyOfObject ==
  ASSUME IInv, Sound, phase = "key" PROVE stack[Len(stack)].kind = "object"
<1>1. Inside("key", read, stack)
  BY DEF Sound
<1> QED BY <1>1 DEF Inside, Within

\* With enough memory a string is read.
LEMMA PlentyScan ==
  ASSUME ~scarce, NEW s \in Scan("str") PROVE s.ok
BY DEF Scan

\* What does not begin as it has to begins no text.
LEMMA MismatchComplete ==
  ASSUME IInv, Reading, Bounded, Sound, Complete,
         NotAValue \/ NumberTooLong \/ NotAKey \/ NoColon \/ NoComma \/ Trailing
  PROVE  Complete'
<1> SUFFICES ASSUME ~scarce', NEW r, Viable(read', ahead', r) PROVE FALSE
  BY DEF Complete
<1> DEFINE k == stack[Len(stack)].kind
<1>1. PICK t \in PeekAfterSpaces :
        /\ Keep(t)
        /\ NotAValue \/ NumberTooLong => t \notin {"[", "{", "str", "badstr", "num", "word"}
        /\ NotAKey => t \notin {"str", "badstr"}
        /\ NoColon => t # ":"
        /\ NoComma => t \notin {",", Closing}
  BY DEF NotAValue, NumberTooLong, NotAKey, NoColon, NoComma, Trailing
<1>2. ~scarce
  BY DEF NotAValue, NumberTooLong, NotAKey, NoColon, NoComma, Trailing, call
<1>3. /\ r \in Text /\ Viable(read, ahead, r)
      /\ r = <<>> \/ \E q \in Text : t \in Symbol /\ r = <<t>> \o q
  BY <1>1, ViableKept
<1>4. /\ stack \in Stacks
      /\ phase = "value" => LeftValue(r, stack)
      /\ phase = "key" => stack # <<>> /\ LeftItem(r, stack)
      /\ phase = "colon" => stack # <<>> /\ LeftColon(r, stack)
      /\ phase = "more" => stack # <<>> /\ LeftAfter(r, stack)
      /\ phase = "returned" => LeftAfter(r, stack)
  BY <1>2, <1>3, LeftOfPhase
<1>5. CASE NotAValue \/ NumberTooLong
  <2>1. \E h \in Starter, q \in Text : r = <<h>> \o q
    BY <1>3, <1>4, <1>5, LeftStarts DEF NotAValue, NumberTooLong
  <2>2. t \in Starter
    BY <1>3, <2>1, KeptHead, StarterFacts
  <2> QED BY <1>1, <1>5, <2>2 DEF Starter
<1>6. CASE NotAKey
  <2>1. phase = "key" /\ stack # <<>> /\ LeftItem(r, stack) /\ k = "object"
    BY <1>4, <1>6, KeyOfObject DEF NotAKey
  <2>2. \E h \in Starter, q \in Text : r = <<h>> \o q
    BY <1>3, <1>4, <2>1, LeftStarts
  <2>3. t \in Starter /\ \E q \in Text : r = <<t>> \o q
    BY <1>3, <2>2, KeptHead, StarterFacts
  <2>4. PICK q \in Text : r = <<t>> \o q
    BY <2>3
  <2>5. t = "str"
    BY <1>4, <2>1, <2>3, <2>4, MemberLeft, StarterFacts
  <2> QED BY <1>1, <1>6, <2>5
<1>7. CASE NoColon
  <2>1. \E q \in Text : r = <<":">> \o q
    BY <1>3, <1>4, <1>7, ColonLeft DEF NoColon
  <2>2. {":"} \subseteq Symbol /\ \E h \in {":"}, q \in Text : r = <<h>> \o q
    BY <2>1, StarterFacts
  <2>3. t \in {":"}
    BY <1>3, <2>2, KeptHead
  <2> QED BY <1>1, <1>7, <2>3
<1>8. CASE NoComma
  <2>1. stack # <<>> /\ LeftAfter(r, stack) /\ Closing = Closes(k)
    BY <1>4, <1>8 DEF NoComma, Closing, Closes, Top
  <2>2. \/ \E q \in Text : r = <<Closing>> \o q
        \/ \E q \in Text : r = <<",">> \o q
    BY <1>3, <1>4, <2>1, AfterLeft
  <2>3. k \in Kind
    BY <1>4, <2>1, StackFacts
  <2> DEFINE H == {",", Closing}
  <2>4. H \subseteq Symbol /\ \E h \in H, q \in Text : r = <<h>> \o q
    BY <2>1, <2>2, <2>3, StarterFacts
  <2>5. t \in H
    <3> HIDE DEF H
    <3> QED BY <1>3, <2>4, KeptHead
  <2> QED BY <1>1, <1>8, <2>5
<1>9. CASE Trailing
  <2>1. PICK x \in PeekAfterSpaces : ~IsEof(x) /\ Keep(x)
    BY <1>9 DEF Trailing
  <2>2. stack = <<>> /\ LeftAfter(r, <<>>) /\ Len(<<>>) = 0
    BY <1>4, <1>9 DEF Trailing, OuterReturn
  <2>3. r = <<>>
    BY <2>2 DEF LeftAfter
  <2>4. ahead' = x /\ x # EOF /\ x \in Token
    BY <2>1, PeekFacts DEF Keep, IsEof
  <2>5. x # Unread /\ x \in Symbol
    BY <2>4, TokensAreSymbols
  <2>6. PICK q \in Text : r = <<x>> \o q
    BY <2>4, <2>5 DEF Viable
  <2> QED BY <2>3, <2>5, <2>6, FirstSymbol
<1> QED BY <1>5, <1>6, <1>7, <1>8, <1>9

\* A value of one token, or the beginning of a container.
LEMMA ValueComplete ==
  ASSUME IInv, Reading, Bounded, Complete, Word \/ Number \/ StringValue \/ Open
  PROVE  Complete'
<1> SUFFICES ASSUME ~scarce', NEW q, Viable(read', ahead', q) PROVE Left(phase', ret', q, stack')
  BY DEF Complete
<1> DEFINE f(t) == [kind |-> IF t = "[" THEN "array" ELSE "object", own |-> 1, key |-> 0]
           Simple(t) == t \in {"num", "word"} /\ ret' = 1
           String(t) == /\ t \in {"str", "badstr"}
                        /\ \E s \in Scan(t) : ret' = IF s.ok THEN 1 + s.data ELSE 0
           Opening(t) == t \in {"[", "{"} /\ stack' = Append(stack, f(t)) /\ phase' = "first"
<1>1. PICK t \in PeekAfterSpaces :
        /\ Consume(t)
        /\ \/ (Simple(t) \/ String(t)) /\ phase' = "returned" /\ stack' = stack
           \/ Opening(t)
  <2>1. CASE Word \/ Number
    BY <2>1 DEF Word, Number, Scalar
  <2>2. CASE StringValue
    BY <2>2 DEF StringValue
  <2>3. CASE Open
    BY <2>3 DEF Open
  <2> QED BY <2>1, <2>2, <2>3
<1>2. ~scarce /\ phase = "value" /\ depth + 1 <= MaxDepth
  <2>1. scarce' = scarce /\ phase = "value" /\ depth + 1 <= MaxDepth
    BY DEF Word, Number, Scalar, StringValue, Open, call
  <2> QED BY <2>1
<1>3. t # EOF
  BY <1>1 DEF EOF
<1>4. t \in Symbol /\ q \in Text /\ <<t>> \o q \in Text /\ Viable(read, ahead, <<t>> \o q)
  BY <1>1, <1>3, ViableConsumed
<1>5. stack \in Stacks /\ LeftValue(<<t>> \o q, stack)
  BY <1>2, <1>4, LeftOfPhase
<1>6. Len(stack) + 1 <= MaxDepth
  BY <1>2, RoomForValue
<1>7. \/ t \in {"str", "num", "word"} /\ LeftAfter(q, stack)
      \/ \E k \in Kind : /\ t = Opens(k)
                         /\ \A g \in FrameSet : g.kind = k => LeftFirst(q, Append(stack, g))
  BY <1>4, <1>5, <1>6, ValueLeft
<1>8. CASE (Simple(t) \/ String(t)) /\ phase' = "returned" /\ stack' = stack
  <2>1. t \in {"str", "num", "word", "badstr"}
    BY <1>8
  <2>2. t \in {"str", "num", "word"} /\ LeftAfter(q, stack)
    BY <1>7, <2>1 DEF Opens
  <2>3. ret' # 0
    <3>1. CASE Simple(t)
      BY <3>1
    <3>2. CASE String(t)
      <4>1. PICK s \in Scan(t) : ret' = IF s.ok THEN 1 + s.data ELSE 0
        BY <3>2
      <4>2. t = "str"
        BY <2>2, <3>2
      <4>3. s.ok /\ s.data \in {0, 1}
        BY <1>2, <4>2, PlentyScan, ScanOutcome DEF IInv, Shape
      <4> QED BY <4>1, <4>3
    <3> QED BY <1>8, <3>1, <3>2
  <2> QED BY <1>8, <2>2, <2>3 DEF Left
<1>9. CASE Opening(t)
  <2>1. t \in {"[", "{"} /\ phase' = "first"
    BY <1>9
  <2>2. PICK k \in Kind : t = Opens(k) /\ \A g \in FrameSet : g.kind = k => LeftFirst(q, Append(stack, g))
    BY <1>7, <2>1
  <2>3. PICK g : g = f(t)
    OBVIOUS
  <2>4. g \in FrameSet /\ stack' = Append(stack, g)
    BY <1>9, <2>3, NewFrame
  <2>5. g.kind = k
    <3>1. g.kind = IF t = "[" THEN "array" ELSE "object"
      BY <2>3
    <3>2. CASE k = "array"
      BY <2>2, <3>1, <3>2 DEF Opens
    <3>3. CASE k = "object"
      BY <2>2, <3>1, <3>3 DEF Opens
    <3> QED BY <2>2, <3>2, <3>3 DEF Kind
  <2>6. LeftFirst(q, stack')
    BY <2>2, <2>4, <2>5
  <2> QED BY <2>1, <2>6 DEF Left
<1> QED BY <1>1, <1>8, <1>9

\* The end of a container.
LEMMA CloseComplete ==
  ASSUME IInv, Reading, Bounded, Complete, CloseEmpty \/ CloseAfter
  PROVE  Complete'
<1> SUFFICES ASSUME ~scarce', NEW q, Viable(read', ahead', q) PROVE Left(phase', ret', q, stack')
  BY DEF Complete
<1> DEFINE k == stack[Len(stack)].kind
           t == Closing
           w == <<t>> \o q
<1>1. /\ phase \in {"first", "more"} /\ phase' = "returned" /\ stack' = Below /\ ret' = Top.own
      /\ t \in PeekAfterSpaces /\ Consume(t) /\ ~scarce
  BY DEF CloseEmpty, CloseAfter, Close, Return, call
<1>2. t = Closes(k) /\ t # EOF
  BY DEF Closing, Closes, Top, EOF
<1>3. t \in Symbol /\ q \in Text /\ w \in Text /\ Viable(read, ahead, w)
  BY <1>1, <1>2, ViableConsumed
<1> HIDE DEF w
<1>4. /\ stack \in Stacks /\ stack # <<>>
      /\ phase = "first" => LeftFirst(w, stack)
      /\ phase = "more" => LeftAfter(w, stack)
  BY <1>1, <1>3, LeftOfPhase
<1>5. k \in Kind /\ Top.own # 0
  <2>1. Top \in FrameSet
    BY <1>4, TopAndBelow
  <2>2. Top.own # 0
    BY <2>1 DEF FrameSet
  <2> QED BY <1>4, <2>2, StackFacts
<1>6. ASSUME NEW p \in Text, w = <<Closes(k)>> \o p, LeftAfter(p, Below)
      PROVE  LeftAfter(q, Below)
  <2>1. <<t>> \o q = <<t>> \o p
    BY <1>2, <1>6 DEF w
  <2>2. t \in Symbol /\ q \in Text /\ p \in Text
    BY <1>3
  <2>3. q = p
    <3>1. <<t>> \o q = <<t>> \o p => t = t /\ q = p
      BY <2>2, SameHead, Zenon
    <3> QED BY <2>1, <3>1
  <2> QED BY <1>6, <2>3
<1>7. ASSUME NEW h \in Symbol, NEW p \in Text, w = <<h>> \o p PROVE t = h
  <2>1. <<t>> \o q = <<h>> \o p
    BY <1>7 DEF w
  <2>2. t \in Symbol /\ q \in Text /\ p \in Text /\ h \in Symbol
    BY <1>3, <1>7
  <2>3. <<t>> \o q = <<h>> \o p => t = h /\ q = p
    BY <2>2, SameHead, Zenon
  <2> QED BY <2>1, <2>3
<1>8. CASE phase = "first"
  <2>1. \/ \E p \in Text : w = <<Closes(k)>> \o p /\ LeftAfter(p, Below)
        \/ LeftItem(w, stack)
    BY <1>3, <1>4, <1>8, FirstLeft DEF Below
  <2>2. ~LeftItem(w, stack)
    <3> SUFFICES ASSUME LeftItem(w, stack) PROVE FALSE
      OBVIOUS
    <3>1. PICK h \in Starter, p \in Text : w = <<h>> \o p
      BY <1>3, <1>4, LeftStarts
    <3>2. t = h
      BY <1>7, <3>1, StarterFacts
    <3> QED BY <1>2, <1>5, <3>1, <3>2, StarterFacts
  <2>3. LeftAfter(q, Below)
    BY <1>6, <2>1, <2>2
  <2> QED BY <1>1, <1>5, <2>3 DEF Left
<1>9. CASE phase = "more"
  <2>1. \/ \E p \in Text : w = <<Closes(k)>> \o p /\ LeftAfter(p, Below)
        \/ \E p \in Text : w = <<",">> \o p
    BY <1>3, <1>4, <1>9, AfterLeft DEF Below
  <2>2. ASSUME NEW p \in Text, w = <<",">> \o p PROVE FALSE
    <3>1. t = ","
      BY <1>7, <2>2, StarterFacts
    <3> QED BY <1>2, <1>5, <3>1, StarterFacts
  <2>3. LeftAfter(q, Below)
    BY <1>6, <2>1, <2>2
  <2> QED BY <1>1, <1>5, <2>3 DEF Left
<1> QED BY <1>1, <1>8, <1>9

\* From the bracket to the loop, and through the loop.
LEMMA EnterComplete ==
  ASSUME IInv, Reading, Bounded, Complete, EnterLoop
  PROVE  Complete'
<1> SUFFICES ASSUME ~scarce', NEW r, Viable(read', ahead', r) PROVE Left(phase', ret', r, stack')
  BY DEF Complete
<1> DEFINE k == stack[Len(stack)].kind
<1>1. PICK t \in PeekAfterSpaces : t # Closing /\ Keep(t)
  BY DEF EnterLoop
<1>2. /\ scarce' = scarce /\ phase = "first" /\ stack' = stack
      /\ phase' = IF k = "array" THEN "value" ELSE "key"
  BY DEF EnterLoop, call, Top
<1>3. /\ r \in Text /\ Viable(read, ahead, r)
      /\ r = <<>> \/ \E q \in Text : t \in Symbol /\ r = <<t>> \o q
  BY <1>1, ViableKept
<1>4. stack \in Stacks /\ stack # <<>> /\ LeftFirst(r, stack)
  BY <1>2, <1>3, LeftOfPhase
<1>5. k \in Kind /\ Closing = Closes(k)
  <2>1. Closing = Closes(k)
    BY DEF Closing, Closes, Top
  <2> QED BY <1>4, <2>1, StackFacts
<1>6. LeftItem(r, stack)
  <2> SUFFICES ASSUME \E q \in Text : r = <<Closing>> \o q PROVE FALSE
    BY <1>3, <1>4, <1>5, FirstLeft
  <2> DEFINE H == {Closing}
  <2>1. H \subseteq Symbol /\ \E h \in H, q \in Text : r = <<h>> \o q
    BY <1>5, StarterFacts
  <2>2. t \in H
    <3> HIDE DEF H
    <3> QED BY <1>3, <2>1, KeptHead
  <2> QED BY <1>1, <2>2
<1>7. k = "array" => LeftValue(r, stack)
  BY <1>4, <1>6, ElementLeft
<1> QED BY <1>2, <1>6, <1>7 DEF Left

LEMMA LoopComplete ==
  ASSUME IInv, Reading, Bounded, Complete, Colon \/ Comma
  PROVE  Complete'
<1> SUFFICES ASSUME ~scarce', NEW q, Viable(read', ahead', q) PROVE Left(phase', ret', q, stack')
  BY DEF Complete
<1> DEFINE k == stack[Len(stack)].kind
<1>1. PICK t \in PeekAfterSpaces :
        /\ Consume(t)
        /\ \/ t = ":" /\ phase = "colon" /\ phase' = "value"
           \/ t = "," /\ phase = "more" /\ phase' = IF k = "array" THEN "value" ELSE "key"
  BY DEF Colon, Comma, Top
<1>2. scarce' = scarce /\ stack' = stack
  BY DEF Colon, Comma, call
<1>3. t # EOF
  BY <1>1 DEF EOF
<1>4. t \in Symbol /\ q \in Text /\ <<t>> \o q \in Text /\ Viable(read, ahead, <<t>> \o q)
  BY <1>1, <1>3, ViableConsumed
<1> DEFINE w == <<t>> \o q
<1>5. w \in Text /\ Viable(read, ahead, w)
  BY <1>4
<1>6. ASSUME NEW h \in Symbol, NEW p \in Text, w = <<h>> \o p PROVE t = h /\ q = p
  <2>1. t \in Symbol /\ q \in Text /\ p \in Text /\ h \in Symbol
    BY <1>4, <1>6
  <2>2. <<t>> \o q = <<h>> \o p => t = h /\ q = p
    BY <2>1, SameHead, Zenon
  <2> QED BY <1>6, <2>2
<1> HIDE DEF w
<1>7. /\ stack \in Stacks /\ stack # <<>>
      /\ phase = "colon" => LeftColon(w, stack)
      /\ phase = "more" => LeftAfter(w, stack)
  BY <1>1, <1>2, <1>5, LeftOfPhase
<1>8. CASE t = ":" /\ phase = "colon" /\ phase' = "value"
  <2>1. PICK p \in Text : w = <<":">> \o p /\ LeftValue(p, stack)
    BY <1>5, <1>7, <1>8, ColonLeft
  <2>2. q = p
    BY <1>6, <2>1, StarterFacts
  <2> QED BY <1>2, <1>8, <2>1, <2>2 DEF Left
<1>9. CASE t = "," /\ phase = "more" /\ phase' = IF k = "array" THEN "value" ELSE "key"
  <2>1. \/ \E p \in Text : w = <<Closes(k)>> \o p
        \/ \E p \in Text : w = <<",">> \o p /\ LeftItem(p, stack)
    BY <1>5, <1>7, <1>9, AfterLeft
  <2>2. k \in Kind
    BY <1>7, StackFacts
  <2>3. ASSUME NEW p \in Text, w = <<Closes(k)>> \o p PROVE FALSE
    <3>1. t = Closes(k)
      BY <1>6, <2>2, <2>3, StarterFacts
    <3> QED BY <1>9, <2>2, <3>1, StarterFacts
  <2>4. PICK p \in Text : w = <<",">> \o p /\ LeftItem(p, stack)
    BY <2>1, <2>3
  <2>5. q = p
    BY <1>6, <2>4, StarterFacts
  <2>6. LeftItem(q, stack)
    BY <2>4, <2>5
  <2>7. k = "array" => LeftValue(q, stack)
    BY <1>7, <2>6, ElementLeft
  <2> QED BY <1>2, <1>9, <2>6, <2>7 DEF Left
<1> QED BY <1>1, <1>8, <1>9

LEMMA KeyComplete ==
  ASSUME IInv, Reading, Bounded, Sound, Complete, Key \/ BrokenKey
  PROVE  Complete'
<1> SUFFICES ASSUME ~scarce', NEW q, Viable(read', ahead', q) PROVE Left(phase', ret', q, stack')
  BY DEF Complete
<1>1. PICK t \in PeekAfterSpaces \cap {"str", "badstr"} :
        /\ Consume(t)
        /\ \/ t = "str" /\ Key
           \/ BrokenKey /\ \E s \in Scan(t) : ~s.ok
  BY DEF Key, BrokenKey
<1>2. ~scarce /\ phase = "key"
  <2>1. scarce' = scarce /\ phase = "key"
    BY DEF Key, BrokenKey, call
  <2> QED BY <2>1
<1>3. t # EOF
  BY <1>1 DEF EOF
<1>4. t \in Symbol /\ q \in Text /\ <<t>> \o q \in Text /\ Viable(read, ahead, <<t>> \o q)
  BY <1>1, <1>3, ViableConsumed
<1>5. stack \in Stacks /\ stack # <<>> /\ LeftItem(<<t>> \o q, stack)
  BY <1>2, <1>4, LeftOfPhase
<1>6. t = "str" /\ LeftColon(q, stack)
  BY <1>2, <1>4, <1>5, KeyOfObject, MemberLeft
<1>7. Key
  BY <1>1, <1>2, <1>6, PlentyScan
<1>8. PICK s \in Scan("str") : SetTop([Top EXCEPT !.key = 1 + s.data])
  BY <1>7 DEF Key
<1>9. s.data \in {0, 1}
  BY ScanOutcome DEF IInv, Shape
<1>10. PICK f : f = [Top EXCEPT !.key = 1 + s.data]
  OBVIOUS
<1>11. f \in FrameSet /\ f.kind = Top.kind
  <2>1. Top \in FrameSet
    BY <1>5, TopAndBelow
  <2> QED BY <1>9, <1>10, <2>1 DEF FrameSet
<1>12. SetTop(f)
  BY <1>8, <1>10
<1>13. /\ stack' \in Stacks /\ stack' # <<>> /\ Len(stack') = Len(stack)
       /\ \A i \in 1 .. Len(stack) : stack'[i].kind = stack[i].kind
  BY <1>5, <1>11, <1>12, TopReplaced
<1>14. LeftColon(q, stack')
  BY <1>5, <1>6, <1>13, SameKindsLeft
<1>15. phase' = "colon"
  BY <1>7 DEF Key
<1> QED BY <1>14, <1>15 DEF Left

LEMMA AddComplete ==
  ASSUME IInv, Complete, AddValue
  PROVE  Complete'
<1> SUFFICES ASSUME ~scarce', NEW r, Viable(read', ahead', r) PROVE Left(phase', ret', r, stack')
  BY DEF Complete
<1>1. PICK b \in {0, 1} : Added(b)
  BY DEF AddValue
<1>2. /\ scarce' = scarce /\ read' = read /\ ahead' = ahead /\ phase = "returned" /\ phase' = "more"
      /\ stack # <<>>
  BY <1>1 DEF AddValue, Added, InnerReturn, call, input
<1>3. stack \in Stacks /\ LeftAfter(r, stack)
  <2>1. ~scarce /\ Viable(read, ahead, r)
    BY <1>2
  <2> QED BY <1>2, <2>1, LeftOfPhase
<1>4. /\ stack' \in Stacks /\ stack' # <<>> /\ Len(stack') = Len(stack)
      /\ \A i \in 1 .. Len(stack) : stack'[i].kind = stack[i].kind
  BY <1>2, AddedKinds
<1>5. LeftAfter(r, stack')
  BY <1>2, <1>3, <1>4, SameKindsLeft
<1> QED BY <1>2, <1>5 DEF Left

LEMMA FinishComplete ==
  ASSUME IInv, Reading, Bounded, Complete, Finish
  PROVE  Complete'
<1> SUFFICES ASSUME ~scarce', NEW r, Viable(read', ahead', r) PROVE Left(phase', ret', r, stack')
  BY DEF Complete
<1>1. PICK t \in PeekAfterSpaces : Keep(t)
  BY DEF Finish
<1>2. scarce' = scarce /\ phase = "returned" /\ phase' = "done" /\ ret' = ret
  BY DEF Finish, OuterReturn, call
<1>3. Viable(read, ahead, r)
  BY <1>1, ViableKept
<1>4. ret # 0
  BY <1>2, <1>3, LeftOfPhase
<1> QED BY <1>2, <1>4 DEF Left

LEMMA BeginComplete == ASSUME IInv, NEW a \in BOOLEAN, Begin(a) PROVE Complete'
<1> SUFFICES ASSUME NEW r, Viable(read', ahead', r) PROVE Left(phase', ret', r, stack')
  BY DEF Complete
<1>1. phase' = "value" /\ stack' = stack /\ read' = <<>> /\ phase \in {"idle", "done"}
  BY DEF Begin
<1>2. stack' = <<>> /\ Len(<<>>) = 0
  BY <1>1, StackIsAllowed
<1> DEFINE rest == [i \in Nat |-> <<>>]
<1>3. rest \in [Nat -> Text] /\ rest[0] = <<>>
  BY EmptySeq DEF Text
<1> HIDE DEF rest
<1>4. Follow(rest, <<>>, Len(<<>>))
  BY <1>2 DEF Follow
<1>5. r \in Inner(0)
  <2>1. r \in Text /\ <<>> \o r \in Grammar!Texts
    BY <1>1 DEF Viable
  <2>2. r \in Grammar!Texts
    BY <2>1, ConcatEmptySeq DEF Text
  <2>3. Inner(0) = Level(MaxDepth)
    BY MaxDepthAssumption DEF Inner
  <2> QED BY <2>2, <2>3 DEF Level, Grammar!Texts
<1>6. r = r \o <<>>
  BY ConcatEmptySeq DEF Text, Viable
<1>7. LeftValue(r, <<>>)
  BY <1>2, <1>3, <1>4, <1>5, <1>6 DEF LeftValue
<1> QED BY <1>1, <1>2, <1>7 DEF Left

LEMMA NextComplete ==
  ASSUME IInv, Reading, Bounded, Sound, Complete, Next PROVE Complete'
<1>1. CASE \E a \in BOOLEAN : Begin(a)
  BY <1>1, BeginComplete
<1>2. CASE Step
  BY <1>2, StuckComplete, MismatchComplete, ValueComplete, CloseComplete, EnterComplete,
     LoopComplete, KeyComplete, AddComplete, FinishComplete DEF Step
<1> QED BY <1>1, <1>2 DEF Next

LEMMA SpecComplete == Spec => []Complete
<1>1. Init => Complete
  BY DEF Init, Complete, Left
<1>2. IInv /\ Reading /\ Bounded /\ Sound /\ Complete /\ Next => Complete'
  BY NextComplete
<1>3. Complete /\ UNCHANGED vars => Complete'
  BY DEF Complete, vars, input, call
<1> QED BY <1>1, <1>2, <1>3, SpecIInv, SpecReading, SpecSound, PTL DEF Spec

\* A text that begins with s is s and a rest.
LEMMA PrefixRest ==
  ASSUME NEW s \in Text, s \in Grammar!ViablePrefixes
  PROVE  \E r \in Text : s \o r \in Grammar!Texts
<1>1. PICK x \in Grammar!Texts : \E n \in 0 .. Len(x) : s = SubSeq(x, 1, n)
  BY DEF Grammar!ViablePrefixes
<1>2. PICK n \in 0 .. Len(x) : s = SubSeq(x, 1, n)
  BY <1>1
<1>3. x \in Text
  <2>1. Grammar!Texts = Level(MaxDepth) /\ MaxDepth \in 0 .. MaxDepth
    BY MaxDepthAssumption DEF Level, Grammar!Texts
  <2> QED BY <2>1, LevelsAreSolid DEF Solid
<1> DEFINE r == SubSeq(x, n + 1, Len(x))
<1>4. Len(x) \in Nat /\ n \in Nat /\ n <= Len(x)
  BY <1>3 DEF Text
<1>5. r \in Text
  BY <1>3, <1>4, SubSeqProperties DEF Text
<1>6. s \o r = x
  <2>1. SubSeq(x, 1, n) \o SubSeq(x, n + 1, Len(x)) = SubSeq(x, 1, Len(x))
    <3>1. 1 \in 1 .. Len(x) + 1 /\ n \in 1 - 1 .. Len(x) /\ Len(x) \in n .. Len(x)
      BY <1>4
    <3>2. x \in Seq(Symbol)
      BY <1>3 DEF Text
    <3> HIDE DEF r
    <3> QED BY <3>1, <3>2, ConcatAdjacentSubSeq
  <2>2. SubSeq(x, 1, Len(x)) = x
    BY <1>3, SubSeqFull DEF Text
  <2> QED BY <1>2, <2>1, <2>2
<1> QED BY <1>5, <1>6

LEMMA CompleteRejects == ASSUME Reading, Complete PROVE RejectsOnlyBroken
<1> SUFFICES ASSUME phase = "done", ret = 0, ~scarce
             PROVE  CASE ahead = EOF -> read \notin Grammar!Texts
                      [] ahead \in {Unread, Space} -> read \notin Grammar!ViablePrefixes
                      [] OTHER -> Append(read, ahead) \notin Grammar!ViablePrefixes
  BY DEF RejectsOnlyBroken
<1>1. \A r : ~Viable(read, ahead, r)
  BY DEF Complete, Left
<1>2. read \in Text /\ ahead \in Token \cup {EOF, Unread}
  BY ReadIsText DEF Reading
<1>3. CASE ahead = EOF
  <2>1. read \o <<>> = read /\ <<>> \in Text
    BY <1>2, ConcatEmptySeq, EmptySeq DEF Text
  <2>2. read \notin Grammar!Texts
    BY <1>1, <1>3, <2>1 DEF Viable
  <2> QED BY <1>3, <2>2 DEF EOF, Unread, Space
<1>4. CASE ahead = Unread
  <2>1. ASSUME read \in Grammar!ViablePrefixes PROVE FALSE
    <3>1. PICK r \in Text : read \o r \in Grammar!Texts
      BY <1>2, <2>1, PrefixRest
    <3>2. Viable(read, ahead, r)
      BY <1>4, <3>1 DEF Viable, EOF, Unread
    <3> QED BY <1>1, <3>2
  <2> QED BY <1>4, <2>1 DEF EOF, Unread
<1>5. CASE ahead \in Token
  <2>1. ahead \in Symbol /\ ahead # EOF /\ ahead # Unread /\ ahead # Space
    BY <1>5, TokensAreSymbols DEF Symbol, Space
  <2>2. ASSUME Append(read, ahead) \in Grammar!ViablePrefixes PROVE FALSE
    <3>1. PICK a \in Text : a = <<ahead>>
      BY <2>1, OneSymbol
    <3>2. Append(read, ahead) = read \o a
      BY <1>2, <2>1, <3>1, AppendIsConcat DEF Text
    <3>3. read \o a \in Text
      BY <1>2, <3>1, ConcatFacts
    <3>4. PICK q \in Text : (read \o a) \o q \in Grammar!Texts
      BY <2>2, <3>2, <3>3, PrefixRest
    <3>5. read \in Text /\ a \in Text /\ q \in Text
      BY <1>2, <3>1, <3>4
    <3>6. (read \o a) \o q = read \o (a \o q)
      BY <3>5, ConcatAssoc
    <3>7. a \o q \in Text
      BY <3>5, ConcatFacts
    <3>8. PICK r : r = a \o q
      OBVIOUS
    <3>9. r \in Text /\ read \o r \in Grammar!Texts /\ r = <<ahead>> \o q
      BY <3>1, <3>4, <3>6, <3>7, <3>8
    <3>10. Viable(read, ahead, r)
      BY <2>1, <3>5, <3>9 DEF Viable
    <3> QED BY <1>1, <3>10
  <2> QED BY <2>1, <2>2
<1> QED BY <1>2, <1>3, <1>4, <1>5

-----------------------------------------------------------------------------
(* The theorems.                                                           *)

\* The C stack holds at most max_depth calls of parse_value, for every input
\* and every max_depth, also after calls that ended half-way (parser.c:444-448,
\* where `depth` is incremented and the return skips the decrement).
THEOREM RecursionIsBounded == Spec => []RecursionBounded
<1>1. IInv => RecursionBounded
  BY DEF IInv, Counted, RecursionBounded
<1> QED BY <1>1, SpecIInv, PTL

\* As long as memory suffices, the assertion of json.c:285 holds: NULL comes
\* with an error, a value without one.
THEOREM FailureIsReported == Spec => []ErrorIffNull
<1>1. IInv => ErrorIffNull
  BY DEF IInv, Reported, ErrorIffNull
<1> QED BY <1>1, SpecIInv, PTL

\* Every variable of the parser has its type; in particular `depth` and the
\* number of allocated blocks never become negative: nothing is freed that was
\* not allocated, whatever the order of failures.
THEOREM ParserTypes == Spec => []TypeOK
<1>1. IInv /\ MInv /\ Reading => TypeOK
  <2> SUFFICES ASSUME IInv, MInv, Reading PROVE TypeOK
    OBVIOUS
  <2>1. stack \in Seq(Frame) /\ ret \in Nat /\ Sum(stack) \in Nat
    BY FrameStack, SumType
  <2>2. heap \in Nat /\ lost \in Nat
    BY <2>1, OwnedIsSum DEF MInv, Ownership
  <2> QED BY <2>1, <2>2 DEF TypeOK, IInv, Shape, Reading
<1> QED BY <1>1, SpecIInv, SpecMInv, SpecReading, PTL

\* At every point of the descent the allocated blocks are exactly those of the
\* frames, of the value being returned, and those that string.c:83 has lost:
\* every `goto fail` frees what it must, once (parser.c:283-416).
THEOREM EveryBlockIsOwned == Spec => []Ownership
<1>1. MInv => Ownership
  BY DEF MInv
<1> QED BY <1>1, SpecMInv, PTL

\* What json_parse returns a value for is a text of the grammar, nested at most
\* max_depth deep, and with `all` it is followed by what peek takes for the end,
\* for every input, every max_depth and whatever allocations fail.
THEOREM AcceptedIsJson == Spec => []AcceptsOnlyJson
<1>1. Sound => AcceptsOnlyJson
  BY DEF Sound, AcceptsOnlyJson
<1> QED BY <1>1, SpecSound, PTL

\* With enough memory json_parse returns NULL only if no text of the grammar, nested at
\* most max_depth deep, begins with what it has read and looked at.
THEOREM RejectedIsBroken == Spec => []RejectsOnlyBroken
<1>1. Reading /\ Complete => RejectsOnlyBroken
  BY CompleteRejects
<1> QED BY <1>1, SpecReading, SpecComplete, PTL
=============================================================================
