-------------------------- MODULE PrettyPrintProofs --------------------------
(***************************************************************************)
(* Theorems about json_pretty_print: what it writes into a buffer of any   *)
(* size, for every value, and that a reader of the text finds the value    *)
(* again.                                                                  *)
(***************************************************************************)
EXTENDS PrettyPrint, FiniteSetTheorems, SequenceTheorems, WellFoundedInduction, TLAPS

-----------------------------------------------------------------------------
(* The texts that are printed.                                             *)

LEMMA CellsOfEscapes ==
  /\ "quote" \in Cell /\ "backslash" \in Cell /\ "slash" \in Cell /\ "n" \in Cell /\ "t" \in Cell
  /\ "nl" \in Cell /\ "tab" \in Cell /\ " " \in Cell /\ ":" \in Cell /\ "," \in Cell
  /\ "[" \in Cell /\ "]" \in Cell /\ "{" \in Cell /\ "}" \in Cell
BY Zenon DEF Cell, Control

LEMMA PieceType ==
  ASSUME NEW c \in Cell, NEW d \in Cell
  PROVE  <<c>> \in Text /\ <<c, d>> \in Text /\ <<<<c>>>> \in Seq(Text) /\ <<<<c, d>>>> \in Seq(Text)
<1>1. <<c>> \in Text /\ <<c, d>> \in Text
  BY SMT DEF Text
<1>2. ASSUME NEW T, NEW t \in T PROVE <<t>> \in Seq(T)
  BY SMT
<1> QED BY <1>1, <1>2

LEMMA EscapedType == ASSUME NEW c \in Cell PROVE Escaped(c) \in Text
<1>1. CASE c \in DOMAIN Letter
  <2>1. Letter[c] \in {"quote", "backslash", "slash", "n", "t"}
    BY Zenon, <1>1 DEF Letter
  <2>2. Letter[c] \in Cell
    BY Zenon, <2>1, CellsOfEscapes
  <2>3. <<"backslash", Letter[c]>> \in Text
    BY Zenon, <2>2, CellsOfEscapes, PieceType
  <2> QED BY Zenon, <1>1, <2>3 DEF Escaped
<1>2. CASE c \notin DOMAIN Letter
  <2>1. <<c, c>> \in Text /\ <<c>> \in Text
    BY PieceType
  <2> QED BY Zenon, <1>2, <2>1 DEF Escaped
<1> QED BY <1>1, <1>2

LEMMA StringPiecesType == ASSUME NEW s \in Text PROVE StringPieces(s) \in Seq(Text)
<1> DEFINE quote == <<<<"quote">>>>
           middle == IF \E n \in 1 .. Len(s) : s[n] \in MustBeEscaped
                     THEN [n \in 1 .. Len(s) |-> Escaped(s[n])] ELSE <<s>>
<1>1. quote \in Seq(Text)
  BY Zenon, CellsOfEscapes, PieceType
<1>2. [n \in 1 .. Len(s) |-> Escaped(s[n])] \in Seq(Text)
  <2>1. \A n \in 1 .. Len(s) : Escaped(s[n]) \in Text
    BY EscapedType DEF Text
  <2>2. Len(s) \in Nat
    BY DEF Text
  <2> QED BY SMT, <2>1, <2>2
<1>3. <<s>> \in Seq(Text)
  BY SMT
<1>4. middle \in Seq(Text)
  BY <1>2, <1>3
<1>5. StringPieces(s) = (quote \o middle) \o quote
  BY DEF StringPieces
<1> HIDE DEF quote, middle
<1>6. quote \o middle \in Seq(Text)
  BY SMT, <1>1, <1>4
<1> QED BY SMT, <1>1, <1>5, <1>6

LEMMA TabsType == ASSUME NEW n \in Int PROVE Tabs(n) \in Seq(Text)
<1>1. <<"tab">> \in Text
  BY Zenon, CellsOfEscapes, PieceType
<1>2. CASE n \in Nat
  BY SMT, <1>1, <1>2 DEF Tabs
<1>3. CASE n \notin Nat
  <2>1. 1 .. n = {}
    BY SMT, <1>3
  <2>2. Tabs(n) = <<>>
    BY SMT, <2>1 DEF Tabs
  <2> QED BY SMT, <2>2
<1> QED BY <1>2, <1>3

-----------------------------------------------------------------------------
(* Types.                                                                  *)

LEMMA ValueParts ==
  ASSUME NEW v \in Value
  PROVE  /\ v.kind \in {"str", "atom"} => v.text \in Text
         /\ v.kind = "array" => v.values \in Seq(Value)
         /\ v.kind = "object" => v.entries \in Seq([used : BOOLEAN, key : Text, value : Value])
BY ValueAssumption

LEMMA ConcatType ==
  ASSUME NEW S, NEW a \in Seq(S), NEW b \in Seq(S)
  PROVE  a \o b \in Seq(S)
BY SMT

LEMMA CommaType == Comma \in Seq(Text)
<1>1. <<<<",", "nl">>>> \in Seq(Text)
  BY Zenon, CellsOfEscapes, PieceType
<1>2. <<>> \in Seq(Text)
  BY SMT
<1> QED BY <1>1, <1>2 DEF Comma

LEMMA TypeInit == Init => TypeOK
BY SMT DEF Init, TypeOK, Text

\* The part of a step that the walk keeps its types by.
WalkOK ==
  /\ at \in Seq(Value) /\ Len(at) <= 1
  /\ pending \in Seq(Text) /\ stack \in Seq(Frame) /\ indent = Len(stack)

RestOK ==
  /\ pc \in {"idle", "walk", "done"}
  /\ position \in Nat /\ out_size \in Nat
  /\ value \in Value /\ text \in Text /\ returned \in Nat /\ needed \in Nat

LEMMA TypeParts == TypeOK <=> WalkOK /\ RestOK
BY DEF TypeOK, WalkOK, RestOK

LEMMA EmitType == TypeOK /\ Emit => TypeOK'
<1> SUFFICES ASSUME TypeOK, Emit PROVE TypeOK'
  OBVIOUS
<1>1. Head(pending) \in Text /\ Tail(pending) \in Seq(Text)
  BY SMT DEF TypeOK, Emit
<1>2. text' \in Text
  BY SMT, <1>1 DEF TypeOK, Emit, jprintf, Text
<1>3. position' \in Nat
  BY SMT, <1>1 DEF TypeOK, Emit, jprintf, Text
<1> QED BY <1>1, <1>2, <1>3 DEF TypeOK, Emit

LEMMA BeginType == ASSUME NEW size \in Nat PROVE TypeOK /\ Begin(size) => TypeOK'
<1> SUFFICES ASSUME TypeOK, Begin(size) PROVE TypeOK'
  OBVIOUS
<1>1. at' \in Seq(Value) /\ Len(at') <= 1
  BY SMT DEF TypeOK, Begin
<1>2. pending' \in Seq(Text) /\ stack' \in Seq(Frame) /\ text' \in Text
  BY SMT DEF Begin, Text
<1> QED BY SMT, <1>1, <1>2 DEF TypeOK, Begin

LEMMA EndType == TypeOK /\ End => TypeOK'
<1> SUFFICES ASSUME TypeOK, End PROVE TypeOK'
  OBVIOUS
<1>1. returned' \in Nat /\ needed' \in Nat
  BY SMT DEF TypeOK, End, Returned
<1> QED BY <1>1 DEF TypeOK, End, walk

\* What the walk leaves alone in its own steps.
LEMMA WalkKeepsRest ==
  TypeOK /\ (Scalar \/ Empty \/ Open \/ Element \/ Blank \/ Entry \/ Close) => RestOK'
<1> SUFFICES ASSUME TypeOK, Scalar \/ Empty \/ Open \/ Element \/ Blank \/ Entry \/ Close
             PROVE RestOK'
  OBVIOUS
<1>1. UNCHANGED <<pc, output, out_size, value, returned, needed>>
  BY DEF Scalar, Empty, Open, Element, Blank, Entry, Close
<1> QED BY <1>1 DEF TypeOK, RestOK, output

LEMMA NextFrame ==
  ASSUME NEW f \in Frame
  PROVE  [f EXCEPT !.i = @ + 1, !.latch = TRUE] \in Frame /\ [f EXCEPT !.i = @ + 1] \in Frame
<1> DEFINE g == [f EXCEPT !.i = @ + 1]
<1>1. g \in Frame
  BY SMT DEF Frame
<1>2. [f EXCEPT !.i = @ + 1, !.latch = TRUE] = [g EXCEPT !.latch = TRUE]
  BY SMT DEF Frame
<1> HIDE DEF g
<1>3. [g EXCEPT !.latch = TRUE] \in Frame
  BY Zenon, <1>1 DEF Frame
<1> QED BY <1>1, <1>2, <1>3 DEF g

LEMMA WalkType ==
  TypeOK /\ (Scalar \/ Empty \/ Open \/ Element \/ Blank \/ Entry \/ Close) => WalkOK'
<1> SUFFICES ASSUME TypeOK, Scalar \/ Empty \/ Open \/ Element \/ Blank \/ Entry \/ Close
             PROVE WalkOK'
  OBVIOUS
<1>t. /\ at \in Seq(Value) /\ Len(at) <= 1
      /\ stack \in Seq(Frame) /\ indent = Len(stack) /\ indent \in Nat
  BY SMT DEF TypeOK
<1>e. <<>> \in Seq(Value) /\ Len(<<>>) = 0
  BY SMT
<1>a. at # <<>> => at[1] \in Value
  BY SMT, <1>t
<1>s. stack # <<>> => Top \in Frame /\ Below \in Seq(Frame)
  BY SMT, <1>t DEF Top, Below
<1>f. ASSUME NEW f \in Frame, stack # <<>>
      PROVE  LET s == [stack EXCEPT ![Len(stack)] = f] IN s \in Seq(Frame) /\ Len(s) = Len(stack)
  BY SMT, <1>t, <1>f
<1>1. CASE Scalar
  <2>1. at[1] \in Value
    BY <1>1, <1>a DEF Scalar
  <2>2. ASSUME NEW x \in Text PROVE <<x>> \in Seq(Text)
    BY SMT
  <2>3. pending' \in Seq(Text)
    BY <1>1, <2>1, <2>2, ValueParts, StringPiecesType DEF Scalar
  <2>4. at' = <<>> /\ UNCHANGED <<stack, indent>>
    BY <1>1 DEF Scalar
  <2> QED BY <1>t, <1>e, <2>3, <2>4 DEF WalkOK
<1>2. CASE Empty
  <2>1. <<"[", " ", "]">> \in Text /\ <<"{", " ", "}">> \in Text
    <3>1. ASSUME NEW a \in Cell, NEW b \in Cell, NEW c \in Cell PROVE <<a, b, c>> \in Text
      BY SMT DEF Text
    <3> QED BY Zenon, <3>1, CellsOfEscapes
  <2>2. ASSUME NEW x \in Text PROVE <<x>> \in Seq(Text)
    BY SMT
  <2>3. pending' \in Seq(Text)
    BY Zenon, <1>2, <2>1, <2>2 DEF Empty
  <2>4. at' = <<>> /\ UNCHANGED <<stack, indent>>
    BY <1>2 DEF Empty
  <2> QED BY <1>t, <1>e, <2>3, <2>4 DEF WalkOK
<1>3. CASE Open
  <2>1. pending' \in Seq(Text)
    BY Zenon, <1>3, CellsOfEscapes, PieceType DEF Open
  <2>2. at[1] \in Value
    BY <1>3, <1>a DEF Open
  <2>3. [value |-> at[1], i |-> 0, latch |-> FALSE] \in Frame
    BY SMT, <2>2 DEF Frame
  <2>4. stack' = Append(stack, [value |-> at[1], i |-> 0, latch |-> FALSE]) /\ indent' = indent + 1
    BY <1>3 DEF Open
  <2>5. ASSUME NEW f \in Frame PROVE Append(stack, f) \in Seq(Frame) /\ Len(Append(stack, f)) = Len(stack) + 1
    BY SMT, <1>t
  <2>6. stack' \in Seq(Frame) /\ indent' = Len(stack')
    BY <1>t, <2>3, <2>4, <2>5
  <2>7. at' = <<>>
    BY <1>3 DEF Open
  <2> QED BY <1>e, <2>1, <2>6, <2>7 DEF WalkOK
<1>4. CASE Element
  <2>1. Top \in Frame /\ Top.value.kind = "array" /\ stack # <<>> /\ Top.i < Len(Top.value.values)
    BY <1>4, <1>s DEF Element, Looping
  <2>2. Top.value.values \in Seq(Value) /\ Top.i \in Nat
    BY <2>1, ValueParts DEF Frame
  <2>3. Top.value.values[Top.i + 1] \in Value
    BY SMT, <2>1, <2>2
  <2>4. at' \in Seq(Value) /\ Len(at') <= 1
    BY SMT, <1>4, <2>3 DEF Element
  <2>5. pending' \in Seq(Text)
    BY <1>4, <1>t, CommaType, TabsType, ConcatType DEF Element
  <2>6. [Top EXCEPT !.i = @ + 1, !.latch = TRUE] \in Frame
    BY <2>1, NextFrame
  <2>7. stack' \in Seq(Frame) /\ Len(stack') = Len(stack)
    BY <1>4, <1>f, <2>1, <2>6 DEF Element, SetTop
  <2> QED BY <1>4, <1>t, <2>4, <2>5, <2>7 DEF Element, WalkOK
<1>5. CASE Blank
  <2>1. Top \in Frame /\ stack # <<>>
    BY <1>5, <1>s DEF Blank, Looping
  <2>2. [Top EXCEPT !.i = @ + 1] \in Frame
    BY <2>1, NextFrame
  <2>3. stack' \in Seq(Frame) /\ Len(stack') = Len(stack)
    BY <1>5, <1>f, <2>1, <2>2 DEF Blank, SetTop
  <2> QED BY <1>5, <1>t, <2>3 DEF Blank, WalkOK, TypeOK
<1>6. CASE Entry
  <2>1. Top \in Frame /\ Top.value.kind = "object" /\ stack # <<>> /\ Top.i < Len(Top.value.entries)
    BY <1>6, <1>s DEF Entry, Looping
  <2>2. Top.value.entries \in Seq([used : BOOLEAN, key : Text, value : Value]) /\ Top.i \in Nat
    BY <2>1, ValueParts DEF Frame
  <2> DEFINE e == Top.value.entries[Top.i + 1]
  <2>3. e \in [used : BOOLEAN, key : Text, value : Value]
    <3>1. Top.i + 1 \in 1 .. Len(Top.value.entries)
      BY SMT, <2>1, <2>2
    <3>2. ASSUME NEW S, NEW q \in Seq(S), NEW k \in 1 .. Len(q) PROVE q[k] \in S
      BY SMT
    <3> QED BY <2>2, <3>1, <3>2
  <2>4. e.value \in Value /\ e.key \in Text
    BY <2>3
  <2>5. at' = <<e.value>> /\ pending' = ((Comma \o Tabs(indent)) \o StringPieces(e.key)) \o <<<<":", " ">>>>
    BY <1>6 DEF Entry
  <2> HIDE DEF e
  <2>6. at' \in Seq(Value) /\ Len(at') <= 1
    <3>1. ASSUME NEW x \in Value PROVE <<x>> \in Seq(Value) /\ Len(<<x>>) <= 1
      BY SMT
    <3> QED BY <2>4, <2>5, <3>1
  <2>7. <<<<":", " ">>>> \in Seq(Text)
    BY Zenon, CellsOfEscapes, PieceType
  <2>8. Tabs(indent) \in Seq(Text) /\ StringPieces(e.key) \in Seq(Text)
    <3>1. indent \in Int
      BY <1>t
    <3>2. Tabs(indent) \in Seq(Text)
      BY <3>1, TabsType
    <3> QED BY <2>4, <3>2, StringPiecesType
  <2>9. pending' \in Seq(Text)
    BY <2>5, <2>7, <2>8, CommaType, ConcatType
  <2>10. [Top EXCEPT !.i = @ + 1, !.latch = TRUE] \in Frame
    BY <2>1, NextFrame
  <2>11. stack' \in Seq(Frame) /\ Len(stack') = Len(stack)
    BY <1>6, <1>f, <2>1, <2>10 DEF Entry, SetTop
  <2> QED BY <1>6, <1>t, <2>6, <2>9, <2>11 DEF Entry, WalkOK
<1>7. CASE Close
  <2>1. stack # <<>> /\ stack' = Below /\ indent' = indent - 1 /\ at' = at
    BY <1>7 DEF Close, Looping
  <2>2. Below \in Seq(Frame) /\ Len(Below) = Len(stack) - 1
    BY SMT, <1>t, <2>1 DEF Below
  <2>3. ASSUME NEW c \in {"]", "}", "nl"} PROVE <<<<c>>>> \in Seq(Text)
    BY Zenon, CellsOfEscapes, PieceType
  <2>4. (IF Top.value.kind = "array" THEN <<<<"]">>>> ELSE <<<<"}">>>>) \in Seq(Text)
    BY Zenon, <2>3
  <2>5. <<<<"nl">>>> \o Tabs(indent - 1) \in Seq(Text)
    <3>1. indent - 1 \in Int
      BY SMT, <1>t
    <3> QED BY <2>3, <3>1, TabsType, ConcatType
  <2>6. pending' \in Seq(Text)
    BY <1>7, <2>4, <2>5, ConcatType DEF Close
  <2> QED BY <1>t, <2>1, <2>2, <2>6 DEF WalkOK
<1> QED BY <1>1, <1>2, <1>3, <1>4, <1>5, <1>6, <1>7

\* Type correctness of the printer, for every value and every size.
THEOREM PrinterTyped == Spec => []TypeOK
<1>1. Init => TypeOK
  BY TypeInit
<1>2. TypeOK /\ [Next]_vars => TypeOK'
  <2> SUFFICES ASSUME TypeOK, [Next]_vars PROVE TypeOK'
    OBVIOUS
  <2>1. CASE Emit
    BY <2>1, EmitType
  <2>2. CASE Scalar \/ Empty \/ Open \/ Element \/ Blank \/ Entry \/ Close
    <3>1. WalkOK' /\ RestOK'
      BY <2>2, WalkType, WalkKeepsRest
    <3> QED BY <3>1 DEF TypeOK, WalkOK, RestOK
  <2>3. CASE End
    BY <2>3, EndType
  <2>4. ASSUME NEW size \in (0 .. MaxSize) \cup {needed}, Begin(size) PROVE TypeOK'
    <3>1. size \in Nat
      BY SMT, MaxSizeAssumption DEF TypeOK
    <3> QED BY <2>4, <3>1, BeginType
  <2>5. CASE UNCHANGED vars
    BY <2>5 DEF vars, walk, output, TypeOK
  <2> QED BY <2>1, <2>2, <2>3, <2>4, <2>5 DEF Next, Step
<1> QED BY <1>1, <1>2, PTL DEF Spec

-----------------------------------------------------------------------------
(* The buffer.                                                             *)

\* Where the text that fits ends.
Cut == Least(position, out_size - 1)

BufferOK ==
  /\ position = Len(text)
  /\ out_size = 0 => DOMAIN buffer = {}
  /\ out_size > 0 =>
       /\ DOMAIN buffer \subseteq 0 .. Cut
       /\ \A p \in 0 .. Cut - 1 : p \in DOMAIN buffer /\ buffer[p] = text[p + 1]
       /\ position > 0 \/ pc = "done" => Cut \in DOMAIN buffer /\ buffer[Cut] = Nul

LEMMA BufferInit == Init => BufferOK
<1> SUFFICES ASSUME Init PROVE BufferOK
  OBVIOUS
<1>1. position = 0 /\ out_size = 0 /\ buffer = <<>> /\ text = <<>>
  BY DEF Init
<1> QED BY SMT, <1>1 DEF BufferOK

LEMMA EmitBuffer == TypeOK /\ BufferOK /\ Emit => BufferOK'
<1> SUFFICES ASSUME TypeOK, BufferOK, Emit PROVE BufferOK'
  OBVIOUS
<1> DEFINE piece == Head(pending)
<1>1. piece \in Text
  BY SMT DEF TypeOK, Emit
<1>2. /\ pc = "walk" /\ pc' = "walk" /\ out_size' = out_size
      /\ buffer' = IF Room = 0 THEN buffer ELSE Filled(piece, Room)
      /\ position' = position + Len(piece)
      /\ text' = text \o piece
  BY DEF Emit, jprintf
<1> HIDE DEF piece
<1>3. position \in Nat /\ out_size \in Nat /\ text \in Seq(Cell) /\ piece \in Seq(Cell) /\ Len(piece) \in Nat
  BY SMT, <1>1 DEF TypeOK, Text
<1>4. position = Len(text) /\ position' = Len(text')
  BY SMT, <1>2, <1>3 DEF BufferOK
<1>5. /\ \A k \in 1 .. position : text'[k] = text[k]
      /\ \A k \in 1 .. Len(piece) : text'[position + k] = piece[k]
  BY SMT, <1>2, <1>3, <1>4
<1>6. CASE Room = 0
  <2>1. position >= out_size /\ buffer' = buffer
    BY SMT, <1>2, <1>3, <1>6 DEF Room
  <2>2. out_size > 0 => Cut = out_size - 1 /\ Cut' = out_size - 1 /\ position > 0
    BY SMT, <1>2, <1>3, <2>1 DEF Cut, Least
  <2>3. CASE out_size = 0
    BY SMT, <1>2, <1>4, <2>1, <2>3 DEF BufferOK
  <2>4. CASE out_size > 0
    <3>1. /\ DOMAIN buffer \subseteq 0 .. Cut'
          /\ \A p \in 0 .. Cut' - 1 : p \in DOMAIN buffer /\ buffer[p] = text[p + 1]
          /\ Cut' \in DOMAIN buffer /\ buffer[Cut'] = Nul
      BY <2>2, <2>4 DEF BufferOK
    <3>2. \A p \in 0 .. Cut' - 1 : text'[p + 1] = text[p + 1]
      BY SMT, <1>3, <1>5, <2>1, <2>2, <2>4
    <3>3. out_size' # 0
      BY SMT, <1>2, <1>3, <2>4
    <3> QED BY <1>4, <2>1, <3>1, <3>2, <3>3 DEF BufferOK
  <2> QED BY SMT, <1>3, <2>3, <2>4
<1>7. CASE Room # 0
  <2>1. position < out_size /\ Room = out_size - position /\ Room \in Nat
    BY SMT, <1>3, <1>7 DEF Room
  <2> DEFINE w == Written(piece, Room)
             last == position + w
  <2>2. w = Least(Len(piece), Room - 1) /\ w \in Nat /\ w <= Len(piece)
    BY SMT, <1>3, <1>7, <2>1 DEF Written, Least
  <2>3. Cut = position /\ Cut' = last
    <3>1. Cut' = Least(position + Len(piece), out_size - 1)
      BY <1>2 DEF Cut
    <3> HIDE DEF w
    <3> QED BY SMT, <1>3, <2>1, <2>2, <3>1 DEF Cut, Least
  <2>4. buffer' = [p \in DOMAIN buffer \cup (position .. last) |->
                     IF p = last THEN Nul
                     ELSE IF p \in position .. last - 1 THEN piece[p - position + 1]
                     ELSE buffer[p]]
    BY <1>2, <1>7 DEF Filled
  <2> HIDE DEF w
  <2>5. /\ DOMAIN buffer \subseteq 0 .. position
        /\ \A p \in 0 .. position - 1 : p \in DOMAIN buffer /\ buffer[p] = text[p + 1]
    BY SMT, <1>3, <2>1, <2>3 DEF BufferOK
  <2>6. DOMAIN buffer' \subseteq 0 .. last
    BY SMT, <1>3, <2>2, <2>4, <2>5
  <2>7. \A p \in 0 .. last - 1 : p \in DOMAIN buffer' /\ buffer'[p] = text'[p + 1]
    <3> SUFFICES ASSUME NEW p \in 0 .. last - 1 PROVE p \in DOMAIN buffer' /\ buffer'[p] = text'[p + 1]
      OBVIOUS
    <3>1. CASE p < position
      <4>1. p \in DOMAIN buffer /\ buffer[p] = text[p + 1] /\ text'[p + 1] = text[p + 1]
        BY SMT, <1>3, <1>5, <2>5, <3>1
      <4>2. p # last /\ p \notin position .. last - 1
        BY SMT, <1>3, <2>2, <3>1
      <4> QED BY <2>4, <4>1, <4>2
    <3>2. CASE p >= position
      <4> DEFINE k == p - position + 1
      <4>1. k \in 1 .. Len(piece) /\ position + k = p + 1 /\ p \in position .. last - 1 /\ p # last
            /\ p \in position .. last
        BY SMT, <1>3, <2>2, <3>2
      <4>2. text'[position + k] = piece[k]
        BY <1>5, <4>1
      <4>3. p \in DOMAIN buffer' /\ buffer'[p] = piece[k]
        BY <2>4, <4>1
      <4> HIDE DEF k
      <4> QED BY <4>1, <4>2, <4>3
    <3> QED BY SMT, <1>3, <2>2, <3>1, <3>2
  <2>8. last \in DOMAIN buffer' /\ buffer'[last] = Nul
    <3>1. last \in position .. last
      BY SMT, <1>3, <2>2
    <3> QED BY <2>4, <3>1
  <2>9. out_size' # 0
    BY SMT, <1>2, <1>3, <2>1
  <2> HIDE DEF last
  <2> QED BY <1>4, <2>3, <2>6, <2>7, <2>8, <2>9 DEF BufferOK
<1> QED BY <1>6, <1>7

LEMMA EndBuffer == TypeOK /\ BufferOK /\ End => BufferOK'
<1> SUFFICES ASSUME TypeOK, BufferOK, End PROVE BufferOK'
  OBVIOUS
<1>1. /\ position' = position /\ out_size' = out_size /\ text' = text /\ pc' = "done"
      /\ buffer' = IF position < out_size
                    THEN [p \in DOMAIN buffer \cup {position} |-> IF p = position THEN Nul ELSE buffer[p]]
                    ELSE buffer
  BY DEF End
<1>2. position \in Nat /\ out_size \in Nat
  BY DEF TypeOK
<1>3. Cut' = Cut
  BY <1>1 DEF Cut
<1>4. CASE position < out_size
  <2>1. Cut = position
    BY SMT, <1>2, <1>4 DEF Cut, Least
  <2>2. /\ DOMAIN buffer \subseteq 0 .. position
        /\ \A p \in 0 .. position - 1 : p \in DOMAIN buffer /\ buffer[p] = text[p + 1]
    BY SMT, <1>2, <1>4, <2>1 DEF BufferOK
  <2>3. position \in 0 .. position /\ \A p \in 0 .. position - 1 : p # position
    BY SMT, <1>2
  <2>4. DOMAIN buffer' \subseteq 0 .. position
    BY <1>1, <1>4, <2>2, <2>3
  <2>5. \A p \in 0 .. position - 1 : p \in DOMAIN buffer' /\ buffer'[p] = text'[p + 1]
    BY <1>1, <1>4, <2>2, <2>3
  <2>6. position \in DOMAIN buffer' /\ buffer'[position] = Nul
    BY <1>1, <1>4
  <2>7. out_size' # 0 /\ position' = Len(text')
    BY SMT, <1>1, <1>2, <1>4 DEF BufferOK
  <2> QED BY <1>3, <2>1, <2>4, <2>5, <2>6, <2>7 DEF BufferOK
<1>5. CASE ~(position < out_size)
  <2>1. buffer' = buffer /\ (out_size > 0 => position > 0)
    BY SMT, <1>1, <1>2, <1>5
  <2> QED BY <1>1, <1>3, <2>1 DEF BufferOK
<1> QED BY <1>4, <1>5

LEMMA BeginBuffer == ASSUME NEW size \in Nat PROVE Begin(size) => BufferOK'
<1> SUFFICES ASSUME Begin(size) PROVE BufferOK'
  OBVIOUS
<1>1. position' = 0 /\ out_size' = size /\ buffer' = <<>> /\ text' = <<>> /\ pc' = "walk"
  BY DEF Begin
<1>2. size > 0 => Cut' = 0
  BY SMT, <1>1 DEF Cut, Least
<1>3. DOMAIN buffer' = {}
  BY SMT, <1>1
<1> QED BY SMT, <1>1, <1>2, <1>3 DEF BufferOK

LEMMA BufferKept ==
  BufferOK /\ UNCHANGED <<position, buffer, text, out_size, pc>> => BufferOK'
BY DEF BufferOK, Cut

LEMMA BufferAlways == Spec => [](TypeOK /\ BufferOK)
<1>1. Init => BufferOK
  BY BufferInit
<1>2. TypeOK /\ BufferOK /\ [Next]_vars => BufferOK'
  <2> SUFFICES ASSUME TypeOK, BufferOK, [Next]_vars PROVE BufferOK'
    OBVIOUS
  <2>1. CASE Emit
    BY <2>1, EmitBuffer
  <2>2. CASE Scalar \/ Empty \/ Open \/ Element \/ Blank \/ Entry \/ Close
    <3>1. UNCHANGED <<position, buffer, text, out_size, pc>>
      BY <2>2 DEF Scalar, Empty, Open, Element, Blank, Entry, Close, output
    <3> QED BY <3>1, BufferKept
  <2>3. CASE End
    BY <2>3, EndBuffer
  <2>4. ASSUME NEW size \in (0 .. MaxSize) \cup {needed}, Begin(size) PROVE BufferOK'
    <3>1. size \in Nat
      BY SMT, MaxSizeAssumption DEF TypeOK
    <3> QED BY <2>4, <3>1, BeginBuffer
  <2>5. CASE UNCHANGED vars
    BY <2>5, BufferKept DEF vars, walk, output
  <2> QED BY <2>1, <2>2, <2>3, <2>4, <2>5 DEF Next, Step
<1> QED BY <1>1, <1>2, PrinterTyped, PTL DEF Spec

\* json.h:311: whatever the value and the size, nothing is written outside of
\* the buffer.
THEOREM PrintsInside == Spec => []NeverOutside
<1>1. TypeOK /\ BufferOK => NeverOutside
  <2> SUFFICES ASSUME TypeOK, BufferOK PROVE NeverOutside
    OBVIOUS
  <2>1. out_size \in Nat /\ position \in Nat
    BY DEF TypeOK
  <2>2. CASE out_size = 0
    BY <2>2 DEF BufferOK, NeverOutside
  <2>3. CASE out_size > 0
    <3>1. DOMAIN buffer \subseteq 0 .. Cut
      BY <2>3 DEF BufferOK
    <3>2. Cut <= out_size - 1 /\ Cut \in Int
      BY SMT, <2>1, <2>3 DEF Cut, Least
    <3> QED BY SMT, <2>1, <3>1, <3>2 DEF NeverOutside
  <2> QED BY SMT, <2>1, <2>2, <2>3
<1> QED BY <1>1, BufferAlways, PTL

\* json.h:309: whatever the value and the size, the buffer ends up with as much
\* of the text as fits and a null character.
THEOREM CutsRight == Spec => []TruncatedRight
<1>1. TypeOK /\ BufferOK => TruncatedRight
  <2> SUFFICES ASSUME TypeOK, BufferOK, pc = "done", out_size > 0
               PROVE  /\ DOMAIN buffer = 0 .. Cut
                      /\ buffer[Cut] = Nul
                      /\ \A p \in 0 .. Cut - 1 : buffer[p] = text[p + 1]
    BY DEF TruncatedRight, Cut, BufferOK
  <2>1. /\ DOMAIN buffer \subseteq 0 .. Cut
        /\ \A p \in 0 .. Cut - 1 : p \in DOMAIN buffer /\ buffer[p] = text[p + 1]
        /\ Cut \in DOMAIN buffer /\ buffer[Cut] = Nul
    BY DEF BufferOK
  <2>2. \A p \in 0 .. Cut : p = Cut \/ p \in 0 .. Cut - 1
    <3>1. Cut \in Int
      BY SMT DEF Cut, Least, TypeOK
    <3> QED BY SMT, <3>1
  <2> QED BY <2>1, <2>2
<1> QED BY <1>1, BufferAlways, PTL

-----------------------------------------------------------------------------
(* Two calls for one value.  The walk never looks at the buffer: what it    *)
(* does next, and what it prints, follows from `at`, `pending`, `stack`,    *)
(* `indent` and `text`.  So the walks of two calls for the same value are   *)
(* one and the same, which has one end.                                     *)

Where == <<at, pending, stack, indent, text>>

Start(v) == <<<<v>>, <<>>, <<>>, 0, <<>>>>
Ended(w) == w[1] = <<>> /\ w[2] = <<>> /\ w[3] = <<>>

\* print_json_value is called with v: what it prints, and the frame of its loop.
Piece(v) ==
  CASE v.kind = "str" -> StringPieces(v.text)
    [] v.kind = "atom" -> <<v.text>>
    [] v.kind = "array" -> IF v.values = <<>> THEN <<<<"[", " ", "]">>>> ELSE <<<<"[", "nl">>>>
    [] v.kind = "object" -> IF \A n \in 1 .. Len(v.entries) : ~v.entries[n].used
                            THEN <<<<"{", " ", "}">>>> ELSE <<<<"{", "nl">>>>
Opens(v) ==
  \/ v.kind = "array" /\ v.values # <<>>
  \/ v.kind = "object" /\ \E n \in 1 .. Len(v.entries) : v.entries[n].used

\* The loops go on with the frame f; `tabs` are those of its elements.
CommaOf(f) == IF f.latch THEN <<<<",", "nl">>>> ELSE <<>>
Elements(f) == IF f.value.kind = "array" THEN Len(f.value.values) ELSE Len(f.value.entries)
Skips(f) == f.value.kind = "object" /\ ~f.value.entries[f.i + 1].used
Called(f) == IF f.value.kind = "array" THEN f.value.values[f.i + 1] ELSE f.value.entries[f.i + 1].value
Before(f, tabs) ==
  IF f.value.kind = "array" THEN CommaOf(f) \o tabs
  ELSE CommaOf(f) \o tabs \o StringPieces(f.value.entries[f.i + 1].key) \o <<<<":", " ">>>>
Closing(f, tabs) ==
  <<<<"nl">>>> \o tabs \o IF f.value.kind = "array" THEN <<<<"]">>>> ELSE <<<<"}">>>>

\* The one step that the walk takes from w, when it has not ended.
After(w) ==
  LET s == w[3]
      f == s[Len(s)]
  IN  IF w[2] # <<>> THEN <<w[1], Tail(w[2]), s, w[4], w[5] \o Head(w[2])>>
      ELSE IF w[1] # <<>>
        THEN IF Opens(w[1][1])
             THEN <<<<>>, Piece(w[1][1]), Append(s, [value |-> w[1][1], i |-> 0, latch |-> FALSE]),
                    w[4] + 1, w[5]>>
             ELSE <<<<>>, Piece(w[1][1]), s, w[4], w[5]>>
      ELSE IF f.i < Elements(f)
        THEN IF Skips(f)
             THEN <<<<>>, <<>>, [s EXCEPT ![Len(s)] = [f EXCEPT !.i = @ + 1]], w[4], w[5]>>
             ELSE <<<<Called(f)>>, Before(f, Tabs(w[4])),
                    [s EXCEPT ![Len(s)] = [f EXCEPT !.i = @ + 1, !.latch = TRUE]], w[4], w[5]>>
      ELSE <<<<>>, Closing(f, Tabs(w[4] - 1)), SubSeq(s, 1, Len(s) - 1), w[4] - 1, w[5]>>

\* The beginning of the walk over v, for n steps.
Walks(v, g, n) ==
  /\ n \in Nat
  /\ g[0] = Start(v)
  /\ \A k \in 0 .. n - 1 : ~Ended(g[k]) /\ g[k + 1] = After(g[k])

LEMMA EmitFollows == TypeOK /\ Emit => ~Ended(Where) /\ Where' = After(Where)
<1> SUFFICES ASSUME TypeOK, Emit PROVE ~Ended(Where) /\ Where' = After(Where)
  OBVIOUS
<1>1. /\ pending # <<>> /\ pending' = Tail(pending) /\ text' = text \o Head(pending)
      /\ UNCHANGED <<at, stack, indent>>
  BY DEF Emit, jprintf
<1> QED BY <1>1 DEF Where, Ended, After

LEMMA CallFollows == Scalar \/ Empty \/ Open => ~Ended(Where) /\ Where' = After(Where)
<1> SUFFICES ASSUME Scalar \/ Empty \/ Open PROVE ~Ended(Where) /\ Where' = After(Where)
  OBVIOUS
<1>1. at # <<>> /\ pending = <<>> /\ at' = <<>> /\ text' = text
  BY DEF Scalar, Empty, Open, Ready, output
<1>2. ~Ended(Where)
  BY <1>1 DEF Where, Ended
<1>3. CASE Scalar
  <2>1. ~Opens(at[1]) /\ pending' = Piece(at[1]) /\ stack' = stack /\ indent' = indent
    BY Zenon, <1>3 DEF Scalar, Opens, Piece
  <2> QED BY <1>1, <1>2, <2>1 DEF Where, After
<1>4. CASE Empty
  <2>1. ~Opens(at[1]) /\ pending' = Piece(at[1]) /\ stack' = stack /\ indent' = indent
    BY Zenon, <1>4 DEF Empty, Opens, Piece
  <2> QED BY <1>1, <1>2, <2>1 DEF Where, After
<1>5. CASE Open
  <2>1. Opens(at[1]) /\ pending' = Piece(at[1])
    BY Zenon, <1>5 DEF Open, Opens, Piece
  <2>2. /\ stack' = Append(stack, [value |-> at[1], i |-> 0, latch |-> FALSE])
        /\ indent' = indent + 1
    BY <1>5 DEF Open
  <2> QED BY <1>1, <1>2, <2>1, <2>2 DEF Where, After
<1> QED BY <1>3, <1>4, <1>5

LEMMA LoopFollows ==
  TypeOK /\ (Element \/ Blank \/ Entry \/ Close) => ~Ended(Where) /\ Where' = After(Where)
<1> SUFFICES ASSUME TypeOK, Element \/ Blank \/ Entry \/ Close
             PROVE  ~Ended(Where) /\ Where' = After(Where)
  OBVIOUS
<1>1. at = <<>> /\ pending = <<>> /\ stack # <<>> /\ text' = text
  BY DEF Element, Blank, Entry, Close, Looping, Ready, output
<1>2. ~Ended(Where)
  BY <1>1 DEF Where, Ended
<1>3. CommaOf(Top) = Comma
  BY DEF CommaOf, Comma
<1>4. CASE Element
  <2>1. Top.value.kind = "array" /\ Top.i < Len(Top.value.values)
    BY <1>4 DEF Element, Looping
  <2>2. /\ pending' = Comma \o Tabs(indent) /\ at' = <<Top.value.values[Top.i + 1]>>
        /\ stack' = [stack EXCEPT ![Len(stack)] = [Top EXCEPT !.i = @ + 1, !.latch = TRUE]]
        /\ indent' = indent
    BY <1>4 DEF Element, SetTop
  <2>3. /\ Top.i < Elements(Top) /\ ~Skips(Top) /\ Called(Top) = Top.value.values[Top.i + 1]
        /\ Before(Top, Tabs(indent)) = Comma \o Tabs(indent)
    BY Zenon, <1>3, <2>1 DEF Elements, Skips, Called, Before
  <2> QED BY <1>1, <1>2, <2>2, <2>3 DEF Where, After, Top
<1>5. CASE Blank
  <2>1. /\ Top.value.kind = "object" /\ Top.i < Len(Top.value.entries)
        /\ ~Top.value.entries[Top.i + 1].used
    BY <1>5 DEF Blank, Looping
  <2>2. /\ stack' = [stack EXCEPT ![Len(stack)] = [Top EXCEPT !.i = @ + 1]]
        /\ UNCHANGED <<at, pending, indent>>
    BY <1>5 DEF Blank, SetTop
  <2>3. Top.i < Elements(Top) /\ Skips(Top)
    BY Zenon, <2>1 DEF Elements, Skips
  <2> QED BY <1>1, <1>2, <2>2, <2>3 DEF Where, After, Top
<1>6. CASE Entry
  <2>1. /\ Top.value.kind = "object" /\ Top.i < Len(Top.value.entries)
        /\ Top.value.entries[Top.i + 1].used
    BY <1>6 DEF Entry, Looping
  <2>2. /\ pending' = Comma \o Tabs(indent) \o StringPieces(Top.value.entries[Top.i + 1].key)
                       \o <<<<":", " ">>>>
        /\ at' = <<Top.value.entries[Top.i + 1].value>>
        /\ stack' = [stack EXCEPT ![Len(stack)] = [Top EXCEPT !.i = @ + 1, !.latch = TRUE]]
        /\ indent' = indent
    BY <1>6 DEF Entry, SetTop
  <2>3. /\ Top.i < Elements(Top) /\ ~Skips(Top) /\ Called(Top) = Top.value.entries[Top.i + 1].value
    BY Zenon, <2>1 DEF Elements, Skips, Called
  <2>4. Before(Top, Tabs(indent)) = pending'
    BY Zenon, <1>3, <2>1, <2>2 DEF Before
  <2> QED BY <1>1, <1>2, <2>2, <2>3, <2>4 DEF Where, After, Top
<1>7. CASE Close
  <2>1. Top.i = Elements(Top)
    BY Zenon, <1>7 DEF Close, Looping, Elements
  <2>2. ~(Top.i < Elements(Top))
    <3>1. Top.i \in Nat
      <4>1. Top \in Frame
        BY SMT, <1>1 DEF TypeOK, Top
      <4> QED BY Zenon, <4>1 DEF Frame
    <3> QED BY SMT, <2>1, <3>1
  <2>3. /\ pending' = Closing(Top, Tabs(indent - 1))
        /\ stack' = SubSeq(stack, 1, Len(stack) - 1) /\ indent' = indent - 1 /\ at' = at
    BY Zenon, <1>7 DEF Close, Closing, Below
  <2> QED BY <1>1, <1>2, <2>2, <2>3 DEF Where, After, Top
<1> QED BY <1>4, <1>5, <1>6, <1>7

LEMMA LeastNatural ==
  ASSUME NEW S, S \subseteq Nat, S # {}
  PROVE  \E m \in S : \A k \in S : m <= k
<1>1. PICK m \in S : \A k \in S : ~(<<k, m>> \in OpToRel(<, Nat))
  BY NatLessThanWellFounded, WFMin
<1>2. \A k \in S : ~(k < m)
  BY <1>1 DEF OpToRel
<1> QED BY <1>2

LEMMA WalkGoesOn ==
  ASSUME NEW v, NEW g, NEW n, Walks(v, g, n), ~Ended(g[n])
  PROVE  \E h : Walks(v, h, n + 1) /\ h[n + 1] = After(g[n])
<1> DEFINE h == [k \in 0 .. n + 1 |-> IF k = n + 1 THEN After(g[n]) ELSE g[k]]
<1>1. n \in Nat /\ g[0] = Start(v) /\ \A k \in 0 .. n - 1 : ~Ended(g[k]) /\ g[k + 1] = After(g[k])
  BY DEF Walks
<1>2. h[n + 1] = After(g[n]) /\ \A k \in 0 .. n : h[k] = g[k]
  BY <1>1
<1> HIDE DEF h
<1>3. h[0] = Start(v)
  BY <1>1, <1>2
<1>4. ASSUME NEW k \in 0 .. n PROVE ~Ended(h[k]) /\ h[k + 1] = After(h[k])
  <2>1. CASE k = n
    BY <1>2, <2>1, <1>1
  <2>2. CASE k # n
    <3>1. k \in 0 .. n - 1 /\ k + 1 \in 0 .. n
      BY <1>1, <2>2
    <3> QED BY <1>1, <1>2, <3>1
  <2> QED BY <2>1, <2>2
<1>5. n + 1 \in Nat /\ 0 .. (n + 1) - 1 = 0 .. n
  BY <1>1
<1> QED BY <1>2, <1>3, <1>4, <1>5 DEF Walks

\* As far as both have come, two walks over v are at the same place.
LEMMA WalksAgree ==
  ASSUME NEW v, NEW g, NEW n, NEW h, NEW m, Walks(v, g, n), Walks(v, h, m), n <= m
  PROVE  \A k \in 0 .. n : g[k] = h[k]
<1> DEFINE S == {k \in 0 .. n : g[k] # h[k]}
<1> SUFFICES ASSUME S # {} PROVE FALSE
  OBVIOUS
<1>1. n \in Nat /\ m \in Nat
  BY DEF Walks
<1>2. PICK k \in S : \A j \in S : k <= j
  <2>1. S \subseteq Nat
    BY <1>1
  <2> HIDE DEF S
  <2> QED BY <2>1, LeastNatural
<1>3. k \in 0 .. n /\ g[k] # h[k]
  OBVIOUS
<1>4. k # 0
  BY <1>3 DEF Walks
<1>5. k - 1 \in 0 .. n - 1 /\ k - 1 \in 0 .. m - 1 /\ k - 1 \in 0 .. n /\ (k - 1) + 1 = k
  BY <1>1, <1>3, <1>4
<1>6. g[k - 1] = h[k - 1]
  BY <1>1, <1>2, <1>3, <1>5
<1> HIDE DEF S
<1>7. g[k] = After(g[k - 1])
  BY <1>5 DEF Walks
<1>8. h[k] = After(h[k - 1])
  BY <1>5 DEF Walks
<1> QED BY <1>3, <1>6, <1>7, <1>8

LEMMA OneEnd ==
  ASSUME NEW v, NEW g, NEW n, NEW h, NEW m, Walks(v, g, n), Walks(v, h, m),
         Ended(g[n]), Ended(h[m])
  PROVE  g[n] = h[m]
<1>1. n \in Nat /\ m \in Nat
  BY DEF Walks
<1>2. CASE n = m
  <2>1. n \in 0 .. n
    BY <1>1
  <2> QED BY <1>1, <1>2, <2>1, WalksAgree
<1>3. CASE n < m
  <2>1. n \in 0 .. n /\ n \in 0 .. m - 1
    BY <1>1, <1>3
  <2>2. g[n] = h[n]
    BY <1>1, <1>3, <2>1, WalksAgree
  <2> QED BY <2>1, <2>2 DEF Walks
<1>4. CASE m < n
  <2>1. m \in 0 .. m /\ m \in 0 .. n - 1
    BY <1>1, <1>4
  <2>2. h[m] = g[m]
    BY <1>1, <1>4, <2>1, WalksAgree
  <2> QED BY <2>1, <2>2 DEF Walks
<1> QED BY <1>1, <1>2, <1>3, <1>4

\* The call under way is on the walk over the value, a call that has returned is
\* at its end, and `needed` is what the end of that walk takes.
OnItsWay == pc # "idle" => \E g, n : Walks(value, g, n) /\ g[n] = Where
AtTheEnd == pc = "done" => Ended(Where) /\ returned = Returned
Measured == needed > 0 =>
              \E g, n : Walks(value, g, n) /\ Ended(g[n]) /\ needed = Len(g[n][5]) + 1

LEMMA StepOnWay ==
  ASSUME OnItsWay, pc # "idle", ~Ended(Where), Where' = After(Where), value' = value
  PROVE  OnItsWay'
<1>1. PICK g, n : Walks(value, g, n) /\ g[n] = Where
  BY DEF OnItsWay
<1>2. PICK h : Walks(value, h, n + 1) /\ h[n + 1] = After(g[n])
  BY <1>1, WalkGoesOn
<1>3. Walks(value', h, n + 1) /\ h[n + 1] = Where'
  BY <1>1, <1>2
<1> QED BY <1>3 DEF OnItsWay

LEMMA WayNext ==
  TypeOK /\ BufferOK /\ OnItsWay /\ AtTheEnd /\ Measured /\ [Next]_vars
    => (OnItsWay /\ AtTheEnd /\ Measured)'
<1> SUFFICES ASSUME TypeOK, BufferOK, OnItsWay, AtTheEnd, Measured, [Next]_vars
             PROVE  OnItsWay' /\ AtTheEnd' /\ Measured'
  OBVIOUS
<1>1. CASE Emit \/ Scalar \/ Empty \/ Open \/ Element \/ Blank \/ Entry \/ Close
  <2>1. ~Ended(Where) /\ Where' = After(Where)
    BY <1>1, EmitFollows, CallFollows, LoopFollows
  <2>2. pc = "walk" /\ UNCHANGED <<pc, value, needed>>
    BY <1>1 DEF Emit, Scalar, Empty, Open, Element, Blank, Entry, Close, Looping, Ready
  <2>3. OnItsWay'
    BY <2>1, <2>2, StepOnWay
  <2> QED BY <2>2, <2>3 DEF AtTheEnd, Measured
<1>2. CASE End
  <2>1. /\ at = <<>> /\ pending = <<>> /\ stack = <<>> /\ pc = "walk"
        /\ UNCHANGED <<at, pending, stack, indent, text, position, out_size, value>>
        /\ returned' = Returned /\ needed' = IF out_size = 0 THEN returned' ELSE needed
    BY <1>2 DEF End, Ready, walk
  <2>2. Where' = Where /\ Ended(Where) /\ Returned' = Returned
    BY <2>1 DEF Where, Ended, Returned
  <2>3. PICK g, n : Walks(value, g, n) /\ g[n] = Where
    BY <2>1 DEF OnItsWay
  <2>4. Walks(value', g, n) /\ g[n] = Where'
    BY <2>1, <2>2, <2>3
  <2>5. OnItsWay' /\ AtTheEnd'
    BY <2>1, <2>2, <2>4 DEF OnItsWay, AtTheEnd
  <2>6. CASE out_size = 0
    <3>1. needed' = position + 1
      BY SMT, <2>1, <2>6 DEF Returned, TypeOK
    <3>2. needed' = Len(g[n][5]) + 1
      BY <2>3, <3>1 DEF Where, BufferOK
    <3> QED BY <2>2, <2>3, <2>4, <2>5, <3>2 DEF Measured
  <2>7. CASE out_size # 0
    BY <2>1, <2>5, <2>7 DEF Measured
  <2> QED BY <2>6, <2>7
<1>3. ASSUME NEW size \in (0 .. MaxSize) \cup {needed}, Begin(size)
      PROVE  OnItsWay' /\ AtTheEnd' /\ Measured'
  <2>1. /\ pc' = "walk" /\ value' = value /\ needed' = needed
        /\ Where' = Start(value')
    BY <1>3 DEF Begin, Where, Start
  <2> DEFINE g == [k \in {0} |-> Start(value')]
  <2>2. Walks(value', g, 0) /\ g[0] = Where'
    BY <2>1 DEF Walks
  <2> QED BY <2>1, <2>2 DEF OnItsWay, AtTheEnd, Measured
<1>4. CASE UNCHANGED vars
  BY <1>4 DEF vars, walk, output, OnItsWay, AtTheEnd, Measured, Where, Returned
<1> QED BY <1>1, <1>2, <1>3, <1>4 DEF Next, Step

\* json.h:307: for every value, the size that a call with size 0 returns is enough
\* for the whole text and its null character.
THEOREM PrecalculatedSizeFits == Spec => []PrecalculatedFits
<1>1. Init => OnItsWay /\ AtTheEnd /\ Measured
  BY SMT DEF Init, OnItsWay, AtTheEnd, Measured
<1>2. TypeOK /\ BufferOK /\ OnItsWay /\ AtTheEnd /\ Measured => PrecalculatedFits
  <2> SUFFICES ASSUME TypeOK, BufferOK, OnItsWay, AtTheEnd, Measured,
                      pc = "done", needed > 0, out_size = needed
               PROVE  returned = Len(text) /\ Len(text) < out_size
    BY DEF PrecalculatedFits
  <2>1. PICK g, n : Walks(value, g, n) /\ Ended(g[n]) /\ needed = Len(g[n][5]) + 1
    BY DEF Measured
  <2>2. PICK h, m : Walks(value, h, m) /\ h[m] = Where
    BY DEF OnItsWay
  <2>3. g[n] = Where
    BY <2>1, <2>2, OneEnd DEF AtTheEnd
  <2>4. needed = Len(text) + 1
    BY <2>1, <2>3 DEF Where
  <2> QED BY SMT, <2>4 DEF AtTheEnd, Returned, BufferOK, TypeOK
<1> QED BY <1>1, <1>2, WayNext, BufferAlways, PTL DEF Spec

-----------------------------------------------------------------------------
(* What a reader sees of a text.                                           *)

Mark == {"out", "in", "raw"} \X Cell
Shown == Seq(Mark)
At(mode, seen) == [mode |-> mode, seen |-> seen]
In(s) == [n \in DOMAIN s |-> <<"in", s[n]>>]

\* A reader in state s who is given the cells of t is in state r then.
Leads(s, t, r) ==
  \E g : /\ g[0] = s /\ g[Len(t)] = r
         /\ \A k \in 1 .. Len(t) : g[k] = See(g[k - 1], t[k])

\* The same for the cells of all the texts in p.
Reads(s, p, r) ==
  \E g : /\ g[0] = s /\ g[Len(p)] = r
         /\ \A k \in 1 .. Len(p) : Leads(g[k - 1], p[k], g[k])

LEMMA LeadsNone == ASSUME NEW s PROVE Leads(s, <<>>, s) /\ Reads(s, <<>>, s)
<1> DEFINE g == [k \in {0} |-> s]
<1>1. g[0] = s /\ Len(<<>>) = 0 /\ 1 .. 0 = {}
  OBVIOUS
<1> QED BY <1>1 DEF Leads, Reads

LEMMA LeadsOne == ASSUME NEW s, NEW c PROVE Leads(s, <<c>>, See(s, c))
<1> DEFINE g == [k \in 0 .. 1 |-> IF k = 0 THEN s ELSE See(s, c)]
<1>1. g[0] = s /\ g[1] = See(s, c) /\ Len(<<c>>) = 1 /\ <<c>>[1] = c /\ 1 .. 1 = {1} /\ 1 - 1 = 0
  OBVIOUS
<1> HIDE DEF g
<1> QED BY <1>1 DEF Leads

LEMMA ReadsOne == ASSUME NEW s, NEW t, NEW r, Leads(s, t, r) PROVE Reads(s, <<t>>, r)
<1> DEFINE g == [k \in 0 .. 1 |-> IF k = 0 THEN s ELSE r]
<1>1. g[0] = s /\ g[1] = r /\ Len(<<t>>) = 1 /\ <<t>>[1] = t /\ 1 .. 1 = {1} /\ 1 - 1 = 0
  OBVIOUS
<1> HIDE DEF g
<1> QED BY <1>1 DEF Reads

LEMMA ConcatParts ==
  ASSUME NEW S, NEW a \in Seq(S), NEW b \in Seq(S)
  PROVE  /\ a \o b \in Seq(S) /\ Len(a \o b) = Len(a) + Len(b)
         /\ \A k \in 1 .. Len(a) : (a \o b)[k] = a[k]
         /\ \A k \in 1 .. Len(b) : (a \o b)[Len(a) + k] = b[k]
BY SMT

LEMMA LeadsConcat ==
  ASSUME NEW a \in Text, NEW b \in Text, NEW s, NEW q, NEW r, Leads(s, a, q), Leads(q, b, r)
  PROVE  Leads(s, a \o b, r)
<1>1. PICK g : /\ g[0] = s /\ g[Len(a)] = q
               /\ \A k \in 1 .. Len(a) : g[k] = See(g[k - 1], a[k])
  BY DEF Leads
<1>2. PICK h : /\ h[0] = q /\ h[Len(b)] = r
               /\ \A k \in 1 .. Len(b) : h[k] = See(h[k - 1], b[k])
  BY DEF Leads
<1> DEFINE m == Len(a)
           n == Len(b)
           f == [k \in 0 .. m + n |-> IF k <= m THEN g[k] ELSE h[k - m]]
<1>3. m \in Nat /\ n \in Nat
  BY DEF Text
<1>4. /\ Len(a \o b) = m + n
      /\ \A k \in 1 .. m : (a \o b)[k] = a[k]
      /\ \A k \in 1 .. n : (a \o b)[m + k] = b[k]
  BY ConcatParts DEF Text
<1> HIDE DEF m, n
<1>5. \A k \in 0 .. m : f[k] = g[k]
  BY <1>3
<1>6. \A k \in 0 .. n : f[m + k] = h[k]
  <2>1. ASSUME NEW k \in 0 .. n PROVE f[m + k] = h[k]
    <3>1. CASE k = 0
      BY <1>1, <1>2, <1>3, <3>1 DEF m
    <3>2. CASE k # 0
      <4>1. m + k \in 0 .. m + n /\ ~(m + k <= m) /\ (m + k) - m = k
        BY <1>3, <3>2
      <4> QED BY <4>1
    <3> QED BY <3>1, <3>2
  <2> QED BY <2>1
<1> HIDE DEF f
<1>7. f[0] = s /\ f[m + n] = r
  BY <1>1, <1>2, <1>3, <1>5, <1>6 DEF n
<1>8. ASSUME NEW k \in 1 .. m + n PROVE f[k] = See(f[k - 1], (a \o b)[k])
  <2>1. CASE k <= m
    <3>1. k \in 1 .. m /\ k \in 0 .. m /\ k - 1 \in 0 .. m
      BY <1>3, <2>1
    <3> QED BY <1>1, <1>4, <1>5, <3>1 DEF m
  <2>2. CASE ~(k <= m)
    <3>1. PICK j \in 1 .. n : k = m + j
      <4>1. k - m \in 1 .. n /\ k = m + (k - m)
        BY <1>3, <2>2
      <4> QED BY <4>1
    <3>2. j \in 0 .. n /\ j - 1 \in 0 .. n /\ (m + j) - 1 = m + (j - 1)
      BY <1>3
    <3>3. f[k] = h[j] /\ f[k - 1] = h[j - 1]
      BY <1>6, <3>1, <3>2
    <3>4. h[j] = See(h[j - 1], b[j]) /\ (a \o b)[k] = b[j]
      BY <1>2, <1>4, <3>1 DEF n
    <3> QED BY <3>3, <3>4
  <2> QED BY <2>1, <2>2
<1> QED BY <1>4, <1>7, <1>8 DEF Leads, m, n

LEMMA ReadsConcat ==
  ASSUME NEW a \in Seq(Text), NEW b \in Seq(Text), NEW s, NEW q, NEW r, Reads(s, a, q), Reads(q, b, r)
  PROVE  Reads(s, a \o b, r)
<1>1. PICK g : /\ g[0] = s /\ g[Len(a)] = q
               /\ \A k \in 1 .. Len(a) : Leads(g[k - 1], a[k], g[k])
  BY DEF Reads
<1>2. PICK h : /\ h[0] = q /\ h[Len(b)] = r
               /\ \A k \in 1 .. Len(b) : Leads(h[k - 1], b[k], h[k])
  BY DEF Reads
<1> DEFINE m == Len(a)
           n == Len(b)
           f == [k \in 0 .. m + n |-> IF k <= m THEN g[k] ELSE h[k - m]]
<1>3. m \in Nat /\ n \in Nat
  OBVIOUS
<1>4. /\ Len(a \o b) = m + n
      /\ \A k \in 1 .. m : (a \o b)[k] = a[k]
      /\ \A k \in 1 .. n : (a \o b)[m + k] = b[k]
  BY ConcatParts
<1> HIDE DEF m, n
<1>5. \A k \in 0 .. m : f[k] = g[k]
  BY <1>3
<1>6. \A k \in 0 .. n : f[m + k] = h[k]
  <2>1. ASSUME NEW k \in 0 .. n PROVE f[m + k] = h[k]
    <3>1. CASE k = 0
      BY <1>1, <1>2, <1>3, <3>1 DEF m
    <3>2. CASE k # 0
      <4>1. m + k \in 0 .. m + n /\ ~(m + k <= m) /\ (m + k) - m = k
        BY <1>3, <3>2
      <4> QED BY <4>1
    <3> QED BY <3>1, <3>2
  <2> QED BY <2>1
<1> HIDE DEF f
<1>7. f[0] = s /\ f[m + n] = r
  BY <1>1, <1>2, <1>3, <1>5, <1>6 DEF n
<1>8. ASSUME NEW k \in 1 .. m + n PROVE Leads(f[k - 1], (a \o b)[k], f[k])
  <2>1. CASE k <= m
    <3>1. k \in 1 .. m /\ k \in 0 .. m /\ k - 1 \in 0 .. m
      BY <1>3, <2>1
    <3> QED BY <1>1, <1>4, <1>5, <3>1 DEF m
  <2>2. CASE ~(k <= m)
    <3>1. PICK j \in 1 .. n : k = m + j
      <4>1. k - m \in 1 .. n /\ k = m + (k - m)
        BY <1>3, <2>2
      <4> QED BY <4>1
    <3>2. j \in 0 .. n /\ j - 1 \in 0 .. n /\ (m + j) - 1 = m + (j - 1)
      BY <1>3
    <3>3. f[k] = h[j] /\ f[k - 1] = h[j - 1]
      BY <1>6, <3>1, <3>2
    <3>4. Leads(h[j - 1], b[j], h[j]) /\ (a \o b)[k] = b[j]
      BY <1>2, <1>4, <3>1 DEF n
    <3> QED BY <3>3, <3>4
  <2> QED BY <2>1, <2>2
<1> QED BY <1>4, <1>7, <1>8 DEF Reads, m, n

\* The first of the texts is printed.
LEMMA ReadsHead ==
  ASSUME NEW p \in Seq(Text), p # <<>>, NEW t \in Text, NEW o, NEW s, NEW r,
         Leads(o, t, s), Reads(s, p, r)
  PROVE  \E q : Leads(o, t \o Head(p), q) /\ Reads(q, Tail(p), r)
<1>1. PICK g : /\ g[0] = s /\ g[Len(p)] = r
               /\ \A k \in 1 .. Len(p) : Leads(g[k - 1], p[k], g[k])
  BY DEF Reads
<1>2. /\ Len(p) \in Nat /\ Len(p) >= 1 /\ Len(Tail(p)) = Len(p) - 1 /\ Head(p) = p[1] /\ Head(p) \in Text
      /\ \A k \in 1 .. Len(p) - 1 : Tail(p)[k] = p[k + 1]
  BY SMT
<1>3. Leads(s, Head(p), g[1])
  <2>1. 1 \in 1 .. Len(p) /\ 1 - 1 = 0
    BY <1>2
  <2> QED BY <1>1, <1>2, <2>1
<1>4. Leads(o, t \o Head(p), g[1])
  BY <1>2, <1>3, LeadsConcat
<1> DEFINE h == [k \in 0 .. Len(p) - 1 |-> g[k + 1]]
<1>5. h[0] = g[1] /\ h[Len(p) - 1] = r
  BY <1>1, <1>2
<1>6. ASSUME NEW k \in 1 .. Len(p) - 1 PROVE Leads(h[k - 1], Tail(p)[k], h[k])
  <2>1. k + 1 \in 1 .. Len(p) /\ (k + 1) - 1 = k /\ k - 1 \in 0 .. Len(p) - 1 /\ k \in 0 .. Len(p) - 1
        /\ (k - 1) + 1 = k
    BY <1>2
  <2>2. h[k - 1] = g[k] /\ h[k] = g[k + 1]
    BY <2>1
  <2> QED BY <1>1, <1>2, <2>1, <2>2
<1> HIDE DEF h
<1>7. Reads(g[1], Tail(p), r)
  BY <1>2, <1>5, <1>6 DEF Reads
<1> QED BY <1>4, <1>7

Fresh == At("outside", <<>>)

LEMMA ReadIs == ASSUME NEW t \in Text, NEW z, NEW mode, Leads(Fresh, t, At(mode, z)) PROVE Read(t) = z
<1> DEFINE Rule(f) == [n \in 0 .. Len(t) |->
                         IF n = 0 THEN [mode |-> "outside", seen |-> <<>>] ELSE See(f[n - 1], t[n])]
           F == CHOOSE f : f = Rule(f)
<1>1. PICK g : /\ g[0] = Fresh /\ g[Len(t)] = At(mode, z)
               /\ \A k \in 1 .. Len(t) : g[k] = See(g[k - 1], t[k])
  BY DEF Leads
<1>2. Len(t) \in Nat
  BY DEF Text
<1> DEFINE h == [n \in 0 .. Len(t) |-> g[n]]
<1>3. ASSUME NEW n \in 0 .. Len(t)
      PROVE  g[n] = IF n = 0 THEN [mode |-> "outside", seen |-> <<>>] ELSE See(h[n - 1], t[n])
  <2>1. CASE n = 0
    BY <1>1, <2>1 DEF Fresh, At
  <2>2. CASE n # 0
    <3>1. n \in 1 .. Len(t) /\ n - 1 \in 0 .. Len(t)
      BY <1>2, <2>2
    <3>2. h[n - 1] = g[n - 1]
      BY <3>1
    <3> QED BY <1>1, <2>2, <3>1, <3>2
  <2> QED BY <2>1, <2>2
<1>4. h = Rule(h)
  BY <1>3
<1>5. F = Rule(F)
  BY <1>4
<1>6. Read(t) = F[Len(t)].seen
  BY DEF Read
<1>7. \A n \in 0 .. Len(t) : F[n] = IF n = 0 THEN [mode |-> "outside", seen |-> <<>>] ELSE See(F[n - 1], t[n])
  BY <1>5
<1> HIDE DEF F
<1>8. \A n \in 0 .. Len(t) : F[n] = g[n]
  <2> DEFINE S == {n \in 0 .. Len(t) : F[n] # g[n]}
  <2> SUFFICES ASSUME S # {} PROVE FALSE
    OBVIOUS
  <2>1. S \subseteq Nat
    BY <1>2
  <2>2. PICK n \in S : \A k \in S : n <= k
    <3> HIDE DEF S
    <3> QED BY <2>1, LeastNatural
  <2>3. n \in 0 .. Len(t) /\ F[n] # g[n]
    OBVIOUS
  <2>4. n # 0
    BY <1>1, <1>7, <2>3 DEF Fresh, At
  <2>5. n \in 1 .. Len(t) /\ n - 1 \in 0 .. Len(t)
    BY <1>2, <2>3, <2>4
  <2>6. F[n - 1] = g[n - 1]
    BY <1>2, <2>2, <2>5
  <2> QED BY <1>1, <1>7, <2>3, <2>4, <2>5, <2>6
<1>9. Len(t) \in 0 .. Len(t)
  BY <1>2
<1> QED BY <1>1, <1>6, <1>8, <1>9 DEF At

-----------------------------------------------------------------------------
(* One cell, and the sequences of what was seen.                           *)

LEMMA ShownFacts ==
  ASSUME NEW x \in Shown, NEW y \in Shown, NEW z \in Shown
  PROVE  /\ x \o y \in Shown /\ (x \o y) \o z = x \o (y \o z)
         /\ x \o <<>> = x /\ <<>> \o x = x /\ <<>> \in Shown
         /\ x \o y = <<>> => x = <<>> /\ y = <<>>
<1>1. x \o y \in Shown /\ x \o <<>> = x /\ <<>> \o x = x /\ <<>> \in Shown
  BY SMT DEF Shown
<1>2. (x \o y) \o z = x \o (y \o z)
  BY SMT DEF Shown
<1>3. x \o y = <<>> => x = <<>> /\ y = <<>>
  BY SMT DEF Shown
<1> QED BY <1>1, <1>2, <1>3

LEMMA ShownAssoc == \A x, y, z \in Shown : (x \o y) \o z = x \o (y \o z)
BY SMT DEF Shown

LEMMA ShownNotEmpty == \A x, y \in Shown : y # <<>> => x \o y # <<>>
BY ShownFacts

LEMMA MarkType == ASSUME NEW c \in Cell PROVE <<"out", c>> \in Mark /\ <<"in", c>> \in Mark
BY DEF Mark

LEMMA OutType == ASSUME NEW t \in Text PROVE Out(t) \in Shown /\ In(t) \in Shown
<1>1. Len(t) \in Nat /\ DOMAIN t = 1 .. Len(t) /\ \A n \in 1 .. Len(t) : t[n] \in Cell
  BY SMT DEF Text
<1>2. ASSUME NEW f \in [1 .. Len(t) -> Mark] PROVE f \in Seq(Mark)
  BY SMT, <1>1
<1>3. Out(t) \in [1 .. Len(t) -> Mark] /\ In(t) \in [1 .. Len(t) -> Mark]
  BY <1>1, MarkType DEF Out, In
<1> QED BY <1>2, <1>3 DEF Shown

LEMMA OutOne == ASSUME NEW c PROVE Out(<<c>>) = <<<<"out", c>>>>
BY SMT DEF Out

LEMMA AppendOne ==
  ASSUME NEW z \in Shown, NEW m \in Mark PROVE Append(z, m) = z \o <<m>> /\ <<m>> \in Shown
BY SMT DEF Shown

LEMMA SeeOutside ==
  ASSUME NEW c \in Cell, NEW z \in Shown
  PROVE  /\ c \in White => See(At("outside", z), c) = At("outside", z)
         /\ c \notin White /\ c # "quote" => See(At("outside", z), c) = At("outside", z \o Out(<<c>>))
         /\ See(At("outside", z), "quote") = At("inside", z \o Out(<<"quote">>))
<1> DEFINE s == At("outside", z)
<1>1. s.mode = "outside" /\ s.seen = z
  BY DEF At
<1>2. \A d \in Cell : Append(z, <<"out", d>>) = z \o Out(<<d>>)
  BY AppendOne, OutOne, MarkType
<1>3. "quote" \in Cell /\ "quote" \notin White
  BY CellsOfEscapes DEF White
<1> HIDE DEF s
<1>4. \A d : d \in White => See(s, d) = s
  BY Zenon, <1>1 DEF See
<1>5. \A d : d \notin White =>
         See(s, d) = [mode |-> IF d = "quote" THEN "inside" ELSE "outside",
                      seen |-> Append(s.seen, <<"out", d>>)]
  BY Zenon, <1>1 DEF See
<1>6. See(s, "quote") = At("inside", z \o Out(<<"quote">>))
  BY <1>1, <1>2, <1>3, <1>5 DEF At
<1>7. c \notin White /\ c # "quote" => See(s, c) = At("outside", z \o Out(<<c>>))
  BY <1>1, <1>2, <1>5 DEF At
<1> QED BY <1>4, <1>6, <1>7 DEF s

LEMMA SetToSeqOne == ASSUME NEW x PROVE SetToSeq({x}) = <<x>>
<1>1. Cardinality({x}) = 1
  BY FS_Singleton
<1>2. \A f \in [1 .. 1 -> {x}] : f = <<x>>
  <2>1. ASSUME NEW f \in [1 .. 1 -> {x}] PROVE f = <<x>>
    <3>1. DOMAIN f = 1 .. 1 /\ f[1] = x
      OBVIOUS
    <3> QED BY SMT, <3>1
  <2> QED BY <2>1
<1>3. <<x>> \in [1 .. 1 -> {x}] /\ IsInjective(<<x>>)
  BY SMT DEF IsInjective
<1> QED BY <1>1, <1>2, <1>3 DEF SetToSeq

LEMMA SeeInside ==
  ASSUME NEW c \in Cell, NEW z \in Shown
  PROVE  /\ See(At("inside", z), "quote") = At("outside", z \o Out(<<"quote">>))
         /\ See(At("inside", z), "backslash") = At("escape", z)
         /\ c \notin Control /\ c \notin {"quote", "backslash"} =>
              See(At("inside", z), c) = At("inside", z \o <<<<"in", c>>>>)
         /\ c \in DOMAIN Letter =>
              See(At("escape", z), Letter[c]) = At("inside", z \o <<<<"in", c>>>>)
<1> DEFINE s == At("inside", z)
           e == At("escape", z)
<1>1. s.mode = "inside" /\ s.seen = z /\ e.mode = "escape" /\ e.seen = z
  BY DEF At
<1>2. [s EXCEPT !.mode = "escape"] = e
  BY DEF At
<1>3. \A w : [s EXCEPT !.seen = w] = At("inside", w)
  BY DEF At
<1>4. Append(z, <<"out", "quote">>) = z \o Out(<<"quote">>)
  BY AppendOne, OutOne, MarkType, CellsOfEscapes
<1>5. Append(z, <<"in", c>>) = z \o <<<<"in", c>>>>
  BY AppendOne, MarkType
<1> HIDE DEF s, e
<1>6. See(s, "quote") = At("outside", z \o Out(<<"quote">>))
  <2>1. See(s, "quote") = [mode |-> "outside", seen |-> Append(s.seen, <<"out", "quote">>)]
    BY Zenon, <1>1 DEF See
  <2> QED BY <1>1, <1>4, <2>1 DEF At
<1>7. See(s, "backslash") = e
  BY Zenon, <1>1, <1>2 DEF See
<1>8. ASSUME c \notin Control, c \notin {"quote", "backslash"}
      PROVE  See(s, c) = At("inside", z \o <<<<"in", c>>>>)
  <2>1. See(s, c) = [s EXCEPT !.seen = Append(@, <<IF c \in Control THEN "raw" ELSE "in", c>>)]
    BY Zenon, <1>1, <1>8 DEF See
  <2>2. See(s, c) = [s EXCEPT !.seen = Append(z, <<"in", c>>)]
    BY <1>1, <1>8, <2>1
  <2> QED BY <1>3, <1>5, <2>2
<1>9. ASSUME c \in DOMAIN Letter
      PROVE  See(e, Letter[c]) = At("inside", z \o <<<<"in", c>>>>)
  <2> DEFINE D == {<<"in", d>> : d \in {d \in DOMAIN Letter : Letter[d] = Letter[c]}}
  <2>1. See(e, Letter[c]) = [mode |-> "inside", seen |-> e.seen \o SetToSeq(D)]
    BY Zenon, <1>1 DEF See
  <2>2. \A d \in DOMAIN Letter : Letter[d] = Letter[c] => d = c
    BY <1>9 DEF Letter
  <2>3. D = {<<"in", c>>}
    BY <1>9, <2>2
  <2> HIDE DEF D
  <2>4. SetToSeq(D) = <<<<"in", c>>>>
    BY <2>3, SetToSeqOne
  <2> QED BY <1>1, <2>1, <2>4 DEF At
<1> QED BY <1>6, <1>7, <1>8, <1>9 DEF s, e

-----------------------------------------------------------------------------
(* What is seen of the pieces that are printed.                            *)

Upto(mark, s, k) == [n \in 1 .. k |-> <<mark, s[n]>>]

LEMMA UptoFacts ==
  ASSUME NEW s \in Text, NEW mark \in {"in", "out"}
  PROVE  /\ Upto(mark, s, 0) = <<>>
         /\ Upto("in", s, Len(s)) = In(s) /\ Upto("out", s, Len(s)) = Out(s)
         /\ \A k \in 0 .. Len(s) : Upto(mark, s, k) \in Shown
         /\ \A k \in 1 .. Len(s) : Upto(mark, s, k) = Upto(mark, s, k - 1) \o <<<<mark, s[k]>>>>
<1>1. Len(s) \in Nat /\ DOMAIN s = 1 .. Len(s) /\ \A n \in 1 .. Len(s) : s[n] \in Cell
  BY SMT DEF Text
<1>0. \A n \in 1 .. Len(s) : <<mark, s[n]>> \in Mark
  BY <1>1 DEF Mark
<1>2. Upto(mark, s, 0) = <<>>
  BY SMT DEF Upto
<1>3. Upto("in", s, Len(s)) = In(s) /\ Upto("out", s, Len(s)) = Out(s)
  BY <1>1 DEF Upto, In, Out
<1>4. ASSUME NEW k \in 0 .. Len(s) PROVE Upto(mark, s, k) \in Shown
  <2>1. k \in Nat /\ \A n \in 1 .. k : n \in 1 .. Len(s)
    BY <1>1
  <2>2. \A n \in 1 .. k : <<mark, s[n]>> \in Mark
    BY <1>0, <2>1
  <2> QED BY SMT, <2>1, <2>2 DEF Upto, Shown
<1>5. ASSUME NEW k \in 1 .. Len(s)
      PROVE  Upto(mark, s, k) = Upto(mark, s, k - 1) \o <<<<mark, s[k]>>>>
  <2> DEFINE f == [n \in 1 .. k |-> <<mark, s[n]>>]
             h == [n \in 1 .. k - 1 |-> <<mark, s[n]>>]
  <2>1. k \in Nat /\ k - 1 \in Nat
    BY <1>1
  <2>2. h \in Seq(Mark) /\ Len(h) = k - 1
    <3>1. \A n \in 1 .. k - 1 : <<mark, s[n]>> \in Mark
      <4>1. \A n \in 1 .. k - 1 : n \in 1 .. Len(s)
        BY <1>1
      <4> QED BY <1>0, <4>1
    <3> QED BY SMT, <2>1, <3>1
  <2>3. \A m \in Mark : /\ DOMAIN (h \o <<m>>) = 1 .. k
                        /\ (h \o <<m>>)[k] = m
                        /\ \A n \in 1 .. k - 1 : (h \o <<m>>)[n] = h[n]
    <3> HIDE DEF h
    <3> QED BY SMT, <2>1, <2>2
  <2>4. <<mark, s[k]>> \in Mark
    BY <1>1, MarkType
  <2>5. \A n \in 1 .. k : n = k \/ n \in 1 .. k - 1
    BY <2>1
  <2>6. \A n \in 1 .. k : f[n] = (h \o <<<<mark, s[k]>>>>)[n]
    BY <2>3, <2>4, <2>5
  <2>7. DOMAIN f = 1 .. k /\ DOMAIN (h \o <<<<mark, s[k]>>>>) = 1 .. k
    BY <2>3, <2>4
  <2>8. f = h \o <<<<mark, s[k]>>>>
    <3>1. h \o <<<<mark, s[k]>>>> = [n \in 1 .. k |-> (h \o <<<<mark, s[k]>>>>)[n]]
      <4>1. h \o <<<<mark, s[k]>>>> \in Seq(Mark)
        BY <2>2, <2>4, AppendOne, ConcatParts
      <4> HIDE DEF h
      <4>2. ASSUME NEW q \in Seq(Mark), DOMAIN q = 1 .. k PROVE q = [n \in 1 .. k |-> q[n]]
        BY SMT, <4>2
      <4> QED BY <4>1, <4>2, <2>7
    <3> HIDE DEF h
    <3> QED BY <2>6, <3>1
  <2> QED BY <2>8 DEF Upto
<1> QED BY <1>2, <1>3, <1>4, <1>5

LEMMA LeadsTwo ==
  ASSUME NEW a \in Cell, NEW b \in Cell, NEW s
  PROVE  Leads(s, <<a, b>>, See(See(s, a), b))
<1> DEFINE g == [k \in 0 .. 2 |-> IF k = 0 THEN s ELSE IF k = 1 THEN See(s, a) ELSE See(See(s, a), b)]
<1>1. /\ g[0] = s /\ g[1] = See(s, a) /\ g[2] = See(See(s, a), b)
      /\ \A k \in 1 .. 2 : k = 1 \/ k = 2
      /\ 1 - 1 = 0 /\ 2 - 1 = 1
  OBVIOUS
<1>2. Len(<<a, b>>) = 2 /\ <<a, b>>[1] = a /\ <<a, b>>[2] = b
  OBVIOUS
<1> HIDE DEF g
<1>3. \A k \in 1 .. 2 : g[k] = See(g[k - 1], <<a, b>>[k])
  BY Zenon, <1>1, <1>2
<1> QED BY Zenon, <1>1, <1>2, <1>3 DEF Leads

LEMMA EscapeLeads ==
  ASSUME NEW c \in Cell, c # "ctl", NEW z \in Shown
  PROVE  Leads(At("inside", z), Escaped(c), At("inside", z \o <<<<"in", c>>>>))
<1>1. CASE c \in DOMAIN Letter
  <2>1. Letter[c] \in Cell
    <3>1. Letter[c] \in {"quote", "backslash", "slash", "n", "t"}
      BY Zenon, <1>1 DEF Letter
    <3> QED BY Zenon, <3>1, CellsOfEscapes
  <2>2. Escaped(c) = <<"backslash", Letter[c]>>
    BY Zenon, <1>1 DEF Escaped
  <2>3. Leads(At("inside", z), Escaped(c), See(See(At("inside", z), "backslash"), Letter[c]))
    BY <2>1, <2>2, LeadsTwo, CellsOfEscapes
  <2>4. See(At("inside", z), "backslash") = At("escape", z)
    BY SeeInside
  <2>5. See(At("escape", z), Letter[c]) = At("inside", z \o <<<<"in", c>>>>)
    BY <1>1, SeeInside
  <2> QED BY Zenon, <2>3, <2>4, <2>5
<1>2. CASE c \notin DOMAIN Letter
  <2>1. Escaped(c) = <<c>>
    BY Zenon, <1>2 DEF Escaped
  <2>2. c \notin Control /\ c \notin {"quote", "backslash"}
    BY <1>2 DEF Letter, Control
  <2> QED BY <2>1, <2>2, LeadsOne, SeeInside
<1> QED BY <1>1, <1>2

\* No character that JSON does not have a short escape for.
Plain(t) == \A n \in 1 .. Len(t) : t[n] # "ctl"

LEMMA StringReads ==
  ASSUME NEW s \in Text, Plain(s), NEW z \in Shown
  PROVE  Reads(At("outside", z), StringPieces(s), At("outside", z \o Str(s)))
<1> DEFINE q == <<<<"quote">>>>
           slow == \E n \in 1 .. Len(s) : s[n] \in MustBeEscaped
           middle == IF slow THEN [n \in 1 .. Len(s) |-> Escaped(s[n])] ELSE <<s>>
           y == z \o Out(<<"quote">>)
<1>1. Len(s) \in Nat /\ \A n \in 1 .. Len(s) : s[n] \in Cell
  BY SMT DEF Text
<1>2. "quote" \in Cell /\ <<"quote">> \in Text /\ q \in Seq(Text) /\ Out(<<"quote">>) \in Shown
  BY CellsOfEscapes, PieceType, OutType
<1>0. z \in Shown
  OBVIOUS
<1>3. y \in Shown /\ In(s) \in Shown
  BY <1>2, ShownFacts, OutType
<1> HIDE DEF y
<1>4. Reads(At("outside", z), q, At("inside", y))
  BY <1>2, SeeOutside, LeadsOne, ReadsOne DEF y
<1>5. \A k \in 0 .. Len(s) : y \o Upto("in", s, k) \in Shown
  BY <1>3, UptoFacts, ShownFacts
<1>6. ASSUME NEW k \in 1 .. Len(s)
      PROVE  (y \o Upto("in", s, k - 1)) \o <<<<"in", s[k]>>>> = y \o Upto("in", s, k)
  <2>1. k - 1 \in 0 .. Len(s)
    BY <1>1
  <2>2. Upto("in", s, k - 1) \in Shown /\ <<<<"in", s[k]>>>> \in Shown
    BY <1>1, <2>1, UptoFacts, AppendOne, MarkType, <1>3
  <2>3. Upto("in", s, k) = Upto("in", s, k - 1) \o <<<<"in", s[k]>>>>
    BY UptoFacts
  <2>4. (y \o Upto("in", s, k - 1)) \o <<<<"in", s[k]>>>>
          = y \o (Upto("in", s, k - 1) \o <<<<"in", s[k]>>>>)
    BY ZenonT(60), <1>3, <2>2, ShownAssoc
  <2> QED BY Zenon, <2>3, <2>4
<1> DEFINE g == [k \in 0 .. Len(s) |-> At("inside", y \o Upto("in", s, k))]
<1>7. g[0] = At("inside", y) /\ g[Len(s)] = At("inside", y \o In(s))
  <2>1. 0 \in 0 .. Len(s) /\ Len(s) \in 0 .. Len(s)
    BY <1>1
  <2>2. g[0] = At("inside", y \o Upto("in", s, 0)) /\ g[Len(s)] = At("inside", y \o Upto("in", s, Len(s)))
    BY <2>1
  <2> QED BY <2>2, <1>3, UptoFacts, ShownFacts
<1>8. ASSUME NEW k \in 1 .. Len(s)
      PROVE  /\ g[k - 1] = At("inside", y \o Upto("in", s, k - 1))
             /\ g[k] = At("inside", (y \o Upto("in", s, k - 1)) \o <<<<"in", s[k]>>>>)
             /\ y \o Upto("in", s, k - 1) \in Shown /\ s[k] \in Cell
  <2>1. k - 1 \in 0 .. Len(s) /\ k \in 0 .. Len(s)
    BY <1>1
  <2> QED BY <1>1, <1>5, <1>6, <2>1
<1> HIDE DEF g
<1>9. middle \in Seq(Text) /\ Reads(At("inside", y), middle, At("inside", y \o In(s)))
  <2>1. CASE slow
    <3> DEFINE p == [n \in 1 .. Len(s) |-> Escaped(s[n])]
    <3>1. p \in Seq(Text) /\ Len(p) = Len(s)
      <4>1. \A n \in 1 .. Len(s) : Escaped(s[n]) \in Text
        BY <1>1, EscapedType
      <4> QED BY SMT, <1>1, <4>1
    <3>2. \A k \in 1 .. Len(s) : p[k] = Escaped(s[k])
      OBVIOUS
    <3> HIDE DEF p
    <3>3. ASSUME NEW k \in 1 .. Len(p) PROVE Leads(g[k - 1], p[k], g[k])
      <4>1. k \in 1 .. Len(s) /\ s[k] # "ctl"
        BY <3>1 DEF Plain
      <4> QED BY <1>8, <3>2, <4>1, EscapeLeads
    <3>4. Reads(At("inside", y), p, At("inside", y \o In(s)))
      BY <1>7, <3>1, <3>3 DEF Reads
    <3>5. middle = p
      BY <2>1 DEF p
    <3> QED BY <3>1, <3>4, <3>5
  <2>2. CASE ~slow
    <3>1. ASSUME NEW k \in 1 .. Len(s) PROVE g[k] = See(g[k - 1], s[k])
      <4>1. s[k] \notin MustBeEscaped
        BY <2>2
      <4>2. s[k] \notin Control /\ s[k] \notin {"quote", "backslash"}
        BY <4>1 DEF MustBeEscaped
      <4> QED BY <1>8, <4>2, SeeInside
    <3>2. Leads(At("inside", y), s, At("inside", y \o In(s)))
      BY <1>7, <3>1 DEF Leads
    <3>3. middle = <<s>> /\ <<s>> \in Seq(Text)
      BY <2>2
    <3> QED BY <3>2, <3>3, ReadsOne
  <2> QED BY <2>1, <2>2
<1>10. Reads(At("inside", y \o In(s)), q, At("outside", (y \o In(s)) \o Out(<<"quote">>)))
  <2>1. y \o In(s) \in Shown
    BY <1>3, ShownFacts
  <2> QED BY <1>2, <2>1, SeeInside, LeadsOne, ReadsOne
<1>11. (y \o In(s)) \o Out(<<"quote">>) = z \o Str(s)
  <2>1. y \o In(s) = z \o (Out(<<"quote">>) \o In(s))
    BY Zenon, <1>0, <1>2, <1>3, ShownAssoc DEF y
  <2>2. Out(<<"quote">>) \o In(s) \in Shown
    BY <1>2, <1>3, ShownFacts
  <2>3. (z \o (Out(<<"quote">>) \o In(s))) \o Out(<<"quote">>)
          = z \o ((Out(<<"quote">>) \o In(s)) \o Out(<<"quote">>))
    BY Zenon, <1>0, <1>2, <2>2, ShownAssoc
  <2> QED BY <2>1, <2>3 DEF Str, In
<1>12. StringPieces(s) = (q \o middle) \o q
  BY DEF StringPieces
<1> HIDE DEF q, middle
<1>13. q \o middle \in Seq(Text)
  BY <1>2, <1>9, ConcatType
<1>14. Reads(At("outside", z), q \o middle, At("inside", y \o In(s)))
  BY <1>2, <1>4, <1>9, ReadsConcat
<1> QED BY <1>2, <1>10, <1>11, <1>12, <1>13, <1>14, ReadsConcat

\* Numbers and literals are neither strings nor white space.
Bare(t) == \A n \in 1 .. Len(t) : t[n] \notin White /\ t[n] # "quote"

LEMMA BareLeads ==
  ASSUME NEW s \in Text, Bare(s), NEW z \in Shown
  PROVE  Leads(At("outside", z), s, At("outside", z \o Out(s)))
<1>1. Len(s) \in Nat /\ \A n \in 1 .. Len(s) : s[n] \in Cell
  BY SMT DEF Text
<1>2. \A k \in 0 .. Len(s) : Upto("out", s, k) \in Shown
  BY UptoFacts
<1>3. \A k \in 0 .. Len(s) : z \o Upto("out", s, k) \in Shown
  BY <1>2, ShownFacts
<1> DEFINE g == [k \in 0 .. Len(s) |-> At("outside", z \o Upto("out", s, k))]
<1>4. g[0] = At("outside", z) /\ g[Len(s)] = At("outside", z \o Out(s))
  <2>1. 0 \in 0 .. Len(s) /\ Len(s) \in 0 .. Len(s)
    BY <1>1
  <2>2. g[0] = At("outside", z \o Upto("out", s, 0)) /\ g[Len(s)] = At("outside", z \o Upto("out", s, Len(s)))
    BY <2>1
  <2> QED BY <2>2, UptoFacts, ShownFacts
<1>5. ASSUME NEW k \in 1 .. Len(s) PROVE g[k] = See(g[k - 1], s[k])
  <2>1. k - 1 \in 0 .. Len(s) /\ k \in 0 .. Len(s)
    BY <1>1
  <2>2. Upto("out", s, k) = Upto("out", s, k - 1) \o Out(<<s[k]>>)
    BY UptoFacts, OutOne
  <2>3. Out(<<s[k]>>) \in Shown
    BY <1>1, OutType, PieceType
  <2>4. (z \o Upto("out", s, k - 1)) \o Out(<<s[k]>>) = z \o (Upto("out", s, k - 1) \o Out(<<s[k]>>))
    BY <1>2, <2>1, <2>3, ShownAssoc
  <2>5. (z \o Upto("out", s, k - 1)) \o Out(<<s[k]>>) = z \o Upto("out", s, k)
    BY Zenon, <2>2, <2>4
  <2>6. g[k - 1] = At("outside", z \o Upto("out", s, k - 1)) /\ g[k] = At("outside", z \o Upto("out", s, k))
    BY <2>1
  <2> HIDE DEF g
  <2>7. s[k] \in Cell /\ s[k] \notin White /\ s[k] # "quote" /\ z \o Upto("out", s, k - 1) \in Shown
    BY <1>1, <1>3, <2>1 DEF Bare
  <2>8. See(g[k - 1], s[k]) = At("outside", (z \o Upto("out", s, k - 1)) \o Out(<<s[k]>>))
    BY <2>6, <2>7, SeeOutside
  <2> QED BY <2>5, <2>6, <2>8
<1> HIDE DEF g
<1> QED BY <1>4, <1>5 DEF Leads

LEMMA TabsRead == ASSUME NEW n \in Int, NEW z \in Shown PROVE Reads(At("outside", z), Tabs(n), At("outside", z))
<1> DEFINE s == At("outside", z)
           p == Tabs(n)
<1>1. p \in Seq(Text) /\ \A k \in 1 .. Len(p) : p[k] = <<"tab">>
  <2>1. \A k \in DOMAIN p : p[k] = <<"tab">>
    BY DEF Tabs
  <2>2. p \in Seq(Text)
    BY TabsType
  <2>3. DOMAIN p = 1 .. Len(p)
    <3> HIDE DEF p
    <3> QED BY <2>2
  <2> QED BY <2>1, <2>2, <2>3
<1>2. Leads(s, <<"tab">>, s)
  <2>1. "tab" \in White /\ "tab" \in Cell
    BY CellsOfEscapes DEF White
  <2> QED BY <2>1, LeadsOne, SeeOutside
<1> HIDE DEF s, p
<1> DEFINE g == [k \in 0 .. Len(p) |-> s]
<1>3. Len(p) \in Nat
  BY <1>1
<1>4. g[0] = s /\ g[Len(p)] = s /\ \A k \in 1 .. Len(p) : g[k - 1] = s /\ g[k] = s
  BY <1>3
<1> HIDE DEF g
<1>5. \A k \in 1 .. Len(p) : Leads(g[k - 1], p[k], g[k])
  BY Zenon, <1>1, <1>2, <1>4
<1>6. Reads(s, p, s)
  BY Zenon, <1>4, <1>5 DEF Reads
<1> QED BY <1>6 DEF s, p

LEMMA SignsOf ==
  \A c \in {"[", "]", "{", "}", ",", ":"} : c \in Cell /\ c \notin White /\ c # "quote" /\ <<c>> \in Text
<1>1. \A c \in {"[", "]", "{", "}", ",", ":"} : c \in Cell /\ c \notin White /\ c # "quote"
  BY CellsOfEscapes DEF White
<1> QED BY <1>1, PieceType

\* A sign with white space after it, or alone.
LEMMA SignReads ==
  ASSUME NEW c \in {"[", "]", "{", "}", ",", ":"}, NEW w \in White, NEW z \in Shown
  PROVE  /\ Reads(At("outside", z), <<<<c, w>>>>, At("outside", z \o Out(<<c>>)))
         /\ Reads(At("outside", z), <<<<c>>>>, At("outside", z \o Out(<<c>>)))
         /\ z \o Out(<<c>>) \in Shown
<1>1. c \in Cell /\ c \notin White /\ c # "quote" /\ <<c>> \in Text
  BY SignsOf
<1>2. w \in Cell
  BY CellsOfEscapes DEF White
<1>3. Out(<<c>>) \in Shown /\ z \o Out(<<c>>) \in Shown
  BY <1>1, OutType, ShownFacts
<1>4. See(At("outside", z), c) = At("outside", z \o Out(<<c>>))
  BY <1>1, SeeOutside
<1>5. See(At("outside", z \o Out(<<c>>)), w) = At("outside", z \o Out(<<c>>))
  BY <1>2, <1>3, SeeOutside
<1>6. Leads(At("outside", z), <<c>>, At("outside", z \o Out(<<c>>)))
  BY <1>4, LeadsOne
<1>7. Leads(At("outside", z), <<c, w>>, At("outside", z \o Out(<<c>>)))
  BY <1>1, <1>2, <1>4, <1>5, LeadsTwo
<1> QED BY <1>3, <1>6, <1>7, ReadsOne

LEMMA LeadsThree ==
  ASSUME NEW a, NEW b, NEW c, NEW s
  PROVE  Leads(s, <<a, b, c>>, See(See(See(s, a), b), c))
<1> DEFINE s1 == See(s, a)
           s2 == See(s1, b)
           s3 == See(s2, c)
<1>1. See(s, a) = s1 /\ See(s1, b) = s2 /\ See(s2, c) = s3
  OBVIOUS
<1> HIDE DEF s1, s2, s3
<1> DEFINE g == [k \in 0 .. 3 |-> IF k = 0 THEN s ELSE IF k = 1 THEN s1 ELSE IF k = 2 THEN s2 ELSE s3]
<1>2. /\ g[0] = s /\ g[1] = s1 /\ g[2] = s2 /\ g[3] = s3
      /\ \A k \in 1 .. 3 : k = 1 \/ k = 2 \/ k = 3
      /\ 1 - 1 = 0 /\ 2 - 1 = 1 /\ 3 - 1 = 2
  OBVIOUS
<1>3. Len(<<a, b, c>>) = 3 /\ <<a, b, c>>[1] = a /\ <<a, b, c>>[2] = b /\ <<a, b, c>>[3] = c
  OBVIOUS
<1> HIDE DEF g
<1>4. \A k \in 1 .. 3 : g[k] = See(g[k - 1], <<a, b, c>>[k])
  BY Zenon, <1>1, <1>2, <1>3
<1>5. Leads(s, <<a, b, c>>, s3)
  BY Zenon, <1>2, <1>3, <1>4 DEF Leads
<1> QED BY <1>1, <1>5

LEMMA EmptyReads ==
  ASSUME NEW a \in {"[", "{"}, NEW w \in White, NEW b \in {"]", "}"}, NEW z \in Shown
  PROVE  Reads(At("outside", z), <<<<a, w, b>>>>, At("outside", (z \o Out(<<a>>)) \o Out(<<b>>)))
<1>1. /\ a \in Cell /\ a \notin White /\ a # "quote" /\ <<a>> \in Text
      /\ b \in Cell /\ b \notin White /\ b # "quote"
  BY SignsOf
<1>2. w \in Cell
  BY CellsOfEscapes DEF White
<1>3. z \o Out(<<a>>) \in Shown
  BY <1>1, OutType, ShownFacts
<1>4. See(At("outside", z), a) = At("outside", z \o Out(<<a>>))
  BY <1>1, SeeOutside
<1>5. See(At("outside", z \o Out(<<a>>)), w) = At("outside", z \o Out(<<a>>))
  BY <1>2, <1>3, SeeOutside
<1>6. See(At("outside", z \o Out(<<a>>)), b) = At("outside", (z \o Out(<<a>>)) \o Out(<<b>>))
  BY <1>1, <1>3, SeeOutside
<1>7. Leads(At("outside", z), <<a, w, b>>, At("outside", (z \o Out(<<a>>)) \o Out(<<b>>)))
  BY Zenon, <1>4, <1>5, <1>6, LeadsThree
<1> QED BY <1>7, ReadsOne

LEMMA NewlineReads ==
  ASSUME NEW z \in Shown PROVE Reads(At("outside", z), <<<<"nl">>>>, At("outside", z))
<1>1. "nl" \in Cell /\ "nl" \in White
  BY CellsOfEscapes DEF White
<1> QED BY <1>1, SeeOutside, LeadsOne, ReadsOne

-----------------------------------------------------------------------------
(* What a reader has to see of a value.                                    *)

LEMMA Induct ==
  ASSUME NEW S, 0 \in S, \A n \in Nat : n \in S => n + 1 \in S
  PROVE  Nat \subseteq S
<1> DEFINE T == Nat \ S
<1> SUFFICES ASSUME T # {} PROVE FALSE
  OBVIOUS
<1>1. PICK m \in T : \A k \in T : m <= k
  <2>1. T \subseteq Nat
    OBVIOUS
  <2> HIDE DEF T
  <2> QED BY <2>1, LeastNatural
<1>2. m \in Nat /\ m \notin S /\ m # 0
  OBVIOUS
<1>3. m - 1 \in Nat /\ (m - 1) + 1 = m /\ ~(m <= m - 1)
  BY <1>2
<1>4. m - 1 \in S
  BY <1>1, <1>3
<1> QED BY <1>2, <1>3, <1>4

\* The list of items a with one more item b.
Listed(a, b) ==
  IF b = <<>> THEN a
  ELSE IF a = <<>> THEN b
  ELSE a \o Out(<<",">>) \o b

Listing(items) ==
  CHOOSE list : list = [n \in 0 .. Len(items) |->
        IF n = 0 THEN <<>>
        ELSE IF items[n] = <<>> THEN list[n - 1]
        ELSE IF list[n - 1] = <<>> THEN items[n]
        ELSE list[n - 1] \o Out(<<",">>) \o items[n]]

LEMMA CommaLists == \A items : CommaList(items) = Listing(items)[Len(items)]
BY DEF CommaList, Listing

LEMMA CommaSeen == Out(<<",">>) \in Shown
BY SignsOf, OutType

LEMMA ListedType == ASSUME NEW a \in Shown, NEW b \in Shown PROVE Listed(a, b) \in Shown
<1>1. a \o Out(<<",">>) \in Shown
  BY CommaSeen, ShownFacts
<1>2. (a \o Out(<<",">>)) \o b \in Shown
  BY <1>1, ShownFacts
<1> QED BY <1>2 DEF Listed

LEMMA ListingFacts ==
  ASSUME NEW items \in Seq(Shown)
  PROVE  /\ Listing(items)[0] = <<>>
         /\ \A n \in 1 .. Len(items) : Listing(items)[n] = Listed(Listing(items)[n - 1], items[n])
         /\ \A n \in 0 .. Len(items) : Listing(items)[n] \in Shown
<1> DEFINE Up(f, n) == f[0] = <<>> /\ \A k \in 1 .. n : f[k] = Listed(f[k - 1], items[k])
           S == {n \in Nat : n <= Len(items) => \E f \in [Nat -> Shown] : Up(f, n)}
           L == Len(items)
<1>0. L \in Nat /\ \A n \in 1 .. L : items[n] \in Shown
  OBVIOUS
<1>1. 0 \in S
  <2>1. Up([n \in Nat |-> <<>>], 0) /\ [n \in Nat |-> <<>>] \in [Nat -> Shown]
    <3>1. <<>> \in Shown
      BY SMT DEF Shown
    <3>2. 1 .. 0 = {} /\ 0 \in Nat
      OBVIOUS
    <3> QED BY <3>1, <3>2
  <2> QED BY <2>1
<1>2. ASSUME NEW n \in Nat, n \in S PROVE n + 1 \in S
  <2> SUFFICES ASSUME n + 1 <= L PROVE \E f \in [Nat -> Shown] : Up(f, n + 1)
    OBVIOUS
  <2>1. PICK f \in [Nat -> Shown] : Up(f, n)
    <3>1. n <= L
      BY <1>0
    <3> QED BY <1>2, <3>1
  <2> DEFINE h == [f EXCEPT ![n + 1] = Listed(f[n], items[n + 1])]
  <2>2. Listed(f[n], items[n + 1]) \in Shown
    <3>1. n + 1 \in 1 .. L
      BY <1>0
    <3>2. items[n + 1] \in Shown /\ f[n] \in Shown
      BY <1>0, <3>1
    <3> QED BY <3>2, ListedType
  <2>3. h \in [Nat -> Shown]
    BY <2>2
  <2>4. h[n + 1] = Listed(f[n], items[n + 1]) /\ \A k \in 0 .. n : h[k] = f[k]
    BY SMT
  <2> HIDE DEF h
  <2>5. \A k \in 1 .. n + 1 : h[k] = Listed(h[k - 1], items[k])
    <3> SUFFICES ASSUME NEW k \in 1 .. n + 1 PROVE h[k] = Listed(h[k - 1], items[k])
      OBVIOUS
    <3>1. CASE k = n + 1
      <4>1. k - 1 = n /\ n \in 0 .. n
        BY <3>1
      <4> QED BY <2>4, <3>1, <4>1
    <3>2. CASE k # n + 1
      <4>1. k \in 1 .. n /\ k \in 0 .. n /\ k - 1 \in 0 .. n
        BY <3>2
      <4>2. f[k] = Listed(f[k - 1], items[k])
        BY <2>1, <4>1
      <4> QED BY <2>4, <4>1, <4>2
    <3> QED BY <3>1, <3>2
  <2>6. h[0] = <<>>
    <3>1. 0 \in 0 .. n
      OBVIOUS
    <3> QED BY <2>1, <2>4, <3>1
  <2> QED BY <2>3, <2>5, <2>6
<1>3. Nat \subseteq S
  <2> HIDE DEF S
  <2> QED BY <1>1, <1>2, Induct
<1>4. PICK f \in [Nat -> Shown] : Up(f, L)
  <2> HIDE DEF Up
  <2>1. L \in S
    <3> HIDE DEF S, L
    <3> QED BY Zenon, <1>0, <1>3
  <2>2. L <= Len(items)
    BY <1>0
  <2> QED BY Zenon, <2>1, <2>2
<1> DEFINE h == [n \in 0 .. L |-> f[n]]
           Rule(g) == [n \in 0 .. L |->
              IF n = 0 THEN <<>>
              ELSE IF items[n] = <<>> THEN g[n - 1]
              ELSE IF g[n - 1] = <<>> THEN items[n]
              ELSE g[n - 1] \o Out(<<",">>) \o items[n]]
<1>5. h = Rule(h)
  <2>1. ASSUME NEW n \in 0 .. L PROVE h[n] = Rule(h)[n]
    <3>1. CASE n = 0
      BY <1>4, <2>1, <3>1
    <3>2. CASE n # 0
      <4>1. n \in 1 .. L /\ n - 1 \in 0 .. L
        BY <1>0, <2>1, <3>2
      <4>2. h[n - 1] = f[n - 1] /\ h[n] = f[n] /\ f[n] = Listed(f[n - 1], items[n])
        BY <1>4, <2>1, <4>1
      <4> HIDE DEF h
      <4> QED BY <2>1, <3>2, <4>1, <4>2 DEF Listed
    <3> QED BY <3>1, <3>2
  <2> QED BY <2>1
<1>6. Listing(items) = Rule(Listing(items))
  BY <1>5 DEF Listing
<1> DEFINE G == Listing(items)
<1>7. G[0] = <<>> /\ \A n \in 1 .. L : G[n] = Listed(G[n - 1], items[n])
  <2>1. \A n \in 0 .. L : G[n] = Rule(G)[n]
    BY <1>6
  <2> HIDE DEF G
  <2>2. G[0] = <<>>
    <3>1. 0 \in 0 .. L
      BY <1>0
    <3> QED BY <2>1, <3>1
  <2>3. ASSUME NEW n \in 1 .. L PROVE G[n] = Listed(G[n - 1], items[n])
    <3>1. n \in 0 .. L /\ n # 0
      BY <1>0
    <3> QED BY <2>1, <3>1 DEF Listed
  <2> QED BY <2>2, <2>3
<1> HIDE DEF G
<1>8. \A n \in 0 .. L : G[n] \in Shown
  <2> DEFINE T == {n \in Nat : n <= L => G[n] \in Shown}
  <2>1. 0 \in T
    <3>1. <<>> \in Shown
      BY SMT DEF Shown
    <3> QED BY <1>7, <3>1
  <2>2. ASSUME NEW n \in Nat, n \in T PROVE n + 1 \in T
    <3> SUFFICES ASSUME n + 1 <= L PROVE G[n + 1] \in Shown
      OBVIOUS
    <3>1. n + 1 \in 1 .. L /\ (n + 1) - 1 = n /\ n <= L
      BY <1>0
    <3>2. G[n] \in Shown /\ items[n + 1] \in Shown
      BY <1>0, <2>2, <3>1
    <3>3. G[n + 1] = Listed(G[n], items[n + 1])
      BY <1>7, <3>1
    <3> QED BY <3>2, <3>3, ListedType
  <2>3. Nat \subseteq T
    <3> HIDE DEF T
    <3> QED BY <2>1, <2>2, Induct
  <2> QED BY <1>0, <2>3
<1> QED BY <1>7, <1>8 DEF G, L

Parts(v) ==
  CASE v.kind = "array" -> {v.values[n] : n \in 1 .. Len(v.values)}
    [] v.kind = "object" -> {v.entries[n].value : n \in 1 .. Len(v.entries)}
    [] OTHER -> {}

\* No value is a part of itself, or of a part of itself: values are finite trees.
Nested(height) ==
  /\ height \in [Value -> Nat]
  /\ \A v \in Value : \A w \in Parts(v) : height[w] < height[v]

FiniteTrees == \E height : Nested(height)

EntrySet == [used : BOOLEAN, key : Text, value : Value]

LEMMA ValueKinds ==
  ASSUME NEW v \in Value
  PROVE  /\ v.kind \in {"str", "atom", "array", "object"}
         /\ v.kind \in {"str", "atom"} => v.text \in Text
         /\ v.kind = "array" =>
              /\ v.values \in Seq(Value) /\ Len(v.values) \in Nat
              /\ DOMAIN v.values = 1 .. Len(v.values)
              /\ \A n \in 1 .. Len(v.values) : v.values[n] \in Value
         /\ v.kind = "object" =>
              /\ v.entries \in Seq(EntrySet) /\ Len(v.entries) \in Nat
              /\ DOMAIN v.entries = 1 .. Len(v.entries)
              /\ \A n \in 1 .. Len(v.entries) : v.entries[n] \in EntrySet
<1>1. /\ v.kind \in {"str", "atom", "array", "object"}
      /\ v.kind \in {"str", "atom"} => v.text \in Text
      /\ v.kind = "array" => v.values \in Seq(Value)
      /\ v.kind = "object" => v.entries \in Seq(EntrySet)
  BY ValueAssumption DEF EntrySet
<1>2. ASSUME NEW S, NEW q \in Seq(S)
      PROVE  Len(q) \in Nat /\ DOMAIN q = 1 .. Len(q) /\ \A n \in 1 .. Len(q) : q[n] \in S
  OBVIOUS
<1> QED BY <1>1, <1>2

LEMMA PartsAreValues == ASSUME NEW v \in Value PROVE Parts(v) \subseteq Value
<1>1. CASE v.kind = "array"
  BY Zenon, <1>1, ValueKinds DEF Parts
<1>2. CASE v.kind = "object"
  <2>1. \A e \in EntrySet : e.value \in Value
    BY DEF EntrySet
  <2>2. \A n \in 1 .. Len(v.entries) : v.entries[n].value \in Value
    BY Zenon, <1>2, <2>1, ValueKinds
  <2> QED BY Zenon, <1>2, <2>2 DEF Parts
<1>3. CASE v.kind # "array" /\ v.kind # "object"
  BY Zenon, <1>3 DEF Parts
<1> QED BY <1>1, <1>2, <1>3

\* What is said of v depends on what is said of its parts.
LEMMA ContentSame ==
  ASSUME NEW f, NEW g, NEW v \in Value, \A w \in Parts(v) : f[w] = g[w]
  PROVE  Content(v, f) = Content(v, g)
<1>1. CASE v.kind = "array"
  <2>1. \A n \in DOMAIN v.values : v.values[n] \in Parts(v)
    BY Zenon, <1>1, ValueKinds DEF Parts
  <2>2. [n \in DOMAIN v.values |-> f[v.values[n]]] = [n \in DOMAIN v.values |-> g[v.values[n]]]
    BY Zenon, <2>1
  <2>3. /\ Content(v, f) = Out(<<"[">>) \o CommaList([n \in DOMAIN v.values |-> f[v.values[n]]]) \o Out(<<"]">>)
        /\ Content(v, g) = Out(<<"[">>) \o CommaList([n \in DOMAIN v.values |-> g[v.values[n]]]) \o Out(<<"]">>)
    BY Zenon, <1>1 DEF Content
  <2> QED BY Zenon, <2>2, <2>3
<1>2. CASE v.kind = "object"
  <2> DEFINE I(h) == [n \in DOMAIN v.entries |-> Member(v.entries[n], h[v.entries[n].value])]
  <2>1. \A n \in DOMAIN v.entries : v.entries[n].value \in Parts(v)
    BY Zenon, <1>2, ValueKinds DEF Parts
  <2>2. \A n \in DOMAIN v.entries :
          Member(v.entries[n], f[v.entries[n].value]) = Member(v.entries[n], g[v.entries[n].value])
    BY Zenon, <2>1
  <2>3. I(f) = I(g)
    BY Zenon, <2>2
  <2>4. /\ Content(v, f) = Out(<<"{">>) \o CommaList(I(f)) \o Out(<<"}">>)
        /\ Content(v, g) = Out(<<"{">>) \o CommaList(I(g)) \o Out(<<"}">>)
    BY Zenon, <1>2 DEF Content
  <2> HIDE DEF I
  <2> QED BY Zenon, <2>3, <2>4
<1>3. CASE v.kind = "str"
  BY Zenon, <1>3 DEF Content
<1>4. CASE v.kind = "atom"
  BY Zenon, <1>4 DEF Content
<1> QED BY <1>1, <1>2, <1>3, <1>4, ValueKinds

\* The items that are listed between the brackets of v.
ItemsOf(f, v) ==
  IF v.kind = "array" THEN [n \in DOMAIN v.values |-> f[v.values[n]]]
  ELSE [n \in DOMAIN v.entries |-> Member(v.entries[n], f[v.entries[n].value])]

OpeningOf(v) == IF v.kind = "array" THEN Out(<<"[">>) ELSE Out(<<"{">>)
ClosingOf(v) == IF v.kind = "array" THEN Out(<<"]">>) ELSE Out(<<"}">>)

LEMMA ContentOfContainer ==
  ASSUME NEW f, NEW v, v.kind \in {"array", "object"}
  PROVE  Content(v, f) = (OpeningOf(v) \o CommaList(ItemsOf(f, v))) \o ClosingOf(v)
<1>1. CASE v.kind = "array"
  <2>1. OpeningOf(v) = Out(<<"[">>) /\ ClosingOf(v) = Out(<<"]">>)
        /\ ItemsOf(f, v) = [n \in DOMAIN v.values |-> f[v.values[n]]]
    BY Zenon, <1>1 DEF OpeningOf, ClosingOf, ItemsOf
  <2>2. Content(v, f) = Out(<<"[">>) \o CommaList([n \in DOMAIN v.values |-> f[v.values[n]]]) \o Out(<<"]">>)
    BY Zenon, <1>1 DEF Content
  <2> QED BY Zenon, <2>1, <2>2
<1>2. CASE v.kind = "object"
  <2>0. v.kind # "array"
    BY <1>2
  <2>1. OpeningOf(v) = Out(<<"{">>) /\ ClosingOf(v) = Out(<<"}">>)
        /\ ItemsOf(f, v) = [n \in DOMAIN v.entries |-> Member(v.entries[n], f[v.entries[n].value])]
    BY Zenon, <2>0 DEF OpeningOf, ClosingOf, ItemsOf
  <2>2. Content(v, f) = Out(<<"{">>)
           \o CommaList([n \in DOMAIN v.entries |-> Member(v.entries[n], f[v.entries[n].value])])
           \o Out(<<"}">>)
    BY Zenon, <1>2 DEF Content
  <2> QED BY Zenon, <2>1, <2>2
<1> QED BY <1>1, <1>2

LEMMA StrType == ASSUME NEW t \in Text PROVE Str(t) \in Shown /\ Str(t) # <<>>
<1> DEFINE q == Out(<<"quote">>)
<1>1. q \in Shown /\ In(t) \in Shown /\ Len(q) = 1
  <2>1. <<"quote">> \in Text
    BY PieceType, CellsOfEscapes
  <2>2. Len(<<<<"out", "quote">>>>) = 1
    OBVIOUS
  <2> QED BY <2>1, <2>2, OutType, OutOne
<1>2. Str(t) = (q \o In(t)) \o q
  BY DEF Str, In
<1> HIDE DEF q
<1>3. q \o In(t) \in Shown /\ (q \o In(t)) \o q \in Shown
  BY <1>1, ShownFacts
<1>4. q # <<>>
  BY <1>1
<1>5. (q \o In(t)) \o q # <<>>
  BY <1>1, <1>3, <1>4, ShownFacts
<1> QED BY <1>2, <1>3, <1>5

LEMMA SignTypes == \A v : /\ OpeningOf(v) \in Shown /\ OpeningOf(v) # <<>>
                          /\ ClosingOf(v) \in Shown /\ ClosingOf(v) # <<>>
<1>1. \A c \in {"[", "]", "{", "}"} : Out(<<c>>) \in Shown
  BY SignsOf, OutType
<1>2. \A c : Out(<<c>>) # <<>>
  <2>1. \A x : <<x>> # <<>>
    OBVIOUS
  <2> QED BY <2>1, OutOne
<1> QED BY <1>1, <1>2 DEF OpeningOf, ClosingOf

LEMMA MemberType ==
  ASSUME NEW e \in EntrySet, NEW y, e.used => y \in Shown
  PROVE  Member(e, y) \in Shown /\ (e.used => Member(e, y) # <<>>) /\ (~e.used => Member(e, y) = <<>>)
<1>1. <<>> \in Shown
  BY SMT DEF Shown
<1>2. CASE e.used
  <2> DEFINE s == Str(e.key)
             c == Out(<<":">>)
  <2>1. s \in Shown /\ s # <<>>
    BY StrType DEF EntrySet
  <2>2. c \in Shown
    BY SignsOf, OutType
  <2>3. Member(e, y) = (s \o c) \o y
    BY <1>2 DEF Member
  <2> HIDE DEF s, c
  <2>4. s \o c \in Shown /\ s \o c # <<>>
    BY <2>1, <2>2, ShownFacts
  <2>5. (s \o c) \o y \in Shown /\ (s \o c) \o y # <<>>
    BY <1>2, <2>4, ShownFacts
  <2> QED BY <1>2, <2>3, <2>5
<1>3. CASE ~e.used
  BY <1>1, <1>3 DEF Member
<1> QED BY <1>2, <1>3

LEMMA ItemsType ==
  ASSUME NEW f, NEW v \in Value, v.kind \in {"array", "object"}, \A w \in Parts(v) : f[w] \in Shown
  PROVE  ItemsOf(f, v) \in Seq(Shown) /\ Len(ItemsOf(f, v)) = Elements([value |-> v])
<1>0. ASSUME NEW m \in Nat, NEW q, DOMAIN q = 1 .. m, q = [n \in 1 .. m |-> q[n]],
             \A n \in 1 .. m : q[n] \in Shown
      PROVE  q \in Seq(Shown) /\ Len(q) = m
  BY <1>0
<1>1. CASE v.kind = "array"
  <2> DEFINE q == [n \in DOMAIN v.values |-> f[v.values[n]]]
  <2>1. Len(v.values) \in Nat /\ DOMAIN v.values = 1 .. Len(v.values)
    BY <1>1, ValueKinds
  <2>2. \A n \in 1 .. Len(v.values) : v.values[n] \in Parts(v)
    BY Zenon, <1>1 DEF Parts
  <2>3. DOMAIN q = 1 .. Len(v.values) /\ q = [n \in 1 .. Len(v.values) |-> q[n]]
        /\ \A n \in 1 .. Len(v.values) : q[n] \in Shown
    BY Zenon, <2>1, <2>2
  <2>4. ItemsOf(f, v) = q /\ Elements([value |-> v]) = Len(v.values)
    BY Zenon, <1>1 DEF ItemsOf, Elements
  <2> HIDE DEF q
  <2> QED BY <1>0, <2>1, <2>3, <2>4
<1>2. CASE v.kind = "object"
  <2> DEFINE q == [n \in DOMAIN v.entries |-> Member(v.entries[n], f[v.entries[n].value])]
  <2>1. /\ Len(v.entries) \in Nat /\ DOMAIN v.entries = 1 .. Len(v.entries)
        /\ \A n \in 1 .. Len(v.entries) : v.entries[n] \in EntrySet
    BY <1>2, ValueKinds
  <2>2. \A n \in 1 .. Len(v.entries) : v.entries[n].value \in Parts(v)
    BY Zenon, <1>2 DEF Parts
  <2>3. \A n \in 1 .. Len(v.entries) : Member(v.entries[n], f[v.entries[n].value]) \in Shown
    BY <2>1, <2>2, MemberType
  <2>4. DOMAIN q = 1 .. Len(v.entries) /\ q = [n \in 1 .. Len(v.entries) |-> q[n]]
        /\ \A n \in 1 .. Len(v.entries) : q[n] \in Shown
    BY Zenon, <2>1, <2>3
  <2>5. ItemsOf(f, v) = q /\ Elements([value |-> v]) = Len(v.entries)
    <3>1. v.kind # "array"
      BY <1>2
    <3> QED BY Zenon, <3>1 DEF ItemsOf, Elements
  <2> HIDE DEF q
  <2> QED BY <1>0, <2>1, <2>4, <2>5
<1> QED BY <1>1, <1>2

\* The texts of numbers and literals are some, and as JSON has them; strings and
\* keys have none of the control characters that are printed twice.
Readable ==
  \A v \in Value :
    /\ v.kind = "atom" => v.text # <<>> /\ Bare(v.text)
    /\ v.kind = "str" => Plain(v.text)
    /\ v.kind = "object" => \A n \in 1 .. Len(v.entries) : v.entries[n].used => Plain(v.entries[n].key)

LEMMA ContentType ==
  ASSUME Readable, NEW f, NEW v \in Value, \A w \in Parts(v) : f[w] \in Shown
  PROVE  Content(v, f) \in Shown /\ Content(v, f) # <<>>
<1>1. CASE v.kind = "str"
  <2>1. Content(v, f) = Str(v.text)
    BY Zenon, <1>1 DEF Content
  <2> QED BY <1>1, <2>1, ValueKinds, StrType
<1>2. CASE v.kind = "atom"
  <2>1. Content(v, f) = Out(v.text)
    BY Zenon, <1>2 DEF Content
  <2>2. v.text \in Text /\ v.text # <<>>
    BY <1>2, ValueKinds DEF Readable
  <2>3. Out(v.text) \in Shown
    BY <2>2, OutType
  <2>4. Out(v.text) # <<>>
    <3>1. DOMAIN v.text # {}
      <4>1. ASSUME NEW q \in Seq(Cell), q # <<>> PROVE Len(q) \in Nat /\ Len(q) # 0 /\ DOMAIN q = 1 .. Len(q)
        BY SMT, <4>1
      <4>2. ASSUME NEW q \in Seq(Cell), q # <<>> PROVE 1 \in DOMAIN q
        BY <4>1, <4>2
      <4>3. 1 \in DOMAIN v.text
        BY <2>2, <4>2 DEF Text
      <4> QED BY <4>3
    <3>2. DOMAIN Out(v.text) # DOMAIN <<>>
      <4>1. DOMAIN <<>> = {}
        BY SMT
      <4> QED BY <3>1, <4>1 DEF Out
    <3> QED BY <3>2
  <2> QED BY <2>1, <2>3, <2>4
<1>3. CASE v.kind \in {"array", "object"}
  <2> DEFINE o == OpeningOf(v)
             l == CommaList(ItemsOf(f, v))
             c == ClosingOf(v)
  <2>1. Content(v, f) = (o \o l) \o c
    BY <1>3, ContentOfContainer
  <2>2. o \in Shown /\ o # <<>> /\ c \in Shown
    BY SignTypes
  <2>3. l \in Shown
    <3>1. ItemsOf(f, v) \in Seq(Shown)
      BY <1>3, ItemsType
    <3>2. Len(ItemsOf(f, v)) \in 0 .. Len(ItemsOf(f, v))
      BY <3>1
    <3> QED BY <3>1, <3>2, CommaLists, ListingFacts
  <2> HIDE DEF o, l, c
  <2>4. o \o l \in Shown /\ o \o l # <<>>
    BY <2>2, <2>3, ShownFacts
  <2> QED BY <2>1, <2>2, <2>4, ShownFacts
<1> QED BY <1>1, <1>2, <1>3, ValueKinds

\* f says what the values mean that are lower than n.
Means(height, f, n) ==
  /\ f \in [Value -> Shown]
  /\ \A v \in Value : height[v] < n => f[v] = Content(v, f)

LEMMA MeansAgree ==
  ASSUME NEW height, Nested(height), NEW f, NEW n \in Nat, Means(height, f, n),
         NEW g, NEW m \in Nat, Means(height, g, m),
         NEW v \in Value, height[v] < n, height[v] < m
  PROVE  f[v] = g[v]
<1> DEFINE D == {h \in Nat : \E w \in Value : height[w] = h /\ h < n /\ h < m /\ f[w] # g[w]}
<1> SUFFICES ASSUME D # {} PROVE FALSE
  BY DEF Nested
<1>1. PICK h \in D : \A k \in D : h <= k
  <2>1. D \subseteq Nat
    OBVIOUS
  <2> HIDE DEF D
  <2> QED BY <2>1, LeastNatural
<1>2. PICK w \in Value : height[w] = h /\ h < n /\ h < m /\ f[w] # g[w]
  OBVIOUS
<1>3. \A x \in Parts(w) : f[x] = g[x]
  <2> SUFFICES ASSUME NEW x \in Parts(w), f[x] # g[x] PROVE FALSE
    OBVIOUS
  <2>1. x \in Value /\ height[x] < height[w] /\ height[x] \in Nat /\ h \in Nat
    BY PartsAreValues DEF Nested
  <2>2. height[x] \in D
    BY <1>2, <2>1
  <2> QED BY <1>1, <1>2, <2>1, <2>2
<1>4. f[w] = Content(w, f) /\ g[w] = Content(w, g)
  BY <1>2 DEF Means
<1> QED BY <1>2, <1>3, <1>4, ContentSame

LEMMA MeansExist ==
  ASSUME Readable, NEW height, Nested(height)
  PROVE  \A n \in Nat : \E f : Means(height, f, n)
<1> DEFINE S == {n \in Nat : \E f : Means(height, f, n)}
<1>1. 0 \in S
  <2>1. <<>> \in Shown
    BY SMT DEF Shown
  <2>2. [v \in Value |-> <<>>] \in [Value -> Shown]
    BY <2>1
  <2>3. \A v \in Value : ~(height[v] < 0)
    BY DEF Nested
  <2> QED BY <2>2, <2>3 DEF Means
<1>2. ASSUME NEW n \in Nat, n \in S PROVE n + 1 \in S
  <2>1. PICK f : Means(height, f, n)
    BY <1>2
  <2> DEFINE g == [v \in Value |-> Content(v, f)]
  <2>2. g \in [Value -> Shown]
    <3>1. ASSUME NEW v \in Value PROVE Content(v, f) \in Shown
      <4>1. \A w \in Parts(v) : f[w] \in Shown
        BY <2>1, PartsAreValues DEF Means
      <4> QED BY <4>1, ContentType
    <3> QED BY <3>1
  <2>3. ASSUME NEW v \in Value, height[v] < n + 1 PROVE g[v] = Content(v, g)
    <3>1. \A w \in Parts(v) : g[w] = f[w]
      <4> SUFFICES ASSUME NEW w \in Parts(v) PROVE g[w] = f[w]
        OBVIOUS
      <4>1. w \in Value /\ height[w] < height[v] /\ height[w] \in Nat /\ height[v] \in Nat
        BY PartsAreValues DEF Nested
      <4>2. height[w] < n
        BY <2>3, <4>1
      <4>3. f[w] = Content(w, f)
        BY <2>1, <4>1, <4>2 DEF Means
      <4> QED BY <4>1, <4>3
    <3>2. g[v] = Content(v, f)
      OBVIOUS
    <3> HIDE DEF g
    <3>3. Content(v, g) = Content(v, f)
      BY <3>1, ContentSame
    <3> QED BY <3>2, <3>3
  <2> HIDE DEF g
  <2>4. Means(height, g, n + 1)
    BY <2>2, <2>3 DEF Means
  <2> QED BY <2>4
<1> HIDE DEF S
<1>3. Nat \subseteq S
  BY <1>1, <1>2, Induct
<1> QED BY <1>3 DEF S

LEMMA MeaningFacts ==
  ASSUME Readable, FiniteTrees
  PROVE  \A v \in Value : Meaning[v] = Content(v, Meaning) /\ Meaning[v] \in Shown /\ Meaning[v] # <<>>
<1> PICK height : Nested(height)
  BY DEF FiniteTrees
<1> DEFINE F(n) == CHOOSE f : Means(height, f, n)
           g == [v \in Value |-> F(height[v] + 1)[v]]
<1>0. \A v \in Value : height[v] \in Nat
  BY DEF Nested
<1>1. \A n \in Nat : Means(height, F(n), n)
  BY MeansExist
<1> HIDE DEF F
<1>2. ASSUME NEW v \in Value PROVE g[v] = Content(v, g)
  <2> DEFINE n == height[v] + 1
  <2>1. n \in Nat /\ height[v] < n
    BY <1>0
  <2>2. \A w \in Parts(v) : g[w] = F(n)[w]
    <3> SUFFICES ASSUME NEW w \in Parts(v) PROVE g[w] = F(n)[w]
      OBVIOUS
    <3>1. w \in Value /\ height[w] < height[v] /\ height[w] \in Nat /\ height[v] \in Nat
      BY <1>0, PartsAreValues DEF Nested
    <3>2. height[w] + 1 \in Nat /\ height[w] < height[w] + 1 /\ height[w] < n
      BY <3>1
    <3>3. F(height[w] + 1)[w] = F(n)[w]
      BY <1>1, <2>1, <3>1, <3>2, MeansAgree
    <3> QED BY <3>1, <3>3
  <2>3. F(n)[v] = Content(v, F(n))
    BY <1>1, <2>1 DEF Means
  <2>4. g[v] = F(n)[v]
    OBVIOUS
  <2> HIDE DEF g, n
  <2> QED BY <2>2, <2>3, <2>4, ContentSame
<1>3. g = [v \in Value |-> Content(v, g)]
  <2>1. g = [v \in Value |-> g[v]]
    OBVIOUS
  <2> HIDE DEF g
  <2> QED BY <1>2, <2>1
<1>4. Meaning = CHOOSE f : f = [v \in Value |-> Content(v, f)]
  BY Zenon DEF Meaning
<1> HIDE DEF g
<1>5. Meaning = [v \in Value |-> Content(v, Meaning)]
  BY <1>3, <1>4
<1>6. \A v \in Value : Meaning[v] = Content(v, Meaning)
  BY <1>5
<1>7. \A v \in Value : Meaning[v] \in Shown
  <2> DEFINE D == {h \in Nat : \E w \in Value : height[w] = h /\ Meaning[w] \notin Shown}
  <2> SUFFICES ASSUME D # {} PROVE FALSE
    BY <1>0
  <2>1. PICK h \in D : \A k \in D : h <= k
    <3>1. D \subseteq Nat
      OBVIOUS
    <3> HIDE DEF D
    <3> QED BY <3>1, LeastNatural
  <2>2. PICK w \in Value : height[w] = h /\ Meaning[w] \notin Shown
    OBVIOUS
  <2>3. \A x \in Parts(w) : Meaning[x] \in Shown
    <3> SUFFICES ASSUME NEW x \in Parts(w), Meaning[x] \notin Shown PROVE FALSE
      OBVIOUS
    <3>1. x \in Value /\ height[x] < height[w] /\ height[x] \in Nat /\ h \in Nat
      BY <1>0, PartsAreValues DEF Nested
    <3>2. height[x] \in D
      BY <3>1
    <3> QED BY <2>1, <2>2, <3>1, <3>2
  <2> QED BY <1>6, <2>2, <2>3, ContentType
<1>8. \A v \in Value : Content(v, Meaning) # <<>>
  BY <1>7, PartsAreValues, ContentType
<1> QED BY <1>6, <1>7, <1>8

-----------------------------------------------------------------------------
(* What was seen when the walk is in the middle of a value.                *)

Count(v) == Elements([value |-> v])
PartOf(v, n) == IF v.kind = "array" THEN v.values[n] ELSE v.entries[n].value

\* What is in front of the value of item n of v.
LeadOf(v, n) == IF v.kind = "array" THEN <<>> ELSE Str(v.entries[n].key) \o Out(<<":">>)

\* What is seen of v behind its item n, or in front of the first for n = 0.
Inside(v, n) == Listing(ItemsOf(Meaning, v))[n]
Begun(v, n) == OpeningOf(v) \o Inside(v, n)

LEMMA CountIs ==
  \A v : /\ v.kind = "array" => Count(v) = Len(v.values)
         /\ v.kind = "object" => Count(v) = Len(v.entries)
<1>1. ASSUME NEW v, v.kind = "array" PROVE Count(v) = Len(v.values)
  BY Zenon, <1>1 DEF Count, Elements
<1>2. ASSUME NEW v, v.kind = "object" PROVE Count(v) = Len(v.entries)
  <2>1. v.kind # "array"
    BY <1>2
  <2> QED BY Zenon, <2>1 DEF Count, Elements
<1> QED BY <1>1, <1>2

LEMMA PartTypes ==
  ASSUME Readable, FiniteTrees, NEW v \in Value, v.kind \in {"array", "object"},
         NEW n \in 1 .. Count(v)
  PROVE  /\ PartOf(v, n) \in Value /\ LeadOf(v, n) \in Shown
         /\ Meaning[PartOf(v, n)] \in Shown /\ Meaning[PartOf(v, n)] # <<>>
<1>1. PartOf(v, n) \in Value /\ LeadOf(v, n) \in Shown
  <2>1. CASE v.kind = "array"
    <3>1. n \in 1 .. Len(v.values)
      BY <2>1, CountIs
    <3>2. <<>> \in Shown
      BY SMT DEF Shown
    <3>3. v.values[n] \in Value
      BY <2>1, <3>1, ValueKinds
    <3> QED BY <2>1, <3>2, <3>3 DEF PartOf, LeadOf
  <2>2. CASE v.kind = "object"
    <3>0. v.kind # "array"
      BY <2>2
    <3>1. n \in 1 .. Len(v.entries)
      BY <2>2, CountIs
    <3>2. v.entries[n] \in EntrySet
      BY <2>2, <3>1, ValueKinds
    <3>3. v.entries[n].value \in Value /\ v.entries[n].key \in Text
      BY <3>2 DEF EntrySet
    <3>4. Str(v.entries[n].key) \in Shown /\ Out(<<":">>) \in Shown
      BY <3>3, StrType, SignsOf, OutType
    <3>5. Str(v.entries[n].key) \o Out(<<":">>) \in Shown
      BY <3>4, ShownFacts
    <3> QED BY <3>0, <3>3, <3>5 DEF PartOf, LeadOf
  <2> QED BY <2>1, <2>2
<1> QED BY <1>1, MeaningFacts

LEMMA InsideFacts ==
  ASSUME Readable, FiniteTrees, NEW v \in Value, v.kind \in {"array", "object"}
  PROVE  /\ Count(v) \in Nat /\ Inside(v, 0) = <<>>
         /\ \A n \in 0 .. Count(v) : Inside(v, n) \in Shown
         /\ \A n \in 1 .. Count(v) :
              IF v.kind = "object" /\ ~v.entries[n].used THEN Inside(v, n) = Inside(v, n - 1)
              ELSE Inside(v, n) = Listed(Inside(v, n - 1), LeadOf(v, n) \o Meaning[PartOf(v, n)])
         /\ Meaning[v] = Begun(v, Count(v)) \o ClosingOf(v)
<1> DEFINE q == ItemsOf(Meaning, v)
<1>1. q \in Seq(Shown) /\ Len(q) = Count(v)
  <2>1. \A w \in Parts(v) : Meaning[w] \in Shown
    BY PartsAreValues, MeaningFacts
  <2> QED BY <2>1, ItemsType DEF Count
<1>2. \A n \in 1 .. Count(v) :
        q[n] = IF v.kind = "object" /\ ~v.entries[n].used THEN <<>>
               ELSE LeadOf(v, n) \o Meaning[PartOf(v, n)]
  <2> SUFFICES ASSUME NEW n \in 1 .. Count(v)
               PROVE  q[n] = IF v.kind = "object" /\ ~v.entries[n].used THEN <<>>
                             ELSE LeadOf(v, n) \o Meaning[PartOf(v, n)]
    OBVIOUS
  <2>1. CASE v.kind = "array"
    <3>1. n \in DOMAIN v.values
      BY <2>1, CountIs, ValueKinds
    <3>2. q[n] = Meaning[v.values[n]]
      BY Zenon, <2>1, <3>1 DEF ItemsOf
    <3>3. LeadOf(v, n) = <<>> /\ PartOf(v, n) = v.values[n]
      BY <2>1 DEF LeadOf, PartOf
    <3>4. <<>> \o Meaning[v.values[n]] = Meaning[v.values[n]]
      <4>1. Meaning[v.values[n]] \in Shown
        BY <3>3, PartTypes
      <4> QED BY <4>1, ShownFacts
    <3>5. v.kind # "object"
      BY <2>1
    <3> HIDE DEF q
    <3> QED BY Zenon, <3>2, <3>3, <3>4, <3>5
  <2>2. CASE v.kind = "object"
    <3>0. v.kind # "array"
      BY <2>2
    <3>1. n \in DOMAIN v.entries
      BY <2>2, CountIs, ValueKinds
    <3>2. q[n] = Member(v.entries[n], Meaning[v.entries[n].value])
      BY Zenon, <3>0, <3>1 DEF ItemsOf
    <3>3. LeadOf(v, n) = Str(v.entries[n].key) \o Out(<<":">>) /\ PartOf(v, n) = v.entries[n].value
      BY Zenon, <3>0 DEF LeadOf, PartOf
    <3>4. q[n] = IF v.entries[n].used
                 THEN (Str(v.entries[n].key) \o Out(<<":">>)) \o Meaning[v.entries[n].value] ELSE <<>>
      BY Zenon, <3>2 DEF Member
    <3> HIDE DEF q
    <3>5. CASE v.entries[n].used
      BY Zenon, <2>2, <3>3, <3>4, <3>5
    <3>6. CASE ~v.entries[n].used
      BY Zenon, <2>2, <3>4, <3>6
    <3> QED BY <3>5, <3>6
  <2> QED BY <2>1, <2>2
<1> HIDE DEF q
<1>3. /\ Listing(q)[0] = <<>>
      /\ \A n \in 1 .. Len(q) : Listing(q)[n] = Listed(Listing(q)[n - 1], q[n])
      /\ \A n \in 0 .. Len(q) : Listing(q)[n] \in Shown
  BY <1>1, ListingFacts
<1>4. \A n : Inside(v, n) = Listing(q)[n]
  BY DEF Inside, q
<1>5. \A a : Listed(a, <<>>) = a
  BY DEF Listed
<1>6. Count(v) \in Nat
  BY <1>1
<1>7. Inside(v, 0) = <<>> /\ \A n \in 0 .. Count(v) : Inside(v, n) \in Shown
  BY <1>1, <1>3, <1>4
<1>8. \A n \in 1 .. Count(v) : Inside(v, n) = Listed(Inside(v, n - 1), q[n])
  BY <1>1, <1>3, <1>4
<1>9. \A n \in 1 .. Count(v) :
        IF v.kind = "object" /\ ~v.entries[n].used THEN Inside(v, n) = Inside(v, n - 1)
        ELSE Inside(v, n) = Listed(Inside(v, n - 1), LeadOf(v, n) \o Meaning[PartOf(v, n)])
  <2> SUFFICES ASSUME NEW n \in 1 .. Count(v)
               PROVE  IF v.kind = "object" /\ ~v.entries[n].used THEN Inside(v, n) = Inside(v, n - 1)
                      ELSE Inside(v, n) = Listed(Inside(v, n - 1), LeadOf(v, n) \o Meaning[PartOf(v, n)])
    OBVIOUS
  <2>1. CASE v.kind = "object" /\ ~v.entries[n].used
    <3>1. q[n] = <<>>
      BY Zenon, <1>2, <2>1
    <3>2. Inside(v, n) = Listed(Inside(v, n - 1), <<>>)
      BY Zenon, <1>8, <3>1
    <3> QED BY Zenon, <1>5, <2>1, <3>2
  <2>2. CASE ~(v.kind = "object" /\ ~v.entries[n].used)
    <3>1. q[n] = LeadOf(v, n) \o Meaning[PartOf(v, n)]
      BY Zenon, <1>2, <2>2
    <3> QED BY Zenon, <1>8, <2>2, <3>1
  <2> QED BY <2>1, <2>2
<1>10. Meaning[v] = Begun(v, Count(v)) \o ClosingOf(v)
  <2>1. Meaning[v] = Content(v, Meaning)
    BY MeaningFacts
  <2>2. Content(v, Meaning) = (OpeningOf(v) \o CommaList(q)) \o ClosingOf(v)
    BY ContentOfContainer DEF q
  <2>3. CommaList(q) = Inside(v, Count(v))
    BY Zenon, <1>1, <1>4, CommaLists
  <2> QED BY Zenon, <2>1, <2>2, <2>3 DEF Begun
<1> QED BY <1>6, <1>7, <1>9, <1>10

-----------------------------------------------------------------------------
(* Where the walk is, and what was seen until then: `before[j]` in front of *)
(* the part of frame j that is printed, before[0] in front of everything.  *)

Callee(v, st, j) == IF j = 0 THEN v ELSE PartOf(st[j].value, st[j].i)

Going(f) ==
  /\ f.value \in Value /\ f.value.kind \in {"array", "object"}
  /\ f.i \in 0 .. Count(f.value)
  /\ f.latch <=> Inside(f.value, f.i) # <<>>

PartSeen(f, p, q) ==
  /\ f.i \in 1 .. Count(f.value)
  /\ q \o Meaning[PartOf(f.value, f.i)] = p \o Begun(f.value, f.i)

Path(v, st, before, k) ==
  /\ before \in [Nat -> Shown] /\ before[0] = <<>>
  /\ \A j \in 1 .. Len(st) : Going(st[j]) /\ st[j].value = Callee(v, st, j - 1)
  /\ \A j \in 1 .. k : PartSeen(st[j], before[j - 1], before[j])

\* print_json_value is about to be called with a.
Calling(v, st, before, a, z) ==
  Path(v, st, before, Len(st)) /\ a = Callee(v, st, Len(st)) /\ z = before[Len(st)]

\* It has returned.
Back(v, st, before, z) ==
  IF st = <<>> THEN z = Meaning[v]
  ELSE /\ Path(v, st, before, Len(st) - 1)
       /\ z = before[Len(st) - 1] \o Begun(st[Len(st)].value, st[Len(st)].i)

LEMMA CallReturns ==
  ASSUME Readable, FiniteTrees, NEW v \in Value, NEW st \in Seq(Frame), NEW before,
         Path(v, st, before, Len(st))
  PROVE  Back(v, st, before, before[Len(st)] \o Meaning[Callee(v, st, Len(st))])
<1>1. Meaning[v] \in Shown
  BY MeaningFacts
<1>2. CASE st = <<>>
  <2>1. Len(st) = 0 /\ before[0] = <<>>
    BY <1>2 DEF Path
  <2>2. Callee(v, st, 0) = v
    BY DEF Callee
  <2>3. <<>> \o Meaning[v] = Meaning[v]
    BY <1>1, ShownFacts
  <2> QED BY <1>2, <2>1, <2>2, <2>3 DEF Back
<1>3. CASE st # <<>>
  <2>1. Len(st) \in Nat \ {0}
    BY <1>3
  <2>2. PartSeen(st[Len(st)], before[Len(st) - 1], before[Len(st)])
    <3>1. Len(st) \in 1 .. Len(st)
      BY <2>1
    <3> QED BY <3>1 DEF Path
  <2>3. Callee(v, st, Len(st)) = PartOf(st[Len(st)].value, st[Len(st)].i)
    BY <2>1 DEF Callee
  <2>4. Path(v, st, before, Len(st) - 1)
    <3>1. \A j \in 1 .. Len(st) - 1 : j \in 1 .. Len(st)
      BY <2>1
    <3> QED BY <3>1 DEF Path
  <2> QED BY <1>3, <2>2, <2>3, <2>4 DEF Back, PartSeen
<1> QED BY <1>2, <1>3

LEMMA BegunFacts ==
  ASSUME Readable, FiniteTrees, NEW v \in Value, v.kind \in {"array", "object"}
  PROVE  /\ Begun(v, 0) = OpeningOf(v)
         /\ \A n \in 0 .. Count(v) : Begun(v, n) \in Shown
<1>1. OpeningOf(v) \in Shown /\ Inside(v, 0) = <<>> /\ \A n \in 0 .. Count(v) : Inside(v, n) \in Shown
  BY SignTypes, InsideFacts
<1> QED BY <1>1, ShownFacts DEF Begun

LEMMA FrameFacts ==
  ASSUME NEW st \in Seq(Frame), NEW f \in Frame
  PROVE  /\ Append(st, f) \in Seq(Frame) /\ Len(Append(st, f)) = Len(st) + 1
         /\ Append(st, f)[Len(st) + 1] = f
         /\ \A j \in 1 .. Len(st) : Append(st, f)[j] = st[j]
BY SMT

LEMMA ContainerCalled ==
  ASSUME Readable, FiniteTrees, NEW v \in Value, NEW st \in Seq(Frame), NEW before,
         NEW a \in Value, NEW z, Calling(v, st, before, a, z), a.kind \in {"array", "object"}
  PROVE  Back(v, Append(st, [value |-> a, i |-> 0, latch |-> FALSE]), before, z \o OpeningOf(a))
<1> DEFINE f == [value |-> a, i |-> 0, latch |-> FALSE]
           r == Append(st, f)
           m == Len(st)
<1>1. f \in Frame /\ f.value = a /\ f.i = 0 /\ f.latch = FALSE
  BY DEF Frame
<1> HIDE DEF f
<1>2. /\ r \in Seq(Frame) /\ Len(r) = m + 1 /\ r[m + 1] = f /\ \A j \in 1 .. m : r[j] = st[j]
      /\ m \in Nat
  BY <1>1, FrameFacts
<1> HIDE DEF r
<1>3. Path(v, st, before, m) /\ a = Callee(v, st, m) /\ z = before[m]
  BY DEF Calling
<1> HIDE DEF m
<1>4. \A j \in 0 .. m : Callee(v, r, j) = Callee(v, st, j)
  BY <1>2 DEF Callee
<1>5. Going(f)
  <2>1. Inside(a, 0) = <<>> /\ Count(a) \in Nat
    BY InsideFacts
  <2>2. 0 \in 0 .. Count(a)
    BY <2>1
  <2> QED BY <1>1, <2>1, <2>2 DEF Going
<1>6. ASSUME NEW j \in 1 .. m + 1 PROVE Going(r[j]) /\ r[j].value = Callee(v, r, j - 1)
  <2>1. CASE j = m + 1
    <3>1. j - 1 = m /\ m \in 0 .. m
      BY <1>2, <2>1
    <3> QED BY <1>1, <1>2, <1>3, <1>4, <1>5, <2>1, <3>1
  <2>2. CASE j # m + 1
    <3>1. j \in 1 .. m /\ j - 1 \in 0 .. m
      BY <1>2, <2>2
    <3> QED BY <1>2, <1>3, <1>4, <3>1 DEF Path, m
  <2> QED BY <2>1, <2>2
<1>7. \A j \in 1 .. m : PartSeen(r[j], before[j - 1], before[j])
  BY <1>2, <1>3 DEF Path
<1>8. (m + 1) - 1 = m
  BY <1>2
<1>9. Path(v, r, before, Len(r) - 1)
  BY <1>2, <1>3, <1>6, <1>7, <1>8 DEF Path
<1>10. r # <<>>
  BY <1>2
<1>11. z \o OpeningOf(a) = before[Len(r) - 1] \o Begun(r[Len(r)].value, r[Len(r)].i)
  BY <1>1, <1>2, <1>3, <1>8, BegunFacts
<1> QED BY <1>9, <1>10, <1>11 DEF Back, r, f

\* The frame at the top goes on to f.
LEMMA TopGoesOn ==
  ASSUME NEW st \in Seq(Frame), st # <<>>, NEW f \in Frame, f.value = st[Len(st)].value,
         NEW r, r = [st EXCEPT ![Len(st)] = f]
  PROVE  /\ r \in Seq(Frame) /\ r # <<>> /\ Len(r) = Len(st) /\ Len(st) \in Nat \ {0} /\ r[Len(st)] = f
         /\ \A j \in 1 .. Len(st) - 1 : r[j] = st[j]
         /\ \A v : \A j \in 0 .. Len(st) - 1 : Callee(v, r, j) = Callee(v, st, j)
         /\ \A j \in 1 .. Len(st) : r[j].value = st[j].value
<1>1. /\ r \in Seq(Frame) /\ Len(r) = Len(st) /\ Len(st) \in Nat \ {0} /\ r[Len(st)] = f
      /\ \A j \in 1 .. Len(st) - 1 : r[j] = st[j]
  BY SMT
<1>2. r # <<>>
  BY <1>1
<1>3. \A m \in Nat \ {0} : /\ \A j \in 0 .. m - 1 : j = 0 \/ j \in 1 .. m - 1
                          /\ \A j \in 1 .. m : j = m \/ j \in 1 .. m - 1
  OBVIOUS
<1>4. ASSUME NEW v, NEW j \in 0 .. Len(st) - 1 PROVE Callee(v, r, j) = Callee(v, st, j)
  <2>1. CASE j = 0
    BY Zenon, <2>1 DEF Callee
  <2>2. CASE j \in 1 .. Len(st) - 1
    <3>1. j # 0
      <4>1. \A m : 0 \notin 1 .. m
        OBVIOUS
      <4> QED BY <2>2, <4>1
    <3>2. Callee(v, r, j) = PartOf(r[j].value, r[j].i) /\ Callee(v, st, j) = PartOf(st[j].value, st[j].i)
      BY Zenon, <3>1 DEF Callee
    <3>3. r[j] = st[j]
      BY Zenon, <1>1, <2>2
    <3> QED BY Zenon, <3>2, <3>3
  <2> QED BY Zenon, <1>1, <1>3, <2>1, <2>2
<1>5. ASSUME NEW j \in 1 .. Len(st) PROVE r[j].value = st[j].value
  <2>1. j = Len(st) \/ j \in 1 .. Len(st) - 1
    BY Zenon, <1>1, <1>3
  <2> QED BY Zenon, <1>1, <2>1
<1> QED BY <1>1, <1>2, <1>4, <1>5

LEMMA BlankSkipped ==
  ASSUME Readable, FiniteTrees, NEW v \in Value, NEW st \in Seq(Frame), NEW before, NEW z,
         Back(v, st, before, z), st # <<>>, NEW f, f = st[Len(st)],
         f.value.kind = "object", f.i < Count(f.value), ~f.value.entries[f.i + 1].used
  PROVE  Back(v, [st EXCEPT ![Len(st)] = [f EXCEPT !.i = @ + 1]], before, z)
<1> DEFINE m == Len(st)
           g == [f EXCEPT !.i = @ + 1]
           r == [st EXCEPT ![m] = g]
<1>1. m \in Nat \ {0} /\ f \in Frame
  BY SMT
<1>2. g \in Frame
  BY <1>1, NextFrame
<1>3. g.value = f.value /\ g.i = f.i + 1 /\ g.latch = f.latch
  BY <1>1 DEF Frame
<1> HIDE DEF g
<1>4. /\ r \in Seq(Frame) /\ r # <<>> /\ Len(r) = m /\ r[m] = g
      /\ \A j \in 1 .. m - 1 : r[j] = st[j]
      /\ \A j \in 0 .. m - 1 : Callee(v, r, j) = Callee(v, st, j)
      /\ \A j \in 1 .. m : r[j].value = st[j].value
  BY <1>2, <1>3, TopGoesOn
<1> HIDE DEF r, m
<1>5. Path(v, st, before, m - 1) /\ z = before[m - 1] \o Begun(f.value, f.i)
  BY DEF Back, m
<1>6. Going(f)
  BY <1>1, <1>5 DEF Path, m
<1>7. /\ f.i + 1 \in 1 .. Count(f.value) /\ f.i + 1 \in 0 .. Count(f.value) /\ (f.i + 1) - 1 = f.i
  <2>1. Count(f.value) \in Nat
    BY <1>6, InsideFacts DEF Going
  <2> QED BY <1>6, <2>1 DEF Going
<1>8. Inside(f.value, f.i + 1) = Inside(f.value, f.i)
  <2>1. Inside(f.value, f.i + 1) = Inside(f.value, (f.i + 1) - 1)
    BY <1>6, <1>7, InsideFacts DEF Going
  <2> QED BY <1>7, <2>1
<1>9. Going(g)
  BY <1>3, <1>6, <1>7, <1>8 DEF Going
<1>10. ASSUME NEW j \in 1 .. m PROVE Going(r[j]) /\ r[j].value = Callee(v, r, j - 1)
  <2>1. j - 1 \in 0 .. m - 1 /\ (j = m \/ j \in 1 .. m - 1)
    BY <1>1
  <2>2. Going(st[j]) /\ st[j].value = Callee(v, st, j - 1)
    BY <1>5 DEF Path, m
  <2> QED BY <1>4, <1>9, <2>1, <2>2
<1>11. Path(v, r, before, m - 1)
  BY <1>4, <1>5, <1>10 DEF Path
<1>12. z = before[m - 1] \o Begun(g.value, g.i)
  BY <1>3, <1>5, <1>8 DEF Begun
<1> QED BY <1>4, <1>11, <1>12 DEF Back, r, g, m

LEMMA PartCalled ==
  ASSUME Readable, FiniteTrees, NEW v \in Value, NEW st \in Seq(Frame), NEW before, NEW z,
         Back(v, st, before, z), st # <<>>, NEW f, f = st[Len(st)], f.i < Count(f.value),
         NEW y \in Shown, Inside(f.value, f.i + 1) # <<>>,
         y \o Meaning[PartOf(f.value, f.i + 1)] = before[Len(st) - 1] \o Begun(f.value, f.i + 1)
  PROVE  Calling(v, [st EXCEPT ![Len(st)] = [f EXCEPT !.i = @ + 1, !.latch = TRUE]],
                 [before EXCEPT ![Len(st)] = y], PartOf(f.value, f.i + 1), y)
<1> DEFINE m == Len(st)
           g == [f EXCEPT !.i = @ + 1, !.latch = TRUE]
           r == [st EXCEPT ![m] = g]
           b == [before EXCEPT ![m] = y]
<1>1. m \in Nat \ {0} /\ f \in Frame
  BY SMT
<1>2. g \in Frame
  BY <1>1, NextFrame
<1>3. g.value = f.value /\ g.i = f.i + 1 /\ g.latch = TRUE
  BY <1>1 DEF Frame
<1> HIDE DEF g
<1>4. /\ r \in Seq(Frame) /\ r # <<>> /\ Len(r) = m /\ r[m] = g
      /\ \A j \in 1 .. m - 1 : r[j] = st[j]
      /\ \A j \in 0 .. m - 1 : Callee(v, r, j) = Callee(v, st, j)
      /\ \A j \in 1 .. m : r[j].value = st[j].value
  BY <1>2, <1>3, TopGoesOn
<1> HIDE DEF r
<1>5. Path(v, st, before, m - 1) /\ before \in [Nat -> Shown]
  BY DEF Back, Path
<1>6. b \in [Nat -> Shown] /\ b[m] = y /\ \A j \in 0 .. m - 1 : b[j] = before[j]
  <2> HIDE DEF m
  <2> QED BY <1>1, <1>5
<1> HIDE DEF b
<1>7. y \o Meaning[PartOf(f.value, f.i + 1)] = before[m - 1] \o Begun(f.value, f.i + 1)
  OBVIOUS
<1>8. Going(f)
  BY <1>1, <1>5 DEF Path
<1> HIDE DEF m
<1>9. f.i + 1 \in 1 .. Count(f.value) /\ f.i + 1 \in 0 .. Count(f.value)
  <2>1. Count(f.value) \in Nat
    BY <1>8, InsideFacts DEF Going
  <2> QED BY <1>8, <2>1 DEF Going
<1>10. Going(g)
  BY <1>3, <1>8, <1>9 DEF Going
<1>11. ASSUME NEW j \in 1 .. m PROVE Going(r[j]) /\ r[j].value = Callee(v, r, j - 1)
  <2>1. j - 1 \in 0 .. m - 1 /\ (j = m \/ j \in 1 .. m - 1)
    BY <1>1
  <2>2. Going(st[j]) /\ st[j].value = Callee(v, st, j - 1)
    BY <1>5 DEF Path, m
  <2> QED BY <1>4, <1>10, <2>1, <2>2
<1>12. ASSUME NEW j \in 1 .. m PROVE PartSeen(r[j], b[j - 1], b[j])
  <2>1. CASE j = m
    <3>1. b[j - 1] = before[m - 1] /\ b[j] = y /\ r[j] = g
      <4>1. m - 1 \in 0 .. m - 1
        BY <1>1
      <4> QED BY <1>4, <1>6, <2>1, <4>1
    <3> QED BY <1>3, <1>7, <1>9, <3>1 DEF PartSeen
  <2>2. CASE j # m
    <3>1. j \in 1 .. m - 1 /\ j - 1 \in 0 .. m - 1 /\ j \in 0 .. m - 1
      BY <1>1, <2>2
    <3>2. PartSeen(st[j], before[j - 1], before[j])
      BY <1>5, <3>1 DEF Path
    <3> QED BY <1>4, <1>6, <3>1, <3>2
  <2> QED BY <2>1, <2>2
<1>13. b[0] = <<>>
  <2>1. 0 \in 0 .. m - 1
    BY <1>1
  <2> QED BY <1>5, <1>6, <2>1 DEF Path
<1>14. Path(v, r, b, m)
  BY <1>4, <1>6, <1>11, <1>12, <1>13 DEF Path
<1>15. Callee(v, r, m) = PartOf(f.value, f.i + 1)
  BY <1>1, <1>3, <1>4 DEF Callee
<1> QED BY <1>4, <1>6, <1>14, <1>15 DEF Calling, r, g, b, m

LEMMA BelowFacts ==
  ASSUME NEW st \in Seq(Frame), st # <<>>
  PROVE  LET r == SubSeq(st, 1, Len(st) - 1)
         IN  /\ r \in Seq(Frame) /\ Len(r) = Len(st) - 1
             /\ \A j \in 1 .. Len(st) - 1 : r[j] = st[j]
<1>1. Len(st) \in Nat \ {0}
  BY SMT
<1> DEFINE n == Len(st) - 1
<1>2. n \in Nat /\ n \in Int /\ 1 \in Int /\ \A j \in 1 .. n : st[j] \in Frame
  BY <1>1
<1> HIDE DEF n
<1>3. /\ SubSeq(st, 1, n) \in Seq(Frame)
      /\ Len(SubSeq(st, 1, n)) = IF 1 <= n THEN n - 1 + 1 ELSE 0
      /\ \A j \in 1 .. n - 1 + 1 : SubSeq(st, 1, n)[j] = st[1 + j - 1]
  BY <1>2, SubSeqProperties
<1>4. (IF 1 <= n THEN n - 1 + 1 ELSE 0) = n /\ n - 1 + 1 = n /\ \A j \in 1 .. n : 1 + j - 1 = j
  BY <1>2
<1> QED BY <1>3, <1>4 DEF n

LEMMA ContainerDone ==
  ASSUME Readable, FiniteTrees, NEW v \in Value, NEW st \in Seq(Frame), NEW before, NEW z,
         Back(v, st, before, z), st # <<>>, NEW f, f = st[Len(st)], f.i = Count(f.value)
  PROVE  Back(v, SubSeq(st, 1, Len(st) - 1), before, z \o ClosingOf(f.value))
<1> DEFINE m == Len(st)
           r == SubSeq(st, 1, m - 1)
<1>1. m \in Nat \ {0} /\ f \in Frame
  BY SMT
<1>2. r \in Seq(Frame) /\ Len(r) = m - 1 /\ \A j \in 1 .. m - 1 : r[j] = st[j]
  BY BelowFacts
<1> HIDE DEF r
<1>3. Path(v, st, before, m - 1) /\ z = before[m - 1] \o Begun(f.value, f.i)
  BY DEF Back
<1>4. Going(f) /\ f.value = Callee(v, st, m - 1)
  <2>1. m \in 1 .. m
    BY <1>1
  <2> QED BY <1>3, <2>1 DEF Path
<1> HIDE DEF m
<1>5. \A j \in 0 .. m - 1 : Callee(v, r, j) = Callee(v, st, j)
  BY <1>1, <1>2 DEF Callee
<1>6. Path(v, r, before, m - 1)
  <2>1. ASSUME NEW j \in 1 .. m - 1
        PROVE  /\ Going(r[j]) /\ r[j].value = Callee(v, r, j - 1)
               /\ PartSeen(r[j], before[j - 1], before[j])
    <3>1. j \in 1 .. m /\ j - 1 \in 0 .. m - 1
      BY <1>1
    <3> QED BY <1>2, <1>3, <1>5, <3>1 DEF Path, m
  <2> QED BY <1>2, <1>3, <2>1 DEF Path
<1>7. Back(v, r, before, before[m - 1] \o Meaning[Callee(v, r, m - 1)])
  BY <1>2, <1>6, CallReturns
<1>8. Callee(v, r, m - 1) = f.value
  <2>1. m - 1 \in 0 .. m - 1
    BY <1>1
  <2> QED BY <1>4, <1>5, <2>1
<1>9. Meaning[f.value] = Begun(f.value, Count(f.value)) \o ClosingOf(f.value)
  BY <1>4, InsideFacts DEF Going
<1>10. z \o ClosingOf(f.value) = before[m - 1] \o Meaning[f.value]
  <2>1. before[m - 1] \in Shown
    BY <1>1, <1>3 DEF Path
  <2>2. Begun(f.value, Count(f.value)) \in Shown /\ ClosingOf(f.value) \in Shown
    BY <1>4, BegunFacts, SignTypes DEF Going
  <2>3. (before[m - 1] \o Begun(f.value, Count(f.value))) \o ClosingOf(f.value)
          = before[m - 1] \o (Begun(f.value, Count(f.value)) \o ClosingOf(f.value))
    BY <2>1, <2>2, ShownAssoc
  <2>4. z = before[m - 1] \o Begun(f.value, Count(f.value))
    BY <1>3
  <2> QED BY Zenon, <1>9, <2>3, <2>4
<1> QED BY <1>7, <1>8, <1>10 DEF r, m

\* The items k of a container that begins with o, behind p.
Within(p, o, k) == p \o (o \o k)

LEMMA WithinMore ==
  ASSUME NEW p \in Shown, NEW o \in Shown, NEW k \in Shown, NEW x \in Shown
  PROVE  Within(p, o, k) \o x = Within(p, o, k \o x) /\ Within(p, o, k) \in Shown /\ k \o x \in Shown
<1>1. o \o k \in Shown /\ k \o x \in Shown /\ p \o (o \o k) \in Shown
  <2>1. o \o k \in Shown /\ k \o x \in Shown
    BY ShownFacts
  <2> QED BY <2>1, ShownFacts
<1>2. (p \o (o \o k)) \o x = p \o ((o \o k) \o x)
  <2> DEFINE a == o \o k
  <2>1. a \in Shown
    BY <1>1
  <2> HIDE DEF a
  <2>2. (p \o a) \o x = p \o (a \o x)
    BY ZenonT(30), <2>1, ShownAssoc
  <2> QED BY Zenon, <2>2 DEF a
<1>3. (o \o k) \o x = o \o (k \o x)
  BY ZenonT(30), ShownAssoc
<1> QED BY Zenon, <1>1, <1>2, <1>3 DEF Within

IsBlank(v, n) == v.kind = "object" /\ ~v.entries[n].used

\* z and the comma that is printed for the frame f.
Separated(f, z) == IF f.latch THEN z \o Out(<<",">>) ELSE z

LEMMA LeadSeen ==
  ASSUME Readable, FiniteTrees, NEW f, Going(f), f.i < Count(f.value), ~IsBlank(f.value, f.i + 1),
         NEW p \in Shown, NEW z, z = p \o Begun(f.value, f.i), NEW y, y = Separated(f, z)
  PROVE  /\ z \in Shown /\ y \in Shown /\ y \o LeadOf(f.value, f.i + 1) \in Shown
         /\ Inside(f.value, f.i + 1) # <<>>
         /\ (y \o LeadOf(f.value, f.i + 1)) \o Meaning[PartOf(f.value, f.i + 1)]
              = p \o Begun(f.value, f.i + 1)
<1> DEFINE v == f.value
           n == f.i + 1
           o == OpeningOf(v)
           i == Inside(v, f.i)
           c == Out(<<",">>)
           l == LeadOf(v, n)
           m == Meaning[PartOf(v, n)]
<1>1. v \in Value /\ v.kind \in {"array", "object"} /\ f.i \in 0 .. Count(v) /\ Count(v) \in Nat
  BY InsideFacts DEF Going
<1>2. n \in 1 .. Count(v) /\ n - 1 = f.i
  <2>1. f.i < Count(v)
    OBVIOUS
  <2>2. f.i + 1 \in 1 .. Count(v) /\ (f.i + 1) - 1 = f.i
    <3> HIDE DEF v
    <3> QED BY <1>1, <2>1
  <2> QED BY <2>2
<1>3. o \in Shown /\ i \in Shown /\ c \in Shown /\ l \in Shown /\ m \in Shown /\ m # <<>>
  BY <1>1, <1>2, SignTypes, InsideFacts, CommaSeen, PartTypes
<1>4. l \o m \in Shown /\ l \o m # <<>>
  BY <1>3, ShownFacts
<1>5. Inside(v, n) = Listed(i, l \o m)
  BY ZenonT(60), <1>1, <1>2, InsideFacts DEF IsBlank
<1>6. (i # <<>> => y = z \o c) /\ (i = <<>> => y = z)
  BY Zenon DEF Going, Separated
<1>7. z = Within(p, o, i) /\ p \o Begun(v, n) = Within(p, o, Inside(v, n))
  BY DEF Begun, Within
<1> HIDE DEF v, n, o, i, c, l, m
<1>8. ASSUME NEW k \in Shown, NEW x \in Shown
      PROVE  Within(p, o, k) \o x = Within(p, o, k \o x) /\ Within(p, o, k) \in Shown /\ k \o x \in Shown
  <2>1. p \in Shown /\ o \in Shown /\ k \in Shown /\ x \in Shown
    BY <1>3
  <2> QED BY ZenonT(30), <2>1, WithinMore
<1>9. z \in Shown
  BY Zenon, <1>3, <1>7, <1>8
<1>10. CASE i # <<>>
  <2>1. Inside(v, n) = (i \o c) \o (l \o m)
    BY Zenon, <1>4, <1>5, <1>6, <1>10 DEF Listed, c
  <2>2. i \o c \in Shown /\ y = Within(p, o, i \o c)
    <3>1. Within(p, o, i) \o c = Within(p, o, i \o c) /\ i \o c \in Shown
      BY Zenon, <1>3, <1>8
    <3>2. y = Within(p, o, i) \o c
      BY Zenon, <1>6, <1>7, <1>10
    <3> QED BY Zenon, <3>1, <3>2
  <2>3. y \in Shown /\ (i \o c) \o l \in Shown /\ y \o l = Within(p, o, (i \o c) \o l)
    BY Zenon, <1>3, <1>8, <2>2
  <2>4. y \o l \in Shown /\ (y \o l) \o m = Within(p, o, ((i \o c) \o l) \o m)
    <3>1. /\ Within(p, o, (i \o c) \o l) \in Shown
          /\ Within(p, o, (i \o c) \o l) \o m = Within(p, o, ((i \o c) \o l) \o m)
      BY Zenon, <1>3, <1>8, <2>3
    <3> QED BY Zenon, <2>3, <3>1
  <2>5. ((i \o c) \o l) \o m = (i \o c) \o (l \o m)
    BY ZenonT(60), <1>3, <2>2, ShownAssoc
  <2>6. (y \o l) \o m = p \o Begun(v, n)
    BY Zenon, <1>7, <2>1, <2>4, <2>5
  <2>7. Inside(v, n) # <<>>
    BY <1>4, <2>1, <2>2, ShownNotEmpty
  <2> QED BY <1>9, <2>3, <2>4, <2>6, <2>7 DEF v, n, l, m
<1>11. CASE i = <<>>
  <2>1. i = <<>> /\ Inside(v, n) = l \o m
    BY Zenon, <1>4, <1>5, <1>6, <1>11 DEF Listed
  <2>2. y = Within(p, o, i)
    BY Zenon, <1>6, <1>7, <1>11
  <2>3. y \in Shown /\ i \o l \in Shown /\ y \o l = Within(p, o, i \o l)
    BY Zenon, <1>3, <1>8, <2>2
  <2>4. y \o l \in Shown /\ (y \o l) \o m = Within(p, o, (i \o l) \o m)
    <3>1. /\ Within(p, o, i \o l) \in Shown
          /\ Within(p, o, i \o l) \o m = Within(p, o, (i \o l) \o m)
      BY Zenon, <1>3, <1>8, <2>3
    <3> QED BY Zenon, <2>3, <3>1
  <2>5. i \o l = l
    BY <1>3, <2>1, ShownFacts
  <2>6. (y \o l) \o m = p \o Begun(v, n)
    BY Zenon, <1>7, <2>1, <2>4, <2>5
  <2> QED BY <1>4, <1>9, <2>1, <2>3, <2>4, <2>6 DEF v, n, l, m
<1> QED BY <1>10, <1>11

-----------------------------------------------------------------------------
(* Every step of the walk.                                                 *)

LEMMA NothingRead == ASSUME NEW s, NEW r, Reads(s, <<>>, r) PROVE s = r
<1>1. Len(<<>>) = 0
  OBVIOUS
<1> QED BY <1>1 DEF Reads

\* What was printed and what is to be printed next is seen as z.
Printed(z) == \E s : Leads(Fresh, text, s) /\ Reads(s, pending, At("outside", z))

Placed(before, z) ==
  IF at # <<>> THEN Calling(value, stack, before, at[1], z) ELSE Back(value, stack, before, z)

Faithful == pc # "idle" => \E before : \E z \in Shown : Placed(before, z) /\ Printed(z)

LEMMA PrintedNext ==
  ASSUME NEW z, NEW y, Printed(z), pending = <<>>, text' = text,
         Reads(At("outside", z), pending', At("outside", y))
  PROVE  Printed(y)'
<1>1. PICK s : Leads(Fresh, text, s) /\ Reads(s, pending, At("outside", z))
  BY DEF Printed
<1>2. s = At("outside", z)
  BY <1>1, NothingRead
<1>3. Leads(Fresh, text', s) /\ Reads(s, pending', At("outside", y))
  BY <1>1, <1>2
<1> QED BY <1>3 DEF Printed

LEMMA EmitFaithful == TypeOK /\ Faithful /\ Emit => Faithful'
<1> SUFFICES ASSUME TypeOK, Faithful, Emit PROVE Faithful'
  OBVIOUS
<1>1. /\ pc = "walk" /\ pending # <<>> /\ pending \in Seq(Text) /\ text \in Text
      /\ text' = text \o Head(pending) /\ pending' = Tail(pending) /\ UNCHANGED <<at, stack, value>>
  BY DEF TypeOK, Emit, jprintf
<1>2. PICK before, z : z \in Shown /\ Placed(before, z) /\ Printed(z)
  BY <1>1 DEF Faithful
<1>3. PICK s : Leads(Fresh, text, s) /\ Reads(s, pending, At("outside", z))
  BY <1>2 DEF Printed
<1>4. PICK q : Leads(Fresh, text', q) /\ Reads(q, pending', At("outside", z))
  BY <1>1, <1>3, ReadsHead
<1>5. Printed(z)'
  BY <1>4 DEF Printed
<1>6. Placed(before, z)'
  BY <1>1, <1>2 DEF Placed
<1> QED BY <1>2, <1>5, <1>6 DEF Faithful

\* A value without parts under way: Scalar and Empty.
LEMMA LeafReads ==
  ASSUME Readable, FiniteTrees, NEW v \in Value, ~Opens(v), NEW z \in Shown
  PROVE  Reads(At("outside", z), Piece(v), At("outside", z \o Meaning[v]))
<1>0. Meaning[v] = Content(v, Meaning)
  BY MeaningFacts
<1>1. CASE v.kind = "str"
  <2>1. Piece(v) = StringPieces(v.text) /\ Meaning[v] = Str(v.text)
    BY Zenon, <1>0, <1>1 DEF Piece, Content
  <2>2. v.text \in Text /\ Plain(v.text)
    BY <1>1, ValueKinds DEF Readable
  <2> QED BY <2>1, <2>2, StringReads
<1>2. CASE v.kind = "atom"
  <2>1. Piece(v) = <<v.text>> /\ Meaning[v] = Out(v.text)
    BY Zenon, <1>0, <1>2 DEF Piece, Content
  <2>2. v.text \in Text /\ Bare(v.text)
    BY <1>2, ValueKinds DEF Readable
  <2> QED BY <2>1, <2>2, BareLeads, ReadsOne
<1>3. CASE v.kind \in {"array", "object"}
  <2>1. Inside(v, Count(v)) = <<>>
    <3>1. CASE v.kind = "array"
      <4>1. v.values = <<>>
        BY <1>3, <3>1 DEF Opens
      <4>2. Len(v.values) = 0
        BY <4>1
      <4> QED BY <3>1, <4>2, CountIs, InsideFacts
    <3>2. CASE v.kind = "object"
      <4>1. \A n \in 1 .. Count(v) : ~v.entries[n].used
        BY <3>2, CountIs DEF Opens
      <4>2. \A n \in 1 .. Count(v) : Inside(v, n) = Inside(v, n - 1)
        BY <3>2, <4>1, InsideFacts
      <4>3. Inside(v, 0) = <<>> /\ Count(v) \in Nat
        BY <3>2, InsideFacts
      <4> DEFINE S == {n \in Nat : n <= Count(v) => Inside(v, n) = <<>>}
      <4>4. 0 \in S
        BY <4>3
      <4>5. ASSUME NEW n \in Nat, n \in S PROVE n + 1 \in S
        <5> SUFFICES ASSUME n + 1 <= Count(v) PROVE Inside(v, n + 1) = <<>>
          OBVIOUS
        <5>1. n + 1 \in 1 .. Count(v) /\ (n + 1) - 1 = n /\ n <= Count(v)
          BY <4>3
        <5>2. Inside(v, n + 1) = Inside(v, (n + 1) - 1)
          BY <4>2, <5>1
        <5> QED BY <4>5, <5>1, <5>2
      <4>6. Nat \subseteq S
        <5> HIDE DEF S
        <5> QED BY <4>4, <4>5, Induct
      <4> QED BY <4>3, <4>6
    <3> QED BY <1>3, <3>1, <3>2
  <2>2. Begun(v, Count(v)) = OpeningOf(v)
    BY <2>1, SignTypes, ShownFacts DEF Begun
  <2>3. Meaning[v] = OpeningOf(v) \o ClosingOf(v)
    BY <1>3, <2>2, InsideFacts
  <2>4. z \o Meaning[v] = (z \o OpeningOf(v)) \o ClosingOf(v)
    BY <2>3, SignTypes, ShownAssoc
  <2>5. CASE v.kind = "array"
    <3>1. v.values = <<>>
      BY <2>5 DEF Opens
    <3>2. Piece(v) = <<<<"[", " ", "]">>>>
      BY Zenon, <2>5, <3>1 DEF Piece
    <3>3. OpeningOf(v) = Out(<<"[">>) /\ ClosingOf(v) = Out(<<"]">>)
      BY Zenon, <2>5 DEF OpeningOf, ClosingOf
    <3>4. " " \in White
      BY Zenon DEF White
    <3>5. Reads(At("outside", z), <<<<"[", " ", "]">>>>, At("outside", (z \o Out(<<"[">>)) \o Out(<<"]">>)))
      BY Zenon, <3>4, EmptyReads
    <3> QED BY Zenon, <2>4, <3>2, <3>3, <3>5
  <2>6. CASE v.kind = "object"
    <3>0. v.kind # "array"
      BY <2>6
    <3>1. \A n \in 1 .. Len(v.entries) : ~v.entries[n].used
      BY <2>6 DEF Opens
    <3>2. Piece(v) = <<<<"{", " ", "}">>>>
      BY Zenon, <2>6, <3>1 DEF Piece
    <3>3. OpeningOf(v) = Out(<<"{">>) /\ ClosingOf(v) = Out(<<"}">>)
      BY Zenon, <3>0 DEF OpeningOf, ClosingOf
    <3>4. " " \in White
      BY Zenon DEF White
    <3>5. Reads(At("outside", z), <<<<"{", " ", "}">>>>, At("outside", (z \o Out(<<"{">>)) \o Out(<<"}">>)))
      BY Zenon, <3>4, EmptyReads
    <3> QED BY Zenon, <2>4, <3>2, <3>3, <3>5
  <2> QED BY <1>3, <2>5, <2>6
<1> QED BY <1>1, <1>2, <1>3, ValueKinds

LEMMA CallFaithful ==
  ASSUME Readable, FiniteTrees, TypeOK, Faithful, Scalar \/ Empty \/ Open
  PROVE  Faithful'
<1>1. /\ pc = "walk" /\ at # <<>> /\ pending = <<>> /\ at' = <<>> /\ text' = text
      /\ pc' = pc /\ value' = value
  BY DEF Scalar, Empty, Open, Ready, output
<1>2. at[1] \in Value /\ value \in Value /\ stack \in Seq(Frame)
  <2>1. at \in Seq(Value)
    BY DEF TypeOK
  <2>2. at[1] \in Value
    BY SMT, <1>1, <2>1
  <2> QED BY <2>2 DEF TypeOK
<1>0. PICK a : a = at[1]
  OBVIOUS
<1>3. PICK before, z : z \in Shown /\ Placed(before, z) /\ Printed(z)
  BY <1>1 DEF Faithful
<1>4. Calling(value, stack, before, a, z)
  BY <1>0, <1>1, <1>3 DEF Placed
<1>5. CASE Scalar \/ Empty
  <2>1. ~Opens(a) /\ pending' = Piece(a) /\ stack' = stack
    <3>1. CASE Scalar
      BY Zenon, <1>0, <3>1 DEF Scalar, Opens, Piece
    <3>2. CASE Empty
      BY Zenon, <1>0, <3>2 DEF Empty, Opens, Piece
    <3> QED BY <1>5, <3>1, <3>2
  <2>0. PICK x : x = z \o Meaning[a]
    OBVIOUS
  <2>2. Reads(At("outside", z), pending', At("outside", x))
    BY <1>0, <1>2, <1>3, <2>0, <2>1, LeafReads
  <2>3. Printed(x)'
    BY <1>1, <1>3, <2>2, PrintedNext
  <2>4. Back(value, stack, before, x)
    <3>1. Path(value, stack, before, Len(stack)) /\ a = Callee(value, stack, Len(stack))
          /\ z = before[Len(stack)]
      BY <1>4 DEF Calling
    <3> QED BY <1>0, <1>2, <2>0, <3>1, CallReturns
  <2>5. x \in Shown
    <3>1. Meaning[a] \in Shown
      BY <1>0, <1>2, MeaningFacts
    <3> QED BY <1>3, <2>0, <3>1, ShownFacts
  <2>6. Placed(before, x)'
    BY <1>1, <2>1, <2>4 DEF Placed
  <2> QED BY <2>3, <2>5, <2>6 DEF Faithful
<1>6. CASE Open
  <2>1. Opens(a) /\ pending' = Piece(a) /\ stack' = Append(stack, [value |-> a, i |-> 0, latch |-> FALSE])
    BY Zenon, <1>0, <1>6 DEF Open, Opens, Piece
  <2>2. a.kind \in {"array", "object"}
    BY <2>1 DEF Opens
  <2>3. Reads(At("outside", z), pending', At("outside", z \o OpeningOf(a))) /\ z \o OpeningOf(a) \in Shown
    <3>1. CASE a.kind = "array"
      <4>1. Piece(a) = <<<<"[", "nl">>>> /\ OpeningOf(a) = Out(<<"[">>)
        <5>1. a.values # <<>>
          BY <2>1, <3>1 DEF Opens
        <5> QED BY Zenon, <3>1, <5>1 DEF Piece, OpeningOf
      <4>2. "nl" \in White
        BY DEF White
      <4>3. /\ Reads(At("outside", z), <<<<"[", "nl">>>>, At("outside", z \o Out(<<"[">>)))
            /\ z \o Out(<<"[">>) \in Shown
        BY Zenon, <1>3, <4>2, SignReads
      <4> QED BY Zenon, <2>1, <4>1, <4>3
    <3>2. CASE a.kind = "object"
      <4>1. Piece(a) = <<<<"{", "nl">>>> /\ OpeningOf(a) = Out(<<"{">>)
        <5>1. ~(\A n \in 1 .. Len(a.entries) : ~a.entries[n].used)
          BY Zenon, <2>1, <3>2 DEF Opens
        <5>2. a.kind # "array"
          BY <3>2
        <5> QED BY Zenon, <3>2, <5>1, <5>2 DEF Piece, OpeningOf
      <4>2. "nl" \in White
        BY DEF White
      <4>3. /\ Reads(At("outside", z), <<<<"{", "nl">>>>, At("outside", z \o Out(<<"{">>)))
            /\ z \o Out(<<"{">>) \in Shown
        BY Zenon, <1>3, <4>2, SignReads
      <4> QED BY Zenon, <2>1, <4>1, <4>3
    <3> QED BY <2>2, <3>1, <3>2
  <2>4. PICK x : x = z \o OpeningOf(a)
    OBVIOUS
  <2>5. Printed(x)'
    BY <1>1, <1>3, <2>3, <2>4, PrintedNext
  <2>6. Back(value, stack', before, x)
    BY <1>0, <1>2, <1>4, <2>1, <2>2, <2>4, ContainerCalled
  <2>7. Placed(before, x)'
    BY <1>1, <2>6 DEF Placed
  <2> QED BY <2>3, <2>5, <2>7, <2>4 DEF Faithful
<1> QED BY <1>5, <1>6

\* Where the loop of the frame at the top goes on.
LEMMA LoopFacts ==
  ASSUME Readable, FiniteTrees, TypeOK, Faithful, Element \/ Blank \/ Entry \/ Close
  PROVE  /\ pc = "walk" /\ at = <<>> /\ pending = <<>> /\ text' = text /\ pc' = pc /\ value' = value
         /\ value \in Value /\ stack \in Seq(Frame) /\ stack # <<>> /\ Top = stack[Len(stack)] /\ indent \in Nat
         /\ \E before : \E z \in Shown :
              /\ Back(value, stack, before, z) /\ Printed(z) /\ Going(Top)
              /\ before \in [Nat -> Shown] /\ Path(value, stack, before, Len(stack) - 1)
              /\ z = before[Len(stack) - 1] \o Begun(Top.value, Top.i)
              /\ before[Len(stack) - 1] \in Shown
<1>1. /\ pc = "walk" /\ at = <<>> /\ pending = <<>> /\ text' = text /\ pc' = pc /\ value' = value
      /\ stack # <<>> /\ Top = stack[Len(stack)]
  BY DEF Element, Blank, Entry, Close, Looping, Ready, output, Top
<1>2. value \in Value /\ stack \in Seq(Frame) /\ indent \in Nat /\ Len(stack) \in Nat \ {0}
  BY SMT, <1>1 DEF TypeOK
<1>3. PICK before, z : z \in Shown /\ Placed(before, z) /\ Printed(z)
  BY <1>1 DEF Faithful
<1>4. Back(value, stack, before, z)
  BY <1>1, <1>3 DEF Placed
<1>5. Path(value, stack, before, Len(stack) - 1) /\ z = before[Len(stack) - 1] \o Begun(Top.value, Top.i)
  BY <1>1, <1>4 DEF Back
<1>6. Going(Top) /\ before \in [Nat -> Shown] /\ before[Len(stack) - 1] \in Shown
  <2>1. Len(stack) \in 1 .. Len(stack) /\ Len(stack) - 1 \in Nat
    BY <1>2
  <2> QED BY <1>1, <1>5, <2>1 DEF Path
<1> QED BY <1>1, <1>2, <1>3, <1>4, <1>5, <1>6

LEMMA BlankFaithful ==
  ASSUME Readable, FiniteTrees, TypeOK, Faithful, Blank
  PROVE  Faithful'
<1>1. PICK before, z : z \in Shown /\ Back(value, stack, before, z) /\ Printed(z) /\ Going(Top)
  BY LoopFacts
<1>2. /\ pc' = pc /\ value' = value /\ stack # <<>> /\ Top = stack[Len(stack)] /\ text' = text
      /\ value \in Value /\ stack \in Seq(Frame) /\ pc = "walk" /\ at = <<>>
  BY LoopFacts
<1>3. /\ Top.value.kind = "object" /\ Top.i < Len(Top.value.entries)
      /\ ~Top.value.entries[Top.i + 1].used
      /\ stack' = [stack EXCEPT ![Len(stack)] = [Top EXCEPT !.i = @ + 1]]
      /\ at' = at /\ pending' = pending
  BY DEF Blank, Looping, SetTop
<1>4. Top.i < Count(Top.value)
  BY <1>3, CountIs
<1>5. Back(value, stack', before, z)
  BY Zenon, <1>1, <1>2, <1>3, <1>4, BlankSkipped
<1>6. Placed(before, z)'
  BY <1>2, <1>3, <1>5 DEF Placed
<1>7. Printed(z)'
  BY <1>1, <1>2, <1>3 DEF Printed
<1> QED BY <1>1, <1>6, <1>7 DEF Faithful

\* The comma and the tabs in front of an item.
LEMMA SeparatorReads ==
  ASSUME NEW f, NEW z \in Shown, NEW n \in Nat
  PROVE  /\ Reads(At("outside", z), CommaOf(f) \o Tabs(n), At("outside", Separated(f, z)))
         /\ CommaOf(f) \o Tabs(n) \in Seq(Text) /\ Separated(f, z) \in Shown
<1>1. CommaOf(f) \in Seq(Text) /\ Separated(f, z) \in Shown
      /\ Reads(At("outside", z), CommaOf(f), At("outside", Separated(f, z)))
  <2>1. CASE f.latch
    <3>1. CommaOf(f) = <<<<",", "nl">>>> /\ Separated(f, z) = z \o Out(<<",">>)
      BY Zenon, <2>1 DEF CommaOf, Separated
    <3>2. "nl" \in White
      BY DEF White
    <3>3. <<<<",", "nl">>>> \in Seq(Text)
      BY Zenon, CellsOfEscapes, PieceType
    <3>4. /\ Reads(At("outside", z), <<<<",", "nl">>>>, At("outside", z \o Out(<<",">>)))
          /\ z \o Out(<<",">>) \in Shown
      BY Zenon, <3>2, SignReads
    <3> QED BY Zenon, <3>1, <3>3, <3>4
  <2>2. CASE ~f.latch
    <3>1. CommaOf(f) = <<>> /\ Separated(f, z) = z
      BY Zenon, <2>2 DEF CommaOf, Separated
    <3>2. <<>> \in Seq(Text) /\ Reads(At("outside", z), <<>>, At("outside", z))
      BY LeadsNone
    <3> QED BY Zenon, <3>1, <3>2
  <2> QED BY Zenon, <2>1, <2>2
<1>2. n \in Int
  OBVIOUS
<1>3. Tabs(n) \in Seq(Text) /\ Reads(At("outside", Separated(f, z)), Tabs(n), At("outside", Separated(f, z)))
  BY <1>1, <1>2, TabsType, TabsRead
<1>4. CommaOf(f) \o Tabs(n) \in Seq(Text)
  BY Zenon, <1>1, <1>3, ConcatType
<1> QED BY <1>1, <1>3, <1>4, ReadsConcat

LEMMA ItemFaithful ==
  ASSUME Readable, FiniteTrees, TypeOK, Faithful, Element \/ Entry
  PROVE  Faithful'
<1>1. PICK before, z :
        /\ z \in Shown /\ Back(value, stack, before, z) /\ Printed(z) /\ Going(Top)
        /\ before \in [Nat -> Shown]
        /\ z = before[Len(stack) - 1] \o Begun(Top.value, Top.i)
        /\ before[Len(stack) - 1] \in Shown
  BY LoopFacts
<1>2. /\ pc' = pc /\ value' = value /\ stack # <<>> /\ Top = stack[Len(stack)] /\ text' = text
      /\ value \in Value /\ stack \in Seq(Frame) /\ pc = "walk" /\ at = <<>> /\ indent \in Nat
      /\ pending = <<>>
  BY LoopFacts
<1> DEFINE f == Top
           n == Top.i + 1
           p == before[Len(stack) - 1]
           l == LeadOf(f.value, n)
           y == Separated(f, z) \o l
<1>3. /\ f.i < Count(f.value) /\ ~IsBlank(f.value, n) /\ at' = <<PartOf(f.value, n)>>
      /\ stack' = [stack EXCEPT ![Len(stack)] = [Top EXCEPT !.i = @ + 1, !.latch = TRUE]]
      /\ IF f.value.kind = "array" THEN pending' = CommaOf(f) \o Tabs(indent)
         ELSE /\ f.value.kind = "object"
              /\ pending' = ((CommaOf(f) \o Tabs(indent)) \o StringPieces(f.value.entries[n].key))
                              \o <<<<":", " ">>>>
  <2>0. Comma = CommaOf(f)
    BY Zenon DEF Comma, CommaOf
  <2>1. CASE Element
    <3>1. /\ f.value.kind = "array" /\ f.i < Len(f.value.values) /\ pending' = Comma \o Tabs(indent)
          /\ at' = <<f.value.values[n]>>
          /\ stack' = [stack EXCEPT ![Len(stack)] = [Top EXCEPT !.i = @ + 1, !.latch = TRUE]]
      BY Zenon, <2>1 DEF Element, Looping, SetTop
    <3>2. Count(f.value) = Len(f.value.values) /\ PartOf(f.value, n) = f.value.values[n]
      BY Zenon, <3>1, CountIs DEF PartOf
    <3>3. ~IsBlank(f.value, n)
      <4>1. f.value.kind # "object"
        BY <3>1
      <4> QED BY Zenon, <4>1 DEF IsBlank
    <3> HIDE DEF f, n
    <3> QED BY Zenon, <2>0, <3>1, <3>2, <3>3
  <2>2. CASE Entry
    <3>1. /\ f.value.kind = "object" /\ f.i < Len(f.value.entries) /\ f.value.entries[n].used
          /\ pending' = Comma \o Tabs(indent) \o StringPieces(f.value.entries[n].key) \o <<<<":", " ">>>>
          /\ at' = <<f.value.entries[n].value>>
          /\ stack' = [stack EXCEPT ![Len(stack)] = [Top EXCEPT !.i = @ + 1, !.latch = TRUE]]
      BY Zenon, <2>2 DEF Entry, Looping, SetTop
    <3>2. f.value.kind # "array"
      BY <3>1
    <3>3. Count(f.value) = Len(f.value.entries) /\ PartOf(f.value, n) = f.value.entries[n].value
      BY Zenon, <3>1, <3>2, CountIs DEF PartOf
    <3>4. ~IsBlank(f.value, n)
      BY Zenon, <3>1 DEF IsBlank
    <3> HIDE DEF f, n
    <3> QED BY Zenon, <2>0, <3>1, <3>2, <3>3, <3>4
  <2> QED BY <2>1, <2>2
<1>4. /\ Separated(f, z) \in Shown /\ y \in Shown /\ Inside(f.value, n) # <<>>
      /\ y \o Meaning[PartOf(f.value, n)] = p \o Begun(f.value, n)
  <2> HIDE DEF f, p, l
  <2>1. Going(f) /\ f.i < Count(f.value) /\ ~IsBlank(f.value, f.i + 1) /\ p \in Shown
        /\ z = p \o Begun(f.value, f.i)
    BY Zenon, <1>1, <1>3 DEF f, p
  <2>2. /\ Separated(f, z) \in Shown /\ Separated(f, z) \o LeadOf(f.value, f.i + 1) \in Shown
        /\ Inside(f.value, f.i + 1) # <<>>
        /\ (Separated(f, z) \o LeadOf(f.value, f.i + 1)) \o Meaning[PartOf(f.value, f.i + 1)]
             = p \o Begun(f.value, f.i + 1)
    BY Zenon, <2>1, LeadSeen
  <2> QED BY Zenon, <2>2 DEF f, l
<1>5. Reads(At("outside", z), pending', At("outside", y))
  <2>1. /\ Reads(At("outside", z), CommaOf(f) \o Tabs(indent), At("outside", Separated(f, z)))
        /\ CommaOf(f) \o Tabs(indent) \in Seq(Text)
    BY <1>1, <1>2, SeparatorReads
  <2>2. CASE f.value.kind = "array"
    <3>1. pending' = CommaOf(f) \o Tabs(indent) /\ l = <<>>
      BY Zenon, <1>3, <2>2 DEF LeadOf
    <3>2. y = Separated(f, z)
      <4>1. y = Separated(f, z) \o <<>>
        BY Zenon, <3>1
      <4> HIDE DEF y, f
      <4> QED BY <1>4, <4>1, ShownFacts
    <3> QED BY Zenon, <2>1, <3>1, <3>2
  <2>3. CASE f.value.kind # "array"
    <3> DEFINE k == f.value.entries[n].key
               b == CommaOf(f) \o Tabs(indent)
               w == Separated(f, z)
    <3>1. f.value.kind = "object" /\ pending' = (b \o StringPieces(k)) \o <<<<":", " ">>>>
      BY Zenon, <1>3, <2>3
    <3>2. k \in Text /\ Plain(k)
      <4>1. f.value \in Value /\ f.i \in 0 .. Count(f.value) /\ Count(f.value) \in Nat
        BY <1>1, InsideFacts DEF Going
      <4>2. n \in 1 .. Len(f.value.entries)
        <5>1. Count(f.value) = Len(f.value.entries)
          BY Zenon, <3>1, CountIs
        <5>2. f.i < Count(f.value)
          BY <1>3
        <5>3. f.i + 1 \in 1 .. Count(f.value)
          <6> HIDE DEF f
          <6> QED BY <4>1, <5>2
        <5> QED BY Zenon, <5>1, <5>3
      <4>3. f.value.entries[n] \in EntrySet
        BY Zenon, <3>1, <4>1, <4>2, ValueKinds
      <4>4. f.value.entries[n].used
        BY Zenon, <1>3, <3>1 DEF IsBlank
      <4>5. Plain(k)
        BY Zenon, <3>1, <4>1, <4>2, <4>4 DEF Readable
      <4>6. \A e \in EntrySet : e.key \in Text
        BY DEF EntrySet
      <4> QED BY Zenon, <4>3, <4>5, <4>6
    <3>3. l = Str(k) \o Out(<<":">>)
      BY Zenon, <2>3 DEF LeadOf
    <3> HIDE DEF k, b, w, f, n, l
    <3>4. w \in Shown /\ Str(k) \in Shown /\ w \o Str(k) \in Shown /\ Out(<<":">>) \in Shown
      <4>1. w \in Shown /\ Str(k) \in Shown /\ Out(<<":">>) \in Shown
        BY <1>4, <3>2, StrType, SignsOf, OutType DEF w
      <4> QED BY <4>1, ShownFacts
    <3>5. /\ StringPieces(k) \in Seq(Text)
          /\ Reads(At("outside", w), StringPieces(k), At("outside", w \o Str(k)))
      BY <3>2, <3>4, StringPiecesType, StringReads
    <3>6. b \in Seq(Text) /\ Reads(At("outside", z), b, At("outside", w))
      BY Zenon, <2>1 DEF b, w
    <3>7. /\ b \o StringPieces(k) \in Seq(Text)
          /\ Reads(At("outside", z), b \o StringPieces(k), At("outside", w \o Str(k)))
      <4>1. b \o StringPieces(k) \in Seq(Text)
        BY Zenon, <3>5, <3>6, ConcatType
      <4> QED BY Zenon, <3>5, <3>6, <4>1, ReadsConcat
    <3>8. /\ <<<<":", " ">>>> \in Seq(Text)
          /\ Reads(At("outside", w \o Str(k)), <<<<":", " ">>>>, At("outside", (w \o Str(k)) \o Out(<<":">>)))
      <4>1. " " \in White
        BY Zenon DEF White
      <4>2. <<<<":", " ">>>> \in Seq(Text)
        BY Zenon, CellsOfEscapes, PieceType
      <4> QED BY Zenon, <3>4, <4>1, <4>2, SignReads
    <3>9. Reads(At("outside", z), pending', At("outside", (w \o Str(k)) \o Out(<<":">>)))
      BY Zenon, <3>1, <3>7, <3>8, ReadsConcat
    <3>10. (w \o Str(k)) \o Out(<<":">>) = w \o (Str(k) \o Out(<<":">>))
      BY <3>4, ShownAssoc
    <3>11. (w \o Str(k)) \o Out(<<":">>) = w \o l
      BY Zenon, <3>3, <3>10
    <3> QED BY Zenon, <3>9, <3>11 DEF w
  <2> QED BY <2>2, <2>3
<1>6. PICK x : x = y
  OBVIOUS
<1>7. PICK q : q = PartOf(f.value, n)
  OBVIOUS
<1>8. PICK b : b = [before EXCEPT ![Len(stack)] = y]
  OBVIOUS
<1>9. /\ Reads(At("outside", z), pending', At("outside", x)) /\ x \in Shown /\ at' = <<q>>
      /\ Calling(value, stack', b, q, x)
  <2>1. Calling(value, stack', [before EXCEPT ![Len(stack)] = y], PartOf(f.value, n), y)
    BY Zenon, <1>1, <1>2, <1>3, <1>4, PartCalled
  <2> HIDE DEF y, f, n
  <2> QED BY Zenon, <1>3, <1>4, <1>5, <1>6, <1>7, <1>8, <2>1
<1> HIDE DEF y, f, n, p, l
<1>10. Printed(x)'
  BY Zenon, <1>1, <1>2, <1>9, PrintedNext
<1>11. at' # <<>> /\ at'[1] = q
  <2>1. \A e : <<e>> # <<>> /\ <<e>>[1] = e
    OBVIOUS
  <2> QED BY Zenon, <1>9, <2>1
<1>12. Placed(b, x)'
  BY Zenon, <1>2, <1>9, <1>11 DEF Placed
<1> QED BY Zenon, <1>10, <1>12, <1>9 DEF Faithful

LEMMA CloseFaithful ==
  ASSUME Readable, FiniteTrees, TypeOK, Faithful, Close
  PROVE  Faithful'
<1>1. PICK before, z : z \in Shown /\ Back(value, stack, before, z) /\ Printed(z) /\ Going(Top)
  BY LoopFacts
<1>2. /\ pc' = pc /\ value' = value /\ stack # <<>> /\ Top = stack[Len(stack)] /\ text' = text
      /\ value \in Value /\ stack \in Seq(Frame) /\ pc = "walk" /\ at = <<>> /\ indent \in Nat
      /\ pending = <<>>
  BY LoopFacts
<1>3. PICK f : f = Top
  OBVIOUS
<1>4. PICK c : c = IF f.value.kind = "array" THEN "]" ELSE "}"
  OBVIOUS
<1>5. PICK x : x = z \o ClosingOf(f.value)
  OBVIOUS
<1>6. /\ f.i = Count(f.value) /\ stack' = SubSeq(stack, 1, Len(stack) - 1) /\ at' = at
      /\ pending' = (<<<<"nl">>>> \o Tabs(indent - 1)) \o <<<<c>>>>
  <2>1. f.i = Count(f.value)
    BY Zenon, <1>3, CountIs DEF Close, Looping
  <2>2. CASE f.value.kind = "array"
    BY Zenon, <1>3, <1>4, <2>1, <2>2 DEF Close, Below
  <2>3. CASE f.value.kind # "array"
    BY Zenon, <1>3, <1>4, <2>1, <2>3 DEF Close, Below
  <2> QED BY <2>2, <2>3
<1>7. c \in {"]", "}"} /\ ClosingOf(f.value) = Out(<<c>>)
  <2>1. CASE f.value.kind = "array"
    BY Zenon, <1>4, <2>1 DEF ClosingOf
  <2>2. CASE f.value.kind # "array"
    BY Zenon, <1>4, <2>2 DEF ClosingOf
  <2> QED BY <2>1, <2>2
<1>8. Reads(At("outside", z), pending', At("outside", x)) /\ x \in Shown
  <2>1. <<<<"nl">>>> \in Seq(Text) /\ Reads(At("outside", z), <<<<"nl">>>>, At("outside", z))
    <3>1. "nl" \in Cell
      BY CellsOfEscapes
    <3> QED BY <1>1, <3>1, PieceType, NewlineReads
  <2>2. indent - 1 \in Int
    BY <1>2
  <2>3. Tabs(indent - 1) \in Seq(Text) /\ Reads(At("outside", z), Tabs(indent - 1), At("outside", z))
    BY <1>1, <2>2, TabsType, TabsRead
  <2>4. /\ <<<<"nl">>>> \o Tabs(indent - 1) \in Seq(Text)
        /\ Reads(At("outside", z), <<<<"nl">>>> \o Tabs(indent - 1), At("outside", z))
    <3>1. <<<<"nl">>>> \o Tabs(indent - 1) \in Seq(Text)
      BY Zenon, <2>1, <2>3, ConcatType
    <3> QED BY Zenon, <2>1, <2>3, <3>1, ReadsConcat
  <2>5. <<<<c>>>> \in Seq(Text) /\ Reads(At("outside", z), <<<<c>>>>, At("outside", x)) /\ x \in Shown
    <3>1. "nl" \in White /\ c \in {"[", "]", "{", "}", ",", ":"}
      BY <1>7 DEF White
    <3>2. <<c>> \in Text
      BY <3>1, SignsOf
    <3>3. Reads(At("outside", z), <<<<c>>>>, At("outside", z \o Out(<<c>>))) /\ z \o Out(<<c>>) \in Shown
      BY Zenon, <1>1, <3>1, SignReads
    <3>4. <<<<c>>>> \in Seq(Text)
      BY <3>2
    <3> QED BY Zenon, <1>5, <1>7, <3>3, <3>4
  <2> QED BY Zenon, <1>6, <2>4, <2>5, ReadsConcat
<1>9. Back(value, stack', before, x)
  <2>1. Back(value, SubSeq(stack, 1, Len(stack) - 1), before, z \o ClosingOf(f.value))
    BY <1>1, <1>2, <1>3, <1>6, ContainerDone
  <2> QED BY Zenon, <1>5, <1>6, <2>1
<1>10. Placed(before, x)'
  BY <1>2, <1>6, <1>9 DEF Placed
<1>11. Printed(x)'
  BY <1>1, <1>2, <1>8, PrintedNext
<1> QED BY <1>8, <1>10, <1>11 DEF Faithful

LEMMA EndFaithful == Faithful /\ (End \/ UNCHANGED vars) => Faithful'
<1> SUFFICES ASSUME Faithful, End \/ UNCHANGED vars PROVE Faithful'
  OBVIOUS
<1>1. CASE pc = "idle"
  BY <1>1 DEF End, Ready, vars, Faithful
<1>2. CASE pc # "idle"
  <2>1. PICK before, z : z \in Shown /\ Placed(before, z) /\ Printed(z)
    BY <1>2 DEF Faithful
  <2>2. at' = at /\ pending' = pending /\ stack' = stack /\ value' = value /\ text' = text
    BY DEF End, vars, walk, output
  <2>3. Placed(before, z)' /\ Printed(z)'
    BY <2>1, <2>2 DEF Placed, Printed
  <2> QED BY <2>1, <2>3 DEF Faithful
<1> QED BY <1>1, <1>2

LEMMA BeginFaithful == \A size : Begin(size) => Faithful'
<1> SUFFICES ASSUME NEW size, Begin(size) PROVE Faithful'
  OBVIOUS
<1>1. PICK v : v = value
  OBVIOUS
<1>2. /\ value' = v /\ at' = <<v>> /\ pending' = <<>> /\ stack' = <<>> /\ text' = <<>>
  BY <1>1 DEF Begin
<1>3. PICK before : before = [n \in Nat |-> <<>>]
  OBVIOUS
<1>4. <<>> \in Shown /\ before \in [Nat -> Shown] /\ before[0] = <<>>
  BY <1>3 DEF Shown
<1>5. Calling(v, <<>>, before, v, <<>>)
  <2>1. Len(<<>>) = 0 /\ 1 .. 0 = {}
    OBVIOUS
  <2> QED BY Zenon, <1>4, <2>1 DEF Calling, Path, Callee
<1>6. Placed(before, <<>>)'
  <2>1. <<v>> # <<>> /\ <<v>>[1] = v
    OBVIOUS
  <2> QED BY Zenon, <1>2, <1>5, <2>1 DEF Placed
<1>7. Printed(<<>>)'
  <2>1. Leads(Fresh, <<>>, Fresh) /\ Reads(Fresh, <<>>, Fresh) /\ Fresh = At("outside", <<>>)
    BY LeadsNone DEF Fresh, At
  <2> QED BY <1>2, <2>1 DEF Printed
<1> QED BY <1>4, <1>6, <1>7 DEF Faithful

\* json.h:306: what is printed is JSON for the value, for every value that is a
\* finite tree, whose numbers and literals have the texts of JSON, and whose
\* strings have no control character without an escape of its own.
THEOREM PrintedIsTheValue == Readable /\ FiniteTrees => (Spec => []PrintsTheValue)
<1> SUFFICES ASSUME Readable, FiniteTrees PROVE Spec => []PrintsTheValue
  OBVIOUS
<1>1. Init => Faithful /\ OnItsWay /\ AtTheEnd /\ Measured
  BY SMT DEF Init, Faithful, OnItsWay, AtTheEnd, Measured
<1>2. TypeOK /\ Faithful /\ [Next]_vars => Faithful'
  BY EmitFaithful, CallFaithful, ItemFaithful, BlankFaithful, CloseFaithful, EndFaithful,
     BeginFaithful DEF Next, Step
<1>3. Faithful /\ AtTheEnd /\ TypeOK => PrintsTheValue
  <2> SUFFICES ASSUME Faithful, AtTheEnd, TypeOK, pc = "done" PROVE Read(text) = Meaning[value]
    BY DEF PrintsTheValue
  <2>1. at = <<>> /\ pending = <<>> /\ stack = <<>> /\ text \in Text
    BY DEF AtTheEnd, Ended, Where, TypeOK
  <2>2. PICK before, z : Placed(before, z) /\ Printed(z)
    BY DEF Faithful
  <2>3. z = Meaning[value]
    BY <2>1, <2>2 DEF Placed, Back
  <2>4. PICK s : Leads(Fresh, text, s) /\ Reads(s, pending, At("outside", z))
    BY <2>2 DEF Printed
  <2>5. s = At("outside", z)
    BY Zenon, <2>1, <2>4, NothingRead
  <2>6. Leads(Fresh, text, At("outside", z))
    BY Zenon, <2>4, <2>5
  <2>7. Read(text) = z
    BY Zenon, <2>1, <2>6, ReadIs
  <2> QED BY <2>3, <2>7
<1> QED BY <1>1, <1>2, <1>3, WayNext, BufferAlways, PTL DEF Spec

=============================================================================
