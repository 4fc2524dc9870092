----------------------------- MODULE JsonGrammar -----------------------------
(***************************************************************************)
(* The grammar of JSON texts over tokens (RFC 8259, white space left out), *)
(* as the set of the texts of at most MaxTokens tokens whose values are    *)
(* nested at most MaxDepth deep.  A number of these texts ("num") has at   *)
(* most 4094 characters: a longer one ("longnum") is JSON too, but beyond  *)
(* the other limit that the parser has, and in none of these texts.        *)
(* A reference for the parser: nothing but these two limits is taken from  *)
(* its code.                                                               *)
(***************************************************************************)
EXTENDS Integers, Sequences

CONSTANTS MaxTokens, MaxDepth

Scalar == {<<"str">>, <<"num">>, <<"word">>}

Short(texts) == {s \in texts : Len(s) <= MaxTokens}

\* The texts of S, one or more of them, separated by commas.  (list[n]: at most n.)
CommaList(S) ==
  LET list[n \in 0 .. MaxTokens] ==
        IF n = 0 THEN {} ELSE S \cup Short({x \o <<",">> \o y : x \in S, y \in list[n - 1]})
  IN  list[(MaxTokens + 1) \div 2]

Bracketed(open, S, close) == {<<open>> \o e \o <<close>> : e \in {<<>>} \cup CommaList(S)}

Members(values) == Short({<<"str", ":">> \o v : v \in values})

\* What is nested one level deeper than `inner`, scalars included.
Nest(inner) == Short(Scalar \cup Bracketed("[", inner, "]")
                            \cup Bracketed("{", Members(inner), "}"))

\* Values whose nesting, scalars included, is at most d.
Values[d \in 0 .. MaxDepth] == IF d = 0 THEN {} ELSE Nest(Values[d - 1])

Texts == Values[MaxDepth]

\* What may stand at the beginning of a text.
ViablePrefixes == UNION {{SubSeq(t, 1, n) : n \in 0 .. Len(t)} : t \in Texts}
=============================================================================
