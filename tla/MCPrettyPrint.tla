---------------------------- MODULE MCPrettyPrint ----------------------------
(* Instances of PrettyPrint for TLC.                                       *)
EXTENDS PrettyPrint

Characters == {"a", "b", "0", "1", "-"}

Atom(t) == [kind |-> "atom", text |-> t]
String(t) == [kind |-> "str", text |-> t]
Array(v) == [kind |-> "array", values |-> v]
Object(e) == [kind |-> "object", entries |-> e]
Used(k, v) == [used |-> TRUE, key |-> k, value |-> v]
Hole == [used |-> FALSE, key |-> <<>>, value |-> Atom(<<"0">>)]

\* Numbers and strings: one that is printed at once, one that is escaped for its
\* quote, its backslash, its line feed and its tab (and then its slash), an empty one,
\* and a slash that is not escaped.
Scalars == {Atom(<<"0">>), Atom(<<"-", "1">>), String(<<"a", "b">>), String(<<>>),
            String(<<"slash">>), String(<<"quote", "backslash", "nl", "tab", "slash", "a">>)}

Flat == {Array(<<>>), Object(<<>>), Object(<<Hole>>)}
          \cup {Array(<<v>>) : v \in Scalars}
          \cup {Array(<<Atom(<<"0">>), v>>) : v \in Scalars}
          \cup {Object(<<Hole, Used(k, Atom(<<"0">>)), Hole, Used(<<"b">>, v)>>) :
                  k \in {<<"a">>, <<"quote">>}, v \in Scalars}

Nested == {Array(<<v, w>>) : v, w \in Flat \cap {Array(<<>>), Array(<<Atom(<<"0">>)>>), Object(<<>>)}}
            \cup {Object(<<Used(<<"a">>, v), Hole>>) : v \in Flat}

AllValues == Scalars \cup Flat \cup Nested
=============================================================================
