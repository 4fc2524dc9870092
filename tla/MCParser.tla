------------------------------ MODULE MCParser ------------------------------
(* Instances of Parser for TLC.                                            *)
EXTENDS Parser

\* The parser treats numbers and words alike, and everything that begins no
\* token but the byte 0xFF.
AllTokens == {"[", "]", "{", "}", ",", ":", "str", "num", "word",
              "badstr", "longnum", "junk", "0xFF"}
=============================================================================
