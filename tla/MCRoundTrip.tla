---------------------------- MODULE MCRoundTrip -----------------------------
(* Instances of RoundTrip: the values that are formatted and read back. *)
EXTENDS RoundTrip

CONSTANTS MaxLiteralPieces, MaxNamePieces   \* the largest numbers of pieces of a value

ValuesOf(fragments, n) == {FlattenSeq(s) : s \in BoundedSeq(fragments, n)}

\* Quotes, escapes and letters of escapes, control characters, runes of two,
\* three and four bytes, the replacement character, and a byte that is no UTF-8.
LiteralFragments ==
  {Bytes("'"), Bytes("\""), Bytes("\\"), Bytes("x"), Bytes("7"), <<Newline>>,
   <<NUL>>, <<127>>, <<255>>, <<195, 169>>, <<239, 191, 189>>, <<226, 130, 172>>, <<240, 159, 152, 128>>}
LiteralKinds == {"string", "bytes", "ident", "rawhex", "rawescape"}
LiteralCases == [kind : LiteralKinds, value : ValuesOf(LiteralFragments, MaxLiteralPieces),
                 before : {<<>>, Bytes("e")}, after : {<<>>, Bytes(" 'b'")}]

\* Names: letters of both cases, a digit, a dollar, a quote, and the words the
\* scanner and the lexer treat specially: all those that Lex looks ahead for, and
\* all those it does so after.
LookaheadWords == {Bytes(w) : w \in {"of", "between", "in", "like", "ilike", "similar", "time",
                                     "ordinality", "always"}}
WordsBefore == {Bytes(w) : w \in {"as", "not", "with", "generated"}}
NameFragments ==
  {Bytes("a"), Bytes("Z"), Bytes("_"), Bytes("1"), Bytes("$"), Bytes("\""), <<195, 169>>, <<195, 137>>,
   Bytes("of"), Bytes("always"), Bytes("not"), Bytes("testing_")}
NameValues == ValuesOf(NameFragments, MaxNamePieces) \cup LookaheadWords \cup WordsBefore
NameCases == [kind : {"name", "unrestricted"}, value : NameValues,
              before : {<<>>} \cup WordsBefore, after : {<<>>, Bytes(".b")}]

AllCases == LiteralCases \cup NameCases

\* The words Lex looks ahead for, after each that it does so after.
WordCases == [kind : {"name"}, value : LookaheadWords, before : WordsBefore, after : {<<>>, Bytes(".b")}]

\* The prefixes scanIdent drops from a keyword.
PrefixFragments == {Bytes("experimental_"), Bytes("testing_"), Bytes("ranges"), Bytes("a")}
PrefixCases == [kind : {"name"}, value : ValuesOf(PrefixFragments, MaxNamePieces), before : {<<>>}, after : {<<>>}]
=============================================================================
