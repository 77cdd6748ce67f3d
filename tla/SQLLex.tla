------------------------------- MODULE SQLLex --------------------------------
(***************************************************************************)
(* lexer.Lex (parser/lexer.go): the id of the i-th token of a statement as *)
(* the grammar sees it, with one more token of lookahead for four words.   *)
(***************************************************************************)
EXTENDS SQLScan

Keyword(w) == GetKeywordID(Bytes(w))

NOT_LA == 57816
WITH_LA == 57817
AS_LA == 57818
GENERATED_ALWAYS == 57819

\* The words that change the id of the one before them.
Lookahead == {<<Keyword(l[1]), Keyword(l[2]), l[3]>> : l \in
  {<<"as", "of", AS_LA>>, <<"generated", "always", GENERATED_ALWAYS>>,
   <<"with", "time", WITH_LA>>, <<"with", "ordinality", WITH_LA>>}
  \cup {<<"not", w, NOT_LA>> : w \in {"between", "in", "like", "ilike", "similar"}}}

\* Past the last token Lex returns 0, the end of the statement.
LexID(tokens, i) ==
  LET id(k) == IF k > Len(tokens) THEN 0 ELSE tokens[k].id
      rule == {l \in Lookahead : l[1] = id(i) /\ l[2] = id(i + 1)}
  IN  IF rule = {} THEN id(i) ELSE (CHOOSE l \in rule : TRUE)[3]
=============================================================================
