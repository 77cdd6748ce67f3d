---------------------------- MODULE SQLStatements ----------------------------
(***************************************************************************)
(* Parser.scanOneStmt and Parser.Parse (parser/parse.go): the statements   *)
(* of a text.  The grammar (sql.y) is abstracted to Accepts.               *)
(***************************************************************************)
EXTENDS SQLLex

\* A token of a statement that starts at start, and the text of a statement.  The
\* mutant leaves the position in the whole input.
NotRebased(t, start) == t
Rebased(t, start) == [t EXCEPT !.pos = @ - start, !.end = @ - start]
StatementText(in, start, end) == Slice(in, start, end)

\* scanOneStmt with s.pos = from: the text of the next statement, its tokens at
\* positions in that text, whether it is the last, and s.pos afterwards.
SkipSemicolons(t, Rest) == IF t.id = Semicolon THEN Rest[t.end] ELSE t
StmtAfter(in, start, p, t, Rest) ==
  IF t.id \in {0, Semicolon}
  THEN [sql |-> StatementText(in, start, p), tokens |-> <<>>, done |-> t.id = 0, end |-> t.end]
  ELSE IF t.id = ERROR
  THEN [sql |-> Slice(in, start, Len(in)), tokens |-> <<Rebased(t, start)>>, done |-> TRUE, end |-> t.end]
  ELSE [Rest[t.end] EXCEPT !.tokens = <<Rebased(t, start)>> \o @]
StmtFrom(in, first) ==
  LET S[p \in 0..Len(in)] == StmtAfter(in, first.pos, p, Scan(in, p), S)
  IN  IF first.id = 0
      THEN [sql |-> <<>>, tokens |-> <<>>, done |-> TRUE, end |-> first.end]
      ELSE S[first.pos]
ScanOneStmt(in, from) ==
  LET First[p \in 0..Len(in)] == SkipSemicolons(Scan(in, p), First)
  IN  StmtFrom(in, First[from])

\* The grammar has no rule with one of these tokens, except the rules for help,
\* which return an error.  A statement without tokens is accepted, with no AST.
NeverAccepted == {ERROR, HELPTOKEN, Dollar}
Accepts(tokens) == \A i \in DOMAIN tokens : tokens[i].id \notin NeverAccepted

\* What a statement is: the tokens the grammar sees and their strings.
Statement(tokens) == [i \in DOMAIN tokens |-> <<LexID(tokens, i), tokens[i].str>>]

\* Parse: the statements before the first one that is not accepted, and whether
\* all are.
ParseAfter(s, stmts, Rest) ==
  LET more == IF s.tokens = <<>> THEN stmts ELSE Append(stmts, Statement(s.tokens))
  IN  IF ~Accepts(s.tokens) THEN [ok |-> FALSE, stmts |-> stmts]
      ELSE IF s.done THEN [ok |-> TRUE, stmts |-> more]
      ELSE Rest[s.end, more]
Parse(in) ==
  LET P[p \in 0..Len(in), stmts \in Seq(Seq(Nat \X Seq(Byte)))] ==
        ParseAfter(ScanOneStmt(in, p), stmts, P)
  IN  P[0, <<>>]
=============================================================================
