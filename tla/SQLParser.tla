------------------------------ MODULE SQLParser ------------------------------
(***************************************************************************)
(* Parser (parser/parse.go) with its lexer (parser/lexer.go), used for     *)
(* one Parse after another.  The generated LALR parser is external: it     *)
(* reads tokens through Lex, runs the rules' actions, and accepts or fails *)
(* at a point of its choice.                                               *)
(***************************************************************************)
EXTENDS SQLStatements

\* The ways a Parser is used: the pieces of text inputs are made of and the largest
\* number of them in an input, the number of calls of Parse, and the largest number
\* of annotations of a statement.
CONSTANT Uses

ASSUME ParserAssumption ==
  \A i \in DOMAIN Uses :
    /\ \A f \in Uses[i].fragments : f \in Seq(Byte) /\ f # <<>>
    /\ Uses[i].maxFragments \in Nat /\ Uses[i].maxCalls \in Nat /\ Uses[i].maxAnnotations \in Nat

VARIABLES use,       \* which of the Uses it is
          phase,     \* "idle", or inside of Parse: "scan", "yacc" or "failed"
          sql, pos,  \* scanner.in and scanner.pos
          lexer,     \* the lexer of the current statement
          done,      \* scanOneStmt said that it is the last
          reduced,   \* how many of its tokens the rules have consumed
          stmts,     \* the slice parseWithDepth appends to
          stmtBuf,   \* the array of length 1 in the Parser
          returned   \* what each call returned

vars == <<use, phase, sql, pos, lexer, done, reduced, stmts, stmtBuf, returned>>

Inputs == {FlattenSeq(s) : s \in BoundedSeq(Uses[use].fragments, Uses[use].maxFragments)}

NoStmt == [ast |-> <<>>, sql |-> <<>>, numPlaceholders |-> 0, numAnnotations |-> 0,
         annotations |-> <<>>]
NoError == [kind |-> "none", id |-> 0, pos |-> 0, from |-> 0, to |-> 0, hint |-> FALSE]

\* A slice over stmtBuf (inBuf), or over an array of its own.
EmptySlice == [inBuf |-> TRUE, len |-> 0, array |-> <<>>]
Seen(slice) == IF slice.inBuf THEN SubSeq(<<stmtBuf>>, 1, slice.len) ELSE slice.array

\* The lexer of a new Parser.
ZeroLexer == [in |-> <<>>, tokens |-> <<>>, lastPos |-> 0, numPlaceholders |-> 0,
              numAnnotations |-> 0, annotations |-> <<>>, lastError |-> NoError]

\* lexer.init.  annotations are the indices put in the AST of this statement.  The
\* mutant forgets the counters of the statement before.
InitKeepsCounters(in, tokens) ==
  [lexer EXCEPT !.in = in, !.tokens = tokens, !.lastPos = -1, !.annotations = <<>>,
                !.lastError = NoError]
InitLexer(in, tokens) ==
  [ZeroLexer EXCEPT !.in = in, !.tokens = tokens, !.lastPos = -1]

Init == /\ use \in DOMAIN Uses
        /\ phase = "idle"
        /\ sql = <<>> /\ pos = 0
        /\ lexer = ZeroLexer
        /\ done = FALSE /\ reduced = 0
        /\ stmts = EmptySlice
        /\ stmtBuf = NoStmt
        /\ returned = <<>>

\* Parse: the new list starts in stmtBuf, over the one of the call before.
CallParse ==
  /\ phase = "idle" /\ Len(returned) < Uses[use].maxCalls
  /\ sql' \in Inputs
  /\ pos' = 0
  /\ stmts' = EmptySlice
  /\ phase' = "scan"
  /\ UNCHANGED <<use, lexer, done, reduced, stmtBuf, returned>>

\* scanOneStmt and lexer.init.
ScanOne ==
  /\ phase = "scan"
  /\ LET s == ScanOneStmt(sql, pos)
     IN  /\ lexer' = InitLexer(s.sql, s.tokens)
         /\ done' = s.done
         /\ pos' = s.end
  /\ reduced' = 0
  /\ phase' = "yacc"
  /\ UNCHANGED <<use, sql, stmts, stmtBuf, returned>>

\* lexer.lastToken.
LastToken ==
  IF lexer.lastPos < 0 THEN Token(0, 0, 0, <<>>)
  ELSE IF lexer.lastPos >= Len(lexer.tokens)
  THEN Token(0, Len(lexer.in), Len(lexer.in), Bytes("EOF"))
  ELSE lexer.tokens[lexer.lastPos + 1]

\* Lex: the parser has shifted the token before, which its rules may not have
\* consumed yet, and does not read beyond the end of the statement.
Lex ==
  /\ phase = "yacc" /\ lexer.lastPos < Len(lexer.tokens)
  /\ reduced >= lexer.lastPos /\ LastToken.id \notin NeverAccepted
  /\ lexer' = [lexer EXCEPT !.lastPos = @ + 1]
  /\ UNCHANGED <<use, phase, sql, pos, done, reduced, stmts, stmtBuf, returned>>

\* The rules' actions on the next token: UpdateNumPlaceholders for a placeholder,
\* and NewAnnotation for some syntax.
UpdateNumPlaceholders(t) ==
  IF t.id # PLACEHOLDER THEN lexer.numPlaceholders
  ELSE Max({lexer.numPlaceholders, Number(t.str, 10)})

Reduce ==
  /\ phase = "yacc" /\ reduced <= lexer.lastPos /\ reduced < Len(lexer.tokens)
  /\ LET t == lexer.tokens[reduced + 1]
     IN  /\ t.id \notin NeverAccepted
         /\ \E n \in 0..1 :
              /\ lexer.numAnnotations + n <= Uses[use].maxAnnotations
              /\ lexer' = [lexer EXCEPT
                   !.numPlaceholders = UpdateNumPlaceholders(t),
                   !.numAnnotations = @ + n,
                   !.annotations = IF n = 0 THEN @ ELSE Append(@, lexer.numAnnotations + 1)]
  /\ reduced' = reduced + 1
  /\ UNCHANGED <<use, phase, sql, pos, done, stmts, stmtBuf, returned>>

\* populateErrorDetails: the error says what the last token is, and shows the
\* text up to the end of its line with a caret below it, pos - from columns in.
\* The mutant takes the newline for the start of the line it ends.
LineStartOff(t) == Max({q \in 0..t.pos : q = 0 \/ Peek(lexer.in, q) = Newline})
LineStart(t) == Max({q \in 0..t.pos : q = 0 \/ lexer.in[q] = Newline})
LineEnd(t) == Min({q \in t.pos..Len(lexer.in) : Peek(lexer.in, q) \in {Newline, Eof}})
PopulateErrorDetails(kind, hint) ==
  LET t == LastToken
  IN  [kind |-> IF t.id = ERROR THEN "lexical" ELSE kind, id |-> t.id,
       pos |-> t.pos, from |-> LineStart(t), to |-> LineEnd(t), hint |-> hint]

\* The parser calls Error, or an action calls one of Error, setErr and
\* Unimplemented*.  In a rule with the token "error", SetHelp then adds a hint.
YaccError ==
  /\ phase = "yacc" /\ lexer.lastPos >= 0
  /\ \E hint \in BOOLEAN : lexer' = [lexer EXCEPT !.lastError = PopulateErrorDetails("syntax", hint)]
  /\ phase' = "failed"
  /\ UNCHANGED <<use, sql, pos, done, reduced, stmts, stmtBuf, returned>>

\* A rule that ends in HELPTOKEN: helpWith, and SetHelp with no error before.
YaccHelp ==
  /\ phase = "yacc" /\ LastToken.id = HELPTOKEN /\ reduced = lexer.lastPos
  /\ lexer' = [lexer EXCEPT !.lastError = [NoError EXCEPT !.kind = "help", !.id = HELPTOKEN]]
  /\ phase' = "failed"
  /\ UNCHANGED <<use, sql, pos, done, reduced, stmts, stmtBuf, returned>>

\* append to a slice of capacity 1, then to one that was moved out of stmtBuf.  The
\* mutants write every statement to stmtBuf, and past its end.
AppendInPlace(stmt) ==
  /\ stmts' = [stmts EXCEPT !.len = 1]
  /\ stmtBuf' = stmt
AppendPastEnd(stmt) ==
  /\ stmts' = [stmts EXCEPT !.len = @ + 1]
  /\ stmtBuf' = stmt
AppendStmt(stmt) ==
  IF stmts.len = 0
  THEN /\ stmts' = [stmts EXCEPT !.len = 1]
       /\ stmtBuf' = stmt
  ELSE /\ stmts' = [inBuf |-> FALSE, len |-> stmts.len + 1, array |-> Append(Seen(stmts), stmt)]
       /\ UNCHANGED stmtBuf

Cleanup(l) == [l EXCEPT !.tokens = <<>>, !.lastError = NoError]

\* The parser accepts: SetStmt, the statement is appended unless it is empty, and
\* parseWithDepth goes on or returns.
YaccAccept ==
  /\ phase = "yacc" /\ lexer.lastPos = Len(lexer.tokens) /\ reduced = Len(lexer.tokens)
  /\ IF lexer.tokens = <<>> THEN UNCHANGED <<stmts, stmtBuf>>
     ELSE AppendStmt([ast |-> Statement(lexer.tokens), sql |-> lexer.in,
                      numPlaceholders |-> lexer.numPlaceholders,
                      numAnnotations |-> lexer.numAnnotations,
                      annotations |-> lexer.annotations])
  /\ IF done
     THEN /\ phase' = "idle"
          /\ returned' = Append(returned, [sql |-> sql, ok |-> TRUE, stmts |-> stmts'])
     ELSE phase' = "scan" /\ UNCHANGED returned
  /\ lexer' = Cleanup(lexer)
  /\ UNCHANGED <<use, sql, pos, done, reduced>>

\* parse returns the error, and parseWithDepth no statements.
ReturnError ==
  /\ phase = "failed"
  /\ returned' = Append(returned, [sql |-> sql, ok |-> FALSE, stmts |-> EmptySlice])
  /\ lexer' = Cleanup(lexer)
  /\ phase' = "idle"
  /\ UNCHANGED <<use, sql, pos, done, reduced, stmts, stmtBuf>>

Stop == phase = "idle" /\ Len(returned) = Uses[use].maxCalls /\ UNCHANGED vars

Next == \/ CallParse \/ ScanOne \/ Lex \/ Reduce \/ YaccError \/ YaccHelp
        \/ YaccAccept \/ ReturnError \/ Stop
Spec == Init /\ [][Next]_vars

-----------------------------------------------------------------------------
TypeOK ==
  /\ phase \in {"idle", "scan", "yacc", "failed"}
  /\ sql \in Seq(Byte) /\ pos \in 0..Len(sql)
  /\ lexer.in \in Seq(Byte)
  /\ lexer.lastError.kind \in {"none", "syntax", "lexical", "help"}
  /\ done \in BOOLEAN
  /\ phase \in {"yacc", "failed"} =>
       lexer.lastPos \in -1..Len(lexer.tokens) /\ reduced \in 0..Len(lexer.tokens)
  /\ stmts.inBuf => stmts.len <= 1
  /\ Len(returned) <= Uses[use].maxCalls

\* scanOneStmt makes "the resulting token positions match the returned string":
\* scanned on its own from a token's position, the text of a statement gives the
\* token that came out of the whole input.
TokensMatchText ==
  \A i \in DOMAIN lexer.tokens :
    LET t == lexer.tokens[i]
        again == Scan(lexer.in, t.pos)
    IN  again.id = t.id /\ again.pos = t.pos /\ again.str = t.str

\* populateErrorDetails slices the text inside its bounds, prints whole lines, and
\* its caret stands under the token the error names.
ErrorPointsAtToken ==
  LET e == lexer.lastError
  IN  e.kind \in {"syntax", "lexical"} =>
        /\ 0 <= e.from /\ e.from <= e.pos /\ e.pos <= e.to /\ e.to <= Len(lexer.in)
        /\ Newline \notin ToSet(Slice(lexer.in, e.from, e.pos))
        /\ (e.from = 0 \/ lexer.in[e.from] = Newline)
        /\ Scan(lexer.in, e.pos).id = e.id

\* The last list that Parse returned, and every list of more than one statement,
\* is that of its text, whatever else the same Parser was used for.  (A list of
\* one statement lives in stmtBuf, where the next call puts its own.)
ReturnedIntact ==
  \A i \in DOMAIN returned :
    LET r == returned[i]
        seen == Seen(r.stmts)
    IN  r.ok /\ ((i = Len(returned) /\ phase = "idle") \/ r.stmts.len > 1) =>
          [k \in DOMAIN seen |-> seen[k].ast] = Parse(r.sql).stmts

\* The statements in the Parser's memory and in the list it is building.
Stmts == ({stmtBuf} \cup ToSet(stmts.array)) \ {NoStmt}

\* NumPlaceholders "corresponds to the highest argument position (i.e. the x in
\* $x) that appears in the query", NumAnnotations "is equal to the maximum
\* annotation index" (parse.go), of this statement and no other.
CountersExact(s) ==
  LET placeholders == SelectSeq(s.ast, LAMBDA t : t[1] = PLACEHOLDER)
  IN  /\ s.numPlaceholders = Max({0} \cup {Number(t[2], 10) : t \in ToSet(placeholders)})
      /\ s.annotations = [k \in 1..s.numAnnotations |-> k]

\* The fields of every Statement are those of this statement and no other: its SQL
\* gives the same AST when it is parsed on its own, without the text that surrounded
\* it, and its counters are those of its placeholders and annotations, whatever
\* statements the lexer had before.
StatementsExact ==
  \A s \in Stmts : Parse(s.sql) = [ok |-> TRUE, stmts |-> <<s.ast>>] /\ CountersExact(s)
=============================================================================
