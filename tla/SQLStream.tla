------------------------------ MODULE SQLStream ------------------------------
(***************************************************************************)
(* Stream of main.go: statements out of an io.Reader through a             *)
(* bufio.Scanner whose buffer is bounded.  The reader hands out the text   *)
(* in pieces of any size, and the split function sees every prefix that    *)
(* happens to be in the buffer.                                            *)
(***************************************************************************)
EXTENDS SQLStatements

CONSTANTS Fragments,     \* the pieces of text inputs are made of
          MaxFragments,  \* the largest number of pieces of an input
          BufferSize     \* defaultMax of NewStream

ASSUME StreamAssumption ==
  /\ \A f \in Fragments : f \in Seq(Byte) /\ f # <<>>
  /\ MaxFragments \in Nat
  /\ BufferSize \in Nat \ {0}

VARIABLES input,    \* everything the reader has to give
          unread,   \* what it has not given yet
          buf,      \* the bytes in the scanner's buffer
          eof,      \* the reader has returned io.EOF
          calling,  \* a call of Next is in progress
          results   \* what the calls of Next returned

streamVars == <<input, unread, buf, eof, calling, results>>

StatementResult(stmt) == [kind |-> "statement", stmt |-> stmt]
Result(kind) == [kind |-> kind, stmt |-> <<>>]
EOFResult == Result("EOF")
TooLongResult == Result("line too long")
UnexpectedResult == Result("unexpected")
SyntaxErrorResult == Result("syntax error")

NewStream(text) == /\ input = text
                   /\ unread = text
                   /\ buf = <<>>
                   /\ eof = FALSE
                   /\ calling = FALSE
                   /\ results = <<>>
StreamInit == \E s \in BoundedSeq(Fragments, MaxFragments) : NewStream(FlattenSeq(s))

\* The caller stops at the end and at an error of the reader, and may go on
\* after a statement that does not parse.
Finished == results # <<>> /\ Last(results) \in {EOFResult, TooLongResult}

CallNext == /\ ~calling
            /\ ~Finished
            /\ calling' = TRUE
            /\ UNCHANGED <<input, unread, buf, eof, results>>

\* splitSQLSemicolon: how many bytes to take as a token; 0 asks for more data.
\* The mutant takes an unfinished statement for a token.
SplitEagerly(data, atEOF) ==
  IF SplitFirstStatement(data).ok THEN SplitFirstStatement(data).pos ELSE Len(data)
SplitOrRest(split, data, atEOF) ==
  IF split.ok THEN split.pos ELSE IF atEOF THEN Len(data) ELSE 0
splitSQLSemicolon(data, atEOF) == SplitOrRest(SplitFirstStatement(data), data, atEOF)

Return(result) == /\ calling' = FALSE
                  /\ results' = Append(results, result)

\* The body of Next's loop: a token of n bytes from the buffer is parsed.
DeliverParsed(parsed) ==
  IF ~parsed.ok THEN Return(SyntaxErrorResult)
  ELSE IF Len(parsed.stmts) = 0 THEN UNCHANGED <<calling, results>>
  ELSE IF Len(parsed.stmts) = 1 THEN Return(StatementResult(parsed.stmts[1]))
  ELSE Return(UnexpectedResult)
DeliverToken(n) ==
  /\ n > 0
  /\ buf' = SubSeq(buf, n + 1, Len(buf))
  /\ DeliverParsed(Parse(SubSeq(buf, 1, n)))
Deliver ==
  /\ calling
  /\ DeliverToken(splitSQLSemicolon(buf, eof))
  /\ UNCHANGED <<input, unread, eof>>

NeedsData == calling /\ splitSQLSemicolon(buf, eof) = 0

\* bufio.Scanner.Scan reads when the buffer holds no token and has room.
ReadChunk ==
  /\ NeedsData /\ ~eof
  /\ \E n \in 1..Min({Len(unread), BufferSize - Len(buf)}) :
       /\ buf' = buf \o SubSeq(unread, 1, n)
       /\ unread' = SubSeq(unread, n + 1, Len(unread))
  /\ UNCHANGED <<input, eof, calling, results>>

ReadEOF ==
  /\ NeedsData /\ ~eof
  /\ unread = <<>> /\ Len(buf) < BufferSize
  /\ eof' = TRUE
  /\ UNCHANGED <<input, unread, buf, calling, results>>

\* The buffer is full and holds no token: Scan stops with bufio.ErrTooLong.  The
\* mutant gives up one byte before.
BufferAlmostFull == Len(buf) + 1 >= BufferSize
BufferFull == Len(buf) >= BufferSize
TooLong ==
  /\ NeedsData /\ ~eof /\ BufferFull
  /\ Return(TooLongResult)
  /\ UNCHANGED <<input, unread, buf, eof>>

EndOfStream ==
  /\ NeedsData /\ eof
  /\ Return(EOFResult)
  /\ UNCHANGED <<input, unread, buf, eof>>

\* The caller is done; in every other state some step must be possible.
StreamStop == Finished /\ UNCHANGED streamVars

StreamNext == CallNext \/ Deliver \/ ReadChunk \/ ReadEOF \/ TooLong \/ EndOfStream \/ StreamStop
StreamSpec == StreamInit /\ [][StreamNext]_streamVars

-----------------------------------------------------------------------------
StreamTypeOK ==
  /\ input \in Seq(Byte) /\ unread \in Seq(Byte) /\ buf \in Seq(Byte)
  /\ Len(buf) <= BufferSize
  /\ eof \in BOOLEAN /\ calling \in BOOLEAN
  /\ \A i \in DOMAIN results :
       results[i].kind \in {"statement", "EOF", "line too long", "unexpected", "syntax error"}

\* The results are the first of expected, or all of them and then an end.
ResultsAre(expected, n, ends) ==
  /\ SubSeq(results, 1, Min({n, Len(results)})) \in
       {SubSeq(expected, 1, k) : k \in 0..n}
       \cup {Append(SubSeq(expected, 1, k), TooLongResult) : k \in 0..n}
  /\ Len(results) > n => results[n + 1] \in ends
ResultsOf(whole) ==
  ResultsAre([i \in DOMAIN whole.stmts |-> StatementResult(whole.stmts[i])], Len(whole.stmts),
             {TooLongResult, IF whole.ok THEN EOFResult ELSE SyntaxErrorResult})

\* However the reader cuts the text, the calls of Next return the statements that
\* Parse finds in the whole of it, in order: up to the first error, and all of
\* them by the time Next returns io.EOF without one.
StreamIsParse == results # <<>> => ResultsOf(Parse(input))

\* What is next in the stream, up to and with its semicolon, does not fit.
NotFitting(split, rest) == IF split.ok THEN split.pos > BufferSize ELSE Len(rest) >= BufferSize

\* "line too long" is returned only when what is next in the stream, up to and
\* with its semicolon, does not fit the buffer; a text without one needs room to
\* see the end behind it.  The error of Next's default case is never returned, also
\* after other errors: a token of the split function holds one statement at most.
ErrorsExplained ==
  /\ TooLongResult \in ToSet(results) =>
       NotFitting(SplitFirstStatement(buf \o unread), buf \o unread)
  /\ UnexpectedResult \notin ToSet(results)

\* All tokens of the input, scanned to its last byte.
TokenThen(in, t, Rest) == IF t.pos >= Len(in) THEN <<>> ELSE <<t>> \o Rest[t.end]
AllTokens(in) ==
  LET A[p \in 0..Len(in)] == TokenThen(in, Scan(in, p), A)
  IN  A[0]

\* "Next returns the next statement, or io.EOF if complete" (main.go): when it
\* says so without an error on the way, every token of the input but semicolons
\* (and NUL bytes) was in a statement it returned.
CompleteAtEOF ==
  results # <<>> /\ Last(results) = EOFResult /\ SyntaxErrorResult \notin ToSet(results) =>
    FoldLeft(LAMBDA n, r : n + Len(r.stmt), 0, results) =
    Len(SelectSeq(AllTokens(input), LAMBDA t : t.id \notin {Semicolon, NUL}))
=============================================================================
